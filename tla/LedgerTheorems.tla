--------------------------- MODULE LedgerTheorems ---------------------------
(***************************************************************************)
(* The Ledger, for any number of owners, requests, ids and commands.       *)
(*                                                                         *)
(* Whose: OwnersStayApart.  IInv says what a session may hold between two  *)
(* of its statements: only aggregates of the owner who asks (Tidy), which  *)
(* refer to aggregates the session loaded or added, and the ones its next  *)
(* statement uses (Placed).                                                *)
(*                                                                         *)
(* What: TypeOK, OneItemPerName and OnlyWhatWasAsked.  Every row a request *)
(* commits is one its table accepts: TInv adds which use case has reached  *)
(* which statement, so that what it takes from the command is there.  KInv *)
(* adds that a key follows its name, and AInv that a session holds the     *)
(* changes its command asks for and no other.                              *)
(*                                                                         *)
(* When: what overlapping requests break (runs LedgerTornLine and          *)
(* LedgerTornName find it), and the least that would prevent it.  SInv is  *)
(* the invariant that columns of one row agree; it is inductive as long as *)
(* no commit writes over a row that changed after it was loaded            *)
(* (NothingOverwritten).  Where an expense is filed needs more: the        *)
(* category looked at has to be as it was, too (NothingStale).  Requests   *)
(* that take turns (OneAtATime) do all of it.                              *)
(*                                                                         *)
(* As a whole: CarriedOutWhole, the refinement of SpendingBook.  Draft     *)
(* says what a session has done of its use case at each of its statements; *)
(* what a commit leaves that relies on nothing stale (Outcome) is then     *)
(* what the book makes of the command, for each of the twelve.  Counts     *)
(* have to hold, too (NothingMiscounted).                                  *)
(***************************************************************************)
EXTENDS Ledger, TLAPS

(* Whose aggregates a session holds.                                     *)

Fields == {"cmd", "pc", "seen", "now", "new", "gone", "category", "item"}

\* An aggregate of this session, of its owner.
Held(s, row, id) == /\ "owner" \in DOMAIN row
                    /\ row.owner = s.cmd.owner
                    /\ id \in ExpenseIds => {"category", "item"} \subseteq DOMAIN row

\* Where this session may have pointed an expense that pointed to category c
\* and item i.
Points(s, row, c, i) == /\ row.category \in {c} \cup DOMAIN s.seen
                        /\ row.item \in {i, None} \cup DOMAIN s.now

Tidy(s) ==
    /\ DOMAIN s = Fields
    /\ DOMAIN s.now = DOMAIN s.seen \cup s.new
    /\ DOMAIN s.seen \subseteq minted
    /\ s.new \subseteq Ids \ minted
    /\ \A id \in DOMAIN s.now : Held(s, s.now[id], id)
    /\ \A id \in DOMAIN s.seen :
          /\ DOMAIN s.now[id] = DOMAIN s.seen[id]
          /\ id \in DOMAIN rows => /\ DOMAIN rows[id] = DOMAIN s.seen[id]
                                   /\ rows[id].owner = s.cmd.owner
                                   /\ s.seen[id].owner = s.cmd.owner
          /\ id \in ExpenseIds =>
                Points(s, s.now[id], s.seen[id].category, s.seen[id].item)
    /\ \A e \in s.new \cap ExpenseIds : /\ s.now[e].category \in DOMAIN s.seen
                                        /\ s.now[e].item \in {None} \cup DOMAIN s.now
    /\ s.category \in {None} \cup DOMAIN s.seen
    /\ s.item \in {None} \cup DOMAIN s.now

Placed(s) ==
    /\ s.pc = "get_expense" => s.cmd.op # "record"
    /\ s.pc \in {"use_category", "resolve_item"} /\ s.cmd.op = "update"
          => s.cmd.expense \in DOMAIN s.seen
    /\ s.pc \in {"resolve_item", "insert_expense"} /\ s.cmd.op = "record"
          => s.category \in DOMAIN s.seen
    /\ s.pc = "insert_expense" => s.cmd.op = "record"
    /\ s.pc = "list_categories" /\ s.cmd.op = "rename_category"
          => s.cmd.category \in DOMAIN s.seen
    /\ s.pc = "count_for_category" => s.cmd.category \in DOMAIN s.seen
    /\ s.pc = "count_for_item" => s.cmd.item \in DOMAIN s.seen

RowsHeld ==
    /\ minted \subseteq Ids
    /\ DOMAIN rows \subseteq minted
    /\ \A id \in DOMAIN rows :
          /\ "owner" \in DOMAIN rows[id]
          /\ id \in ExpenseIds => {"category", "item"} \subseteq DOMAIN rows[id]

NewApart == \A r, q \in Requests : r # q => session[r].new \cap session[q].new = {}

IInv == /\ RowsHeld
        /\ OwnersStayApart
        /\ session = [r \in Requests |-> session[r]]
        /\ \A r \in Requests : Tidy(session[r]) /\ Placed(session[r])
        /\ NewApart
-----------------------------------------------------------------------------
\* Loading rows of the owner who asks leaves a session tidy (repository.py
\* 60-70: an id loaded before keeps its aggregate).
LEMMA Loading ==
    ASSUME NEW s, NEW ids, Tidy(s), RowsHeld,
           \A id \in ids : id \in DOMAIN rows /\ rows[id].owner = s.cmd.owner
    PROVE  LET l == rehydrate(s, ids)
           IN /\ Tidy(l)
              /\ DOMAIN l.seen = DOMAIN s.seen \cup ids
              /\ DOMAIN l.now = DOMAIN s.now \cup ids
              /\ l.cmd = s.cmd /\ l.pc = s.pc /\ l.new = s.new
              /\ l.category = s.category /\ l.item = s.item
<1> DEFINE l == rehydrate(s, ids)
           g == [id \in ids |-> to_domain(rows[id])]
<1>1. /\ DOMAIN l = Fields
      /\ l.seen = Complete(s.seen, ids, rows)
      /\ l.now = Complete(s.now, ids, g)
      /\ l.cmd = s.cmd /\ l.pc = s.pc /\ l.new = s.new
      /\ l.category = s.category /\ l.item = s.item
  BY DEF rehydrate, Tidy, Fields
<1>2. /\ DOMAIN l.seen = DOMAIN s.seen \cup ids
      /\ DOMAIN l.now = DOMAIN s.now \cup ids
      /\ \A id \in DOMAIN s.seen : l.seen[id] = s.seen[id]
      /\ \A id \in ids \ DOMAIN s.seen : l.seen[id] = rows[id]
      /\ \A id \in DOMAIN s.now : l.now[id] = s.now[id]
      /\ \A id \in ids \ DOMAIN s.now : l.now[id] = to_domain(rows[id])
  BY <1>1 DEF Complete
<1>3. ids \subseteq minted /\ ids \subseteq DOMAIN rows
  BY DEF RowsHeld
<1>4. \A id \in ids : id \in DOMAIN s.now <=> id \in DOMAIN s.seen
  BY <1>3 DEF Tidy
<1>5. \A id \in ids : LET row == to_domain(rows[id])
                      IN /\ DOMAIN row = DOMAIN rows[id]
                         /\ row.owner = rows[id].owner
                         /\ id \in ExpenseIds => /\ row.category = rows[id].category
                                                 /\ row.item = rows[id].item
  BY <1>3 DEF to_domain, RowsHeld
<1>6. \A id \in DOMAIN l.now : Held(l, l.now[id], id)
  <2> SUFFICES ASSUME NEW id \in DOMAIN l.now PROVE Held(l, l.now[id], id)
    OBVIOUS
  <2>1. CASE id \in DOMAIN s.now
    BY <2>1, <1>1, <1>2 DEF Tidy, Held
  <2>2. CASE id \in ids \ DOMAIN s.now
    BY <2>2, <1>1, <1>2, <1>3, <1>5 DEF RowsHeld, Held
  <2> QED BY <2>1, <2>2, <1>2
<1>7. ASSUME NEW id \in DOMAIN l.seen
      PROVE  /\ DOMAIN l.now[id] = DOMAIN l.seen[id]
             /\ id \in DOMAIN rows => /\ DOMAIN rows[id] = DOMAIN l.seen[id]
                                      /\ rows[id].owner = l.cmd.owner
                                      /\ l.seen[id].owner = l.cmd.owner
             /\ id \in ExpenseIds =>
                   Points(l, l.now[id], l.seen[id].category, l.seen[id].item)
  <2>1. CASE id \in DOMAIN s.seen
    <3>1. l.now[id] = s.now[id] /\ l.seen[id] = s.seen[id]
      BY <2>1, <1>2 DEF Tidy
    <3> QED BY <2>1, <3>1, <1>1, <1>2 DEF Tidy, Points
  <2>2. CASE id \in ids \ DOMAIN s.seen
    <3>1. l.now[id] = to_domain(rows[id]) /\ l.seen[id] = rows[id]
      BY <2>2, <1>2, <1>4
    <3> QED BY <2>2, <3>1, <1>1, <1>3, <1>5 DEF Points
  <2> QED BY <2>1, <2>2, <1>2
<1>8. DOMAIN l.now = DOMAIN l.seen \cup l.new
  BY <1>1, <1>2 DEF Tidy
<1>9. \A e \in l.new \cap ExpenseIds : /\ l.now[e].category \in DOMAIN l.seen
                                      /\ l.now[e].item \in {None} \cup DOMAIN l.now
  BY <1>1, <1>2 DEF Tidy
<1>10. /\ DOMAIN l.seen \subseteq minted
       /\ l.new \subseteq Ids \ minted
       /\ l.category \in {None} \cup DOMAIN l.seen
       /\ l.item \in {None} \cup DOMAIN l.now
  BY <1>1, <1>2, <1>3 DEF Tidy
<1>11. Tidy(l)
  BY <1>1, <1>6, <1>7, <1>8, <1>9, <1>10 DEF Tidy
<1> QED BY <1>1, <1>2, <1>11

\* So does an edit that keeps the columns and the owner, and points an expense
\* only to aggregates of the session.
LEMMA Editing ==
    ASSUME NEW s, NEW id \in DOMAIN s.seen, NEW row, Tidy(s),
           DOMAIN row = DOMAIN s.now[id],
           row.owner = s.now[id].owner,
           id \in ExpenseIds => Points(s, row, s.now[id].category, s.now[id].item)
    PROVE  LET l == Edit(s, id, row)
           IN /\ Tidy(l)
              /\ DOMAIN l.seen = DOMAIN s.seen /\ DOMAIN l.now = DOMAIN s.now
              /\ l.cmd = s.cmd /\ l.pc = s.pc /\ l.new = s.new
              /\ l.category = s.category /\ l.item = s.item
<1> DEFINE l == Edit(s, id, row)
<1>1. /\ DOMAIN l = Fields
      /\ l.seen = s.seen
      /\ l.now = Override(s.now, {id}, [i \in {id} |-> row])
      /\ l.cmd = s.cmd /\ l.pc = s.pc /\ l.new = s.new
      /\ l.category = s.category /\ l.item = s.item
  BY DEF Edit, Tidy, Fields
<1>2. id \in DOMAIN s.now /\ id \notin s.new
  BY DEF Tidy
<1>3. /\ DOMAIN l.now = DOMAIN s.now
      /\ l.now[id] = row
      /\ \A i \in DOMAIN s.now \ {id} : l.now[i] = s.now[i]
  BY <1>1, <1>2 DEF Override
<1>4. ASSUME NEW i \in DOMAIN l.now PROVE Held(l, l.now[i], i)
  <2>1. Held(s, s.now[i], i) /\ Held(s, s.now[id], id)
    BY <1>2, <1>3 DEF Tidy
  <2>2. CASE i = id
    BY <2>1, <2>2, <1>1, <1>3 DEF Held
  <2>3. CASE i # id
    BY <2>1, <2>3, <1>1, <1>3 DEF Held
  <2> QED BY <2>2, <2>3
<1>5. id \in ExpenseIds => Points(l, l.now[id], l.seen[id].category, l.seen[id].item)
  BY <1>1, <1>3 DEF Tidy, Points
<1>6. ASSUME NEW i \in DOMAIN l.seen
      PROVE  /\ DOMAIN l.now[i] = DOMAIN l.seen[i]
             /\ i \in DOMAIN rows => /\ DOMAIN rows[i] = DOMAIN l.seen[i]
                                     /\ rows[i].owner = l.cmd.owner
                                     /\ l.seen[i].owner = l.cmd.owner
             /\ i \in ExpenseIds =>
                   Points(l, l.now[i], l.seen[i].category, l.seen[i].item)
  <2>1. CASE i = id
    BY <2>1, <1>1, <1>3, <1>5 DEF Tidy
  <2>2. CASE i # id
    BY <2>2, <1>1, <1>3 DEF Tidy, Points
  <2> QED BY <2>1, <2>2
<1>7. \A e \in l.new \cap ExpenseIds : /\ l.now[e].category \in DOMAIN l.seen
                                      /\ l.now[e].item \in {None} \cup DOMAIN l.now
  BY <1>1, <1>2, <1>3 DEF Tidy
<1>8. Tidy(l)
  BY <1>1, <1>3, <1>4, <1>6, <1>7 DEF Tidy
<1> QED BY <1>1, <1>3, <1>8

\* And so does a row the session adds under a fresh id.
LEMMA Adding ==
    ASSUME NEW s, NEW id \in Ids \ (minted \cup s.new), NEW row, Tidy(s),
           Held(s, row, id),
           id \in ExpenseIds => /\ row.category \in DOMAIN s.seen
                               /\ row.item \in {None} \cup DOMAIN s.now
    PROVE  LET l == Added(s, id, row)
           IN /\ Tidy(l)
              /\ DOMAIN l.seen = DOMAIN s.seen /\ DOMAIN l.now = DOMAIN s.now \cup {id}
              /\ l.cmd = s.cmd /\ l.pc = s.pc /\ l.new = s.new \cup {id}
              /\ l.category = s.category /\ l.item = s.item
<1> DEFINE l == Added(s, id, row)
<1>1. /\ DOMAIN l = Fields
      /\ l.seen = s.seen
      /\ l.now = Override(s.now, {id}, [i \in {id} |-> row])
      /\ l.cmd = s.cmd /\ l.pc = s.pc /\ l.new = s.new \cup {id}
      /\ l.category = s.category /\ l.item = s.item
  BY DEF Added, Edit, Tidy, Fields
<1>2. id \notin DOMAIN s.seen /\ id \notin DOMAIN s.now
  BY DEF Tidy
<1>3. /\ DOMAIN l.now = DOMAIN s.now \cup {id}
      /\ l.now[id] = row
      /\ \A i \in DOMAIN s.now : l.now[i] = s.now[i]
  BY <1>1, <1>2 DEF Override
<1>4. ASSUME NEW i \in DOMAIN l.now PROVE Held(l, l.now[i], i)
  <2>1. CASE i = id
    BY <2>1, <1>1, <1>3 DEF Held
  <2>2. CASE i # id
    <3>1. Held(s, s.now[i], i) /\ l.now[i] = s.now[i]
      BY <2>2, <1>3 DEF Tidy
    <3> QED BY <3>1, <1>1 DEF Held
  <2> QED BY <2>1, <2>2
<1>5. ASSUME NEW i \in DOMAIN l.seen
      PROVE  /\ DOMAIN l.now[i] = DOMAIN l.seen[i]
             /\ i \in DOMAIN rows => /\ DOMAIN rows[i] = DOMAIN l.seen[i]
                                     /\ rows[i].owner = l.cmd.owner
                                     /\ l.seen[i].owner = l.cmd.owner
             /\ i \in ExpenseIds =>
                   Points(l, l.now[i], l.seen[i].category, l.seen[i].item)
  BY <1>1, <1>2, <1>3 DEF Tidy, Points
<1>6. \A e \in l.new \cap ExpenseIds : /\ l.now[e].category \in DOMAIN l.seen
                                      /\ l.now[e].item \in {None} \cup DOMAIN l.now
  BY <1>1, <1>3 DEF Tidy
<1>7. /\ DOMAIN l.now = DOMAIN l.seen \cup l.new
      /\ l.new \subseteq Ids \ minted
      /\ DOMAIN l.seen \subseteq minted
      /\ l.category \in {None} \cup DOMAIN l.seen
      /\ l.item \in {None} \cup DOMAIN l.now
  BY <1>1, <1>3 DEF Tidy
<1>8. Tidy(l)
  BY <1>1, <1>4, <1>5, <1>6, <1>7 DEF Tidy
<1> QED BY <1>1, <1>3, <1>8
\* What a session notes down besides its rows must be rows it holds.
LEMMA Noting ==
    ASSUME NEW s, NEW l, Tidy(s), DOMAIN l = Fields,
           l.cmd = s.cmd, l.seen = s.seen, l.now = s.now, l.new = s.new,
           l.category \in {None} \cup DOMAIN s.seen,
           l.item \in {None} \cup DOMAIN s.now
    PROVE  Tidy(l)
<1>1. \A id \in DOMAIN l.now : Held(l, l.now[id], id)
  BY DEF Tidy, Held
<1>2. \A row, c, i : Points(s, row, c, i) => Points(l, row, c, i)
  BY DEF Points
<1> QED BY <1>1, <1>2 DEF Tidy
-----------------------------------------------------------------------------
\* A statement that leaves its own session tidy and takes no id another session
\* holds keeps the invariant.
LEMMA Stepping ==
    ASSUME IInv, NEW r \in Requests, NEW s, Continue(r, s), Tidy(s), Placed(s),
           \A q \in Requests \ {r} : s.new \cap session[q].new = {}
    PROVE  IInv'
<1>1. rows' = rows /\ minted' = minted
  BY DEF Continue
<1>2. /\ session'[r] = s
      /\ \A q \in Requests \ {r} : session'[q] = session[q]
      /\ session' = [q \in Requests |-> session'[q]]
  BY DEF Continue, IInv
<1>3. \A x : Tidy(x) => Tidy(x)'
  <2> SUFFICES ASSUME NEW x, Tidy(x) PROVE Tidy(x)'
    OBVIOUS
  <2>1. \A row, id : Held(x, row, id) => Held(x, row, id)'
    BY DEF Held
  <2>2. \A row, c, i : Points(x, row, c, i) => Points(x, row, c, i)'
    BY DEF Points
  <2> QED BY <1>1, <2>1, <2>2 DEF Tidy
<1>4. ASSUME NEW q \in Requests PROVE (Tidy(session[q]) /\ Placed(session[q]))'
  <2>1. PICK x : x = session'[q] /\ Tidy(x) /\ Placed(x)
    BY <1>2 DEF IInv
  <2>2. Tidy(x)'
    BY <1>3, <2>1
  <2>3. Tidy(session[q])'
    BY <2>1, <2>2 DEF Tidy, Held, Points
  <2>4. Placed(session[q])'
    BY <2>1 DEF Placed
  <2> QED BY <2>3, <2>4
<1>5. NewApart'
  BY <1>2 DEF IInv, NewApart
<1>6. RowsHeld' /\ OwnersStayApart'
  BY <1>1 DEF IInv, RowsHeld, OwnersStayApart
<1> QED BY <1>2, <1>4, <1>5, <1>6 DEF IInv

\* A session that was just closed holds nothing (dependencies.py:38-48).
LEMMA IdleIsTidy == Tidy(Idle) /\ Placed(Idle) /\ Idle.new = {}
BY DEF Tidy, Placed, Held, Points, Idle, NoRows, Fields

\* A refused or crashed request leaves the rows as they were.
LEMMA Ending ==
    ASSUME IInv, NEW r \in Requests, End(r)
    PROVE  IInv'
<1>1. Continue(r, Idle)
  BY DEF End, Continue
<1>2. \A q \in Requests \ {r} : Idle.new \cap session[q].new = {}
  BY IdleIsTidy
<1> QED BY <1>1, <1>2, IdleIsTidy, Stepping

\* A request opens an empty session (container.py:115-116).
LEMMA Beginning ==
    ASSUME IInv, NEW r \in Requests, NEW c \in Commands, begin(r, c)
    PROVE  IInv'
<1> DEFINE s == [Idle EXCEPT !.cmd = c, !.pc = first(c)]
<1>1. Continue(r, s)
  BY DEF begin, Continue
<1>2. Tidy(s) /\ s.new = {} /\ s.pc = first(c) /\ s.cmd = c
  BY DEF Tidy, Held, Points, Idle, NoRows, Fields
<1>3. Placed(s)
  <2>1. c.op \in Ops
    BY CommandAssumption DEF Command
  <2>2. /\ first(c) = "get_expense" => c.op # "record"
        /\ first(c) = "use_category" => c.op # "update"
        /\ first(c) = "list_categories" => c.op # "rename_category"
        /\ first(c) \notin {"resolve_item", "insert_expense", "count_for_category",
                            "count_for_item"}
    BY <2>1 DEF first, Ops
  <2> QED BY <1>2, <2>2 DEF Placed
<1>4. \A q \in Requests \ {r} : s.new \cap session[q].new = {}
  BY <1>2
<1> HIDE DEF s
<1> QED BY <1>1, <1>2, <1>3, <1>4, Stepping
-----------------------------------------------------------------------------
\* A commit writes the owner's own rows, pointed to the owner's own rows.
LEMMA Committing ==
    ASSUME IInv, NEW r \in Requests, commit(r)
    PROVE  IInv'
<1> DEFINE s == session[r]
           after == Synchronised(s)
<1>1. CASE End(r)
  BY <1>1, Ending
<1>2. CASE /\ Dirty(s) \subseteq DOMAIN rows
           /\ Constraints(after)
           /\ rows' = after
           /\ minted' = minted \cup s.new
           /\ session' = [session EXCEPT ![r] = Idle]
  <2>1. Tidy(s) /\ RowsHeld /\ OwnersStayApart
    BY DEF IInv
  <2>2. DOMAIN rows' = (DOMAIN rows \cup s.new) \ s.gone
    BY <1>2 DEF Synchronised
  <2>3. \A id \in DOMAIN rows' \ s.new :
           /\ id \in DOMAIN rows
           /\ DOMAIN rows'[id] = DOMAIN rows[id]
           /\ rows'[id].owner = rows[id].owner
    <3> SUFFICES ASSUME NEW id \in DOMAIN rows' \ s.new
                 PROVE  /\ id \in DOMAIN rows
                        /\ DOMAIN rows'[id] = DOMAIN rows[id]
                        /\ rows'[id].owner = rows[id].owner
      OBVIOUS
    <3>1. id \in DOMAIN rows /\ "owner" \in DOMAIN rows[id]
      BY <2>1, <2>2 DEF RowsHeld
    <3>2. CASE id \in Dirty(s)
      <4>1. rows'[id] = update_model(s, id)
        BY <1>2, <2>2, <3>2 DEF Synchronised
      <4>2. s.now[id].owner = s.seen[id].owner
        BY <2>1, <3>1, <3>2 DEF Dirty, Tidy, Held
      <4> QED BY <3>1, <4>1, <4>2 DEF update_model
    <3>3. CASE id \notin Dirty(s)
      BY <1>2, <2>2, <3>1, <3>3 DEF Synchronised
    <3> QED BY <3>2, <3>3
  <2>4. \A id \in s.new \ s.gone : id \in DOMAIN rows' /\ rows'[id] = s.now[id]
    BY <1>2, <2>2 DEF Synchronised
  <2>5. \A id \in s.new : Held(s, s.now[id], id)
    BY <2>1 DEF Tidy
  <2>6. RowsHeld'
    BY <1>2, <2>1, <2>2, <2>3, <2>4, <2>5 DEF RowsHeld, Tidy, Held
  <2>7. \A id \in DOMAIN s.now : id \in DOMAIN rows' => rows'[id].owner = s.cmd.owner
    <3> SUFFICES ASSUME NEW id \in DOMAIN s.now, id \in DOMAIN rows'
                 PROVE  rows'[id].owner = s.cmd.owner
      OBVIOUS
    <3>1. CASE id \in s.new
      BY <3>1, <2>2, <2>4, <2>5 DEF Held
    <3>2. CASE id \notin s.new
      BY <3>2, <2>1, <2>3 DEF Tidy
    <3> QED BY <3>1, <3>2
  <2>8. OwnersStayApart'
    <3> SUFFICES ASSUME NEW e \in ExpenseIds \cap DOMAIN rows',
                        NEW id \in {rows'[e].category, rows'[e].item} \ {None}
                 PROVE  id \in DOMAIN rows' /\ rows'[id].owner = rows'[e].owner
      BY DEF OwnersStayApart
    <3>1. id \in DOMAIN rows'
      BY <1>2 DEF Constraints, ReferencesExist
    <3>2. CASE e \in s.new
      <4>1. rows'[e] = s.now[e] /\ e \in DOMAIN s.now
        BY <2>1, <2>2, <2>4, <3>2 DEF Tidy
      <4>2. id \in DOMAIN s.now
        BY <2>1, <3>2, <4>1 DEF Tidy
      <4> QED BY <2>7, <3>1, <4>1, <4>2
    <3>3. CASE e \in Dirty(s) \ s.new
      <4>1. /\ e \in DOMAIN rows /\ e \in DOMAIN s.seen /\ e \in DOMAIN s.now
            /\ {"category", "item"} \subseteq DOMAIN rows[e]
        BY <1>2, <2>1, <3>3 DEF Dirty, Tidy, RowsHeld
      <4>2. rows'[e] = update_model(s, e)
        BY <1>2, <2>2, <3>3 DEF Synchronised
      <4>3. /\ rows'[e].category \in {rows[e].category} \cup DOMAIN s.seen
            /\ rows'[e].item \in {rows[e].item, None} \cup DOMAIN s.now
        <5>1. Points(s, s.now[e], s.seen[e].category, s.seen[e].item)
          BY <2>1, <4>1 DEF Tidy
        <5> QED BY <4>1, <4>2, <5>1 DEF Points, update_model
      <4>4. id \in {rows[e].category, rows[e].item} \/ id \in DOMAIN s.now
        BY <2>1, <4>3 DEF Tidy
      <4>5. rows'[e].owner = rows[e].owner /\ rows'[e].owner = s.cmd.owner
        BY <2>3, <2>7, <3>3, <4>1
      <4>6. CASE id \in DOMAIN s.now
        BY <2>7, <3>1, <4>5, <4>6
      <4>7. CASE id \in {rows[e].category, rows[e].item}
        <5>1. id \in DOMAIN rows /\ rows[id].owner = rows[e].owner
          BY <2>1, <4>1, <4>7 DEF OwnersStayApart
        <5>2. id \notin s.new
          BY <2>1, <5>1 DEF Tidy, RowsHeld
        <5> QED BY <2>3, <3>1, <4>5, <5>1, <5>2
      <4> QED BY <4>4, <4>6, <4>7
    <3>4. CASE e \notin Dirty(s) /\ e \notin s.new
      <4>1. e \in DOMAIN rows /\ rows'[e] = rows[e]
        BY <1>2, <2>2, <3>4 DEF Synchronised
      <4>2. id \in DOMAIN rows /\ rows[id].owner = rows[e].owner
        BY <2>1, <4>1 DEF OwnersStayApart
      <4>3. id \notin s.new
        BY <2>1, <4>2 DEF Tidy, RowsHeld
      <4> QED BY <2>3, <3>1, <4>1, <4>2, <4>3
    <3> QED BY <3>2, <3>3, <3>4
  <2>9. /\ session'[r] = Idle
        /\ \A q \in Requests \ {r} : session'[q] = session[q]
        /\ session' = [q \in Requests |-> session'[q]]
    BY <1>2 DEF IInv
  <2>10. ASSUME NEW q \in Requests PROVE (Tidy(session[q]) /\ Placed(session[q]))'
    <3>1. CASE q = r
      <4>1. session'[q] = Idle
        BY <2>9, <3>1
      <4> QED BY <4>1 DEF Tidy, Placed, Held, Points, Idle, NoRows, Fields
    <3>2. CASE q # r
      <4>1. PICK x : x = session'[q] /\ x = session[q]
        BY <2>9, <3>2
      <4>2. Tidy(x) /\ Placed(x) /\ x.new \cap s.new = {}
        BY <3>2, <4>1 DEF IInv, NewApart
      <4>3. \A id \in DOMAIN x.seen : id \in DOMAIN rows' =>
               /\ DOMAIN rows'[id] = DOMAIN x.seen[id]
               /\ rows'[id].owner = x.cmd.owner
               /\ x.seen[id].owner = x.cmd.owner
        <5> SUFFICES ASSUME NEW id \in DOMAIN x.seen, id \in DOMAIN rows'
                     PROVE  /\ DOMAIN rows'[id] = DOMAIN x.seen[id]
                            /\ rows'[id].owner = x.cmd.owner
                            /\ x.seen[id].owner = x.cmd.owner
          OBVIOUS
        <5>1. id \notin s.new
          BY <2>1, <4>2 DEF Tidy
        <5>2. /\ id \in DOMAIN rows
              /\ DOMAIN rows'[id] = DOMAIN rows[id]
              /\ rows'[id].owner = rows[id].owner
          BY <2>3, <5>1
        <5> QED BY <4>2, <5>2 DEF Tidy
      <4>4. x.new \subseteq Ids \ minted' /\ DOMAIN x.seen \subseteq minted'
        BY <1>2, <4>2 DEF Tidy
      <4>5. Tidy(x)'
        BY <4>2, <4>3, <4>4 DEF Tidy, Held, Points
      <4>6. Tidy(session[q])'
        BY <4>1, <4>5 DEF Tidy, Held, Points
      <4>7. Placed(session[q])'
        BY <4>1, <4>2 DEF Placed
      <4> QED BY <4>6, <4>7
    <3> QED BY <3>1, <3>2
  <2>11. NewApart'
    BY <2>9, IdleIsTidy DEF IInv, NewApart
  <2> QED BY <2>6, <2>8, <2>9, <2>10, <2>11 DEF IInv
<1> QED BY <1>1, <1>2 DEF commit
-----------------------------------------------------------------------------
\* Going on to the next statement changes nothing a session holds.
LEMMA Advancing ==
    ASSUME NEW s, Tidy(s)
    PROVE  LET a == advance(s)
           IN /\ Tidy(a)
              /\ a.pc = next(s.cmd, s.pc)
              /\ a.cmd = s.cmd /\ a.seen = s.seen /\ a.now = s.now /\ a.new = s.new
              /\ a.category = s.category /\ a.item = s.item
<1> DEFINE a == advance(s)
<1>1. /\ DOMAIN a = Fields
      /\ a.pc = next(s.cmd, s.pc)
      /\ a.cmd = s.cmd /\ a.seen = s.seen /\ a.now = s.now /\ a.new = s.new
      /\ a.category = s.category /\ a.item = s.item
  BY DEF advance, Tidy, Fields
<1>2. s.category \in {None} \cup DOMAIN s.seen /\ s.item \in {None} \cup DOMAIN s.now
  BY DEF Tidy
<1>3. Tidy(a)
  BY <1>1, <1>2, Noting
<1> QED BY <1>1, <1>3

\* The common end of the statements below: on to the next one, with s.
LEMMA GoingOn ==
    ASSUME IInv, NEW r \in Requests, NEW s, Tidy(s), Continue(r, advance(s)),
           Placed(advance(s)),
           \A q \in Requests \ {r} : s.new \cap session[q].new = {}
    PROVE  IInv'
<1>1. Tidy(advance(s)) /\ advance(s).new = s.new
  BY Advancing
<1> QED BY <1>1, Stepping

\* What a statement may rely on.
LEMMA Standing ==
    ASSUME IInv, NEW r \in Requests
    PROVE  /\ Tidy(session[r]) /\ Placed(session[r]) /\ RowsHeld
           /\ \A q \in Requests \ {r} : session[r].new \cap session[q].new = {}
BY DEF IInv, NewApart
-----------------------------------------------------------------------------
\* The expense an update or a delete loads is its owner's (expenses.py:122-124).
LEMMA GettingExpense ==
    ASSUME IInv, NEW r \in Requests, get_expense(r)
    PROVE  IInv'
<1> DEFINE c == session[r].cmd
           s == rehydrate(session[r], {c.expense})
           l == IF c.op = "delete" THEN delete(s, c.expense)
                ELSE IF c.line = Clear
                THEN Edit(s, c.expense, clear_item(s.now[c.expense]))
                ELSE s
           ok == /\ c.expense \in OwnedBy(c.owner, ExpenseIds)
                 /\ validate_item_line(rows[c.expense])
<1>1. CASE ~ok
  BY <1>1, Ending DEF get_expense, Proceed
<1>2. CASE ok
  <2>1. Continue(r, advance(l)) /\ session[r].pc = "get_expense"
    BY <1>2 DEF get_expense, Proceed
  <2>2. \A id \in {c.expense} : id \in DOMAIN rows /\ rows[id].owner = c.owner
    BY <1>2 DEF OwnedBy
  <2>3. /\ Tidy(s) /\ c.expense \in DOMAIN s.seen
        /\ s.cmd = c /\ s.pc = "get_expense" /\ s.new = session[r].new
        /\ s.category = session[r].category
    BY <2>1, <2>2, Standing, Loading
  <2>4. /\ Tidy(l) /\ DOMAIN l.seen = DOMAIN s.seen
        /\ l.cmd = c /\ l.pc = "get_expense" /\ l.new = session[r].new
        /\ l.category = s.category
    <3>1. CASE c.op = "delete"
      <4>1. l = delete(s, c.expense)
        BY <3>1
      <4> HIDE DEF l, s, c
      <4>2. DOMAIN s = Fields /\ s.category \in {None} \cup DOMAIN s.seen
                              /\ s.item \in {None} \cup DOMAIN s.now
        BY <2>3 DEF Tidy
      <4>3. /\ DOMAIN l = Fields /\ l.cmd = s.cmd /\ l.pc = s.pc /\ l.seen = s.seen
            /\ l.now = s.now /\ l.new = s.new
            /\ l.category = s.category /\ l.item = s.item
        BY <4>1, <4>2 DEF delete, Fields
      <4>4. Tidy(l)
        BY <2>3, <4>2, <4>3, Noting
      <4> QED BY <2>3, <4>3, <4>4
    <3>2. CASE c.op # "delete" /\ c.line = Clear
      <4> DEFINE row == clear_item(s.now[c.expense])
      <4>1. l = Edit(s, c.expense, row)
        BY <3>2
      <4>2. Held(s, s.now[c.expense], c.expense) /\ c.expense \in ExpenseIds
        BY <1>2, <2>3 DEF Tidy, OwnedBy
      <4>3. /\ DOMAIN row = DOMAIN s.now[c.expense]
            /\ row.owner = s.now[c.expense].owner
            /\ row.category = s.now[c.expense].category
            /\ row.item = None
        BY <4>2 DEF clear_item, Held
      <4>4. Points(s, row, s.now[c.expense].category, s.now[c.expense].item)
        BY <4>3 DEF Points
      <4> HIDE DEF l, s, c, row
      <4> QED BY <2>3, <4>1, <4>3, <4>4, Editing
    <3>3. CASE c.op # "delete" /\ c.line # Clear
      BY <2>3, <3>3
    <3> QED BY <3>1, <3>2, <3>3
  <2>5. Placed(advance(l))
    <3>1. /\ advance(l).pc = next(c, "get_expense") /\ advance(l).cmd = c
          /\ advance(l).seen = l.seen
      BY <2>4, Advancing
    <3>2. next(c, "get_expense") \in {"use_category", "resolve_item", "commit"}
      BY DEF next
    <3>3. c.op # "record"
      BY <2>1, Standing DEF Placed
    <3> HIDE DEF l, s, c
    <3> QED BY <2>3, <2>4, <3>1, <3>2, <3>3 DEF Placed
  <2> HIDE DEF l
  <2> QED BY <2>1, <2>4, <2>5, Standing, GoingOn
<1> QED BY <1>1, <1>2

\* The category of a new or re-filed expense is its owner's (expenses.py:96-131).
LEMMA UsingCategory ==
    ASSUME IInv, NEW r \in Requests, use_category(r)
    PROVE  IInv'
<1> DEFINE c == session[r].cmd
           h == rehydrate(session[r], {c.category})
           s == [h EXCEPT !.category = c.category]
           row == recategorise(s.now[c.expense], c.category)
           l == IF c.op = "update" THEN Edit(s, c.expense, row) ELSE s
           ok == /\ c.category \in OwnedBy(c.owner, CategoryIds)
                 /\ ensure_category_usable(s.now[c.category])
<1>1. CASE ~ok
  BY <1>1, Ending DEF use_category, Proceed
<1>2. CASE ok
  <2>1. Continue(r, advance(l)) /\ session[r].pc = "use_category"
    BY <1>2 DEF use_category, Proceed
  <2>2. \A id \in {c.category} : id \in DOMAIN rows /\ rows[id].owner = c.owner
    BY <1>2 DEF OwnedBy
  <2>3. /\ Tidy(h) /\ DOMAIN h.seen = DOMAIN session[r].seen \cup {c.category}
        /\ h.cmd = c /\ h.pc = "use_category" /\ h.new = session[r].new
    BY <2>1, <2>2, Standing, Loading
  <2>4. /\ DOMAIN s = Fields /\ s.category = c.category /\ s.seen = h.seen
        /\ s.now = h.now /\ s.new = h.new /\ s.cmd = h.cmd /\ s.pc = h.pc
        /\ s.item = h.item
    BY <2>3 DEF Tidy, Fields
  <2>5. Tidy(s)
    <3>1. h.item \in {None} \cup DOMAIN h.now
      BY <2>3 DEF Tidy
    <3> HIDE DEF s, h, c
    <3> QED BY <2>3, <2>4, <3>1, Noting
  <2>6. /\ Tidy(l) /\ DOMAIN l.seen = DOMAIN s.seen /\ l.cmd = c
        /\ l.pc = "use_category" /\ l.new = session[r].new /\ l.category = c.category
        /\ c.op = "update" => c.expense \in DOMAIN l.seen
    <3>1. CASE c.op = "update"
      <4>1. c.expense \in DOMAIN s.seen
        BY <2>1, <2>3, <2>4, <3>1, Standing DEF Placed
      <4>2. Held(s, s.now[c.expense], c.expense)
        BY <2>5, <4>1 DEF Tidy
      <4>3. /\ DOMAIN row = DOMAIN s.now[c.expense]
            /\ row.owner = s.now[c.expense].owner
            /\ c.expense \in ExpenseIds => /\ row.category = c.category
                                           /\ row.item = s.now[c.expense].item
        BY <4>2 DEF recategorise, Held
      <4>4. c.expense \in ExpenseIds =>
               Points(s, row, s.now[c.expense].category, s.now[c.expense].item)
        BY <2>3, <2>4, <4>3 DEF Points
      <4>5. l = Edit(s, c.expense, row)
        BY <3>1
      <4> HIDE DEF l, s, h, c, row
      <4> QED BY <2>3, <2>4, <2>5, <4>1, <4>3, <4>4, <4>5, Editing
    <3>2. CASE c.op # "update"
      BY <2>3, <2>4, <2>5, <3>2
    <3> QED BY <3>1, <3>2
  <2>7. Placed(advance(l))
    <3> HIDE DEF l, s, h, c
    <3>1. /\ advance(l).pc = next(c, "use_category") /\ advance(l).cmd = c
          /\ advance(l).seen = l.seen /\ advance(l).category = c.category
      BY <2>6, Advancing
    <3>2. /\ next(c, "use_category") \in {"resolve_item", "insert_expense", "commit"}
          /\ next(c, "use_category") = "insert_expense" => c.op = "record"
      BY DEF next
    <3>3. c.category \in DOMAIN l.seen
      BY <2>3, <2>4, <2>6
    <3> QED BY <2>6, <3>1, <3>2, <3>3 DEF Placed
  <2> HIDE DEF l
  <2> QED BY <2>1, <2>6, <2>7, Standing, GoingOn
<1> QED BY <1>1, <1>2
-----------------------------------------------------------------------------
\* What the category and item use cases do to an aggregate they loaded.
Handled(s, id, l) == \/ l = s
                     \/ l = delete(s, id)
                     \/ l = Edit(s, id, archive(s.now[id]))
                     \/ l = Edit(s, id, restore(s.now[id]))
                     \/ \E name : l = Edit(s, id, rename(s.now[id], name))

\* Archiving, restoring or deleting an aggregate the session loaded.
LEMMA Handling ==
    ASSUME NEW s, NEW id \in DOMAIN s.seen, NEW l, Tidy(s), Handled(s, id, l)
    PROVE  /\ Tidy(l) /\ DOMAIN l.seen = DOMAIN s.seen
           /\ l.cmd = s.cmd /\ l.pc = s.pc /\ l.new = s.new
<1>1. CASE l = s
  BY <1>1
<1>2. CASE l = delete(s, id)
  <2>1. /\ DOMAIN s = Fields /\ s.category \in {None} \cup DOMAIN s.seen
        /\ s.item \in {None} \cup DOMAIN s.now
    BY DEF Tidy
  <2>2. /\ DOMAIN l = Fields /\ l.cmd = s.cmd /\ l.pc = s.pc /\ l.seen = s.seen
        /\ l.now = s.now /\ l.new = s.new
        /\ l.category = s.category /\ l.item = s.item
    BY <1>2, <2>1 DEF delete, Fields
  <2> QED BY <2>1, <2>2, Noting
<1>3. ASSUME NEW row, l = Edit(s, id, row),
             \/ row = archive(s.now[id])
             \/ row = restore(s.now[id])
             \/ \E name : row = rename(s.now[id], name)
      PROVE  /\ Tidy(l) /\ DOMAIN l.seen = DOMAIN s.seen
             /\ l.cmd = s.cmd /\ l.pc = s.pc /\ l.new = s.new
  <2>1. Held(s, s.now[id], id)
    BY DEF Tidy
  <2>2. /\ DOMAIN row = DOMAIN s.now[id]
        /\ row.owner = s.now[id].owner
        /\ id \in ExpenseIds => /\ row.category = s.now[id].category
                                /\ row.item = s.now[id].item
    BY <1>3, <2>1 DEF Held, archive, restore, rename
  <2>3. id \in ExpenseIds => Points(s, row, s.now[id].category, s.now[id].item)
    BY <2>2 DEF Points
  <2> QED BY <1>3, <2>2, <2>3, Editing
<1> QED BY <1>1, <1>2, <1>3 DEF Handled

\* An insert adds a row of the session's own, or ends it (repository.py:72-83).
LEMMA Inserting ==
    ASSUME IInv, NEW r \in Requests, NEW id, NEW row, NEW s, insert(r, id, row, s),
           Tidy(s), Placed(s),
           \A q \in Requests \ {r} : s.new \cap session[q].new = {}
    PROVE  IInv'
<1>1. End(r) \/ Continue(r, s)
  BY DEF insert
<1> QED BY <1>1, Ending, Stepping

\* The category a use case names is loaded only for its owner (categories.py:72-108).
LEMMA GettingCategory ==
    ASSUME IInv, NEW r \in Requests, get_category(r)
    PROVE  IInv'
<1> DEFINE c == session[r].cmd
           s == rehydrate(session[r], {c.category})
<1>1. PICK l : \/ End(r)
               \/ /\ Continue(r, advance(l)) /\ session[r].pc = "get_category"
                  /\ c.category \in OwnedBy(c.owner, CategoryIds)
                  /\ Handled(s, c.category, l)
  BY DEF get_category, Proceed, Handled
<1>2. CASE End(r)
  BY <1>2, Ending
<1>3. CASE /\ Continue(r, advance(l)) /\ session[r].pc = "get_category"
           /\ c.category \in OwnedBy(c.owner, CategoryIds)
           /\ Handled(s, c.category, l)
  <2>1. \A id \in {c.category} : id \in DOMAIN rows /\ rows[id].owner = c.owner
    BY <1>3 DEF OwnedBy
  <2>2. /\ Tidy(s) /\ c.category \in DOMAIN s.seen
        /\ s.cmd = c /\ s.pc = "get_category" /\ s.new = session[r].new
    BY <1>3, <2>1, Standing, Loading
  <2> HIDE DEF s
  <2>3. /\ Tidy(l) /\ c.category \in DOMAIN l.seen
        /\ l.cmd = c /\ l.pc = "get_category" /\ l.new = session[r].new
    BY <1>3, <2>2, Handling
  <2>4. Placed(advance(l))
    <3>1. /\ advance(l).pc = next(c, "get_category") /\ advance(l).cmd = c
          /\ advance(l).seen = l.seen
      BY <2>3, Advancing
    <3>2. next(c, "get_category") \in {"list_categories", "count_for_category", "commit"}
      BY DEF next
    <3> QED BY <2>3, <3>1, <3>2 DEF Placed
  <2> QED BY <1>3, <2>3, <2>4, Standing, GoingOn
<1> QED BY <1>1, <1>2, <1>3

\* The names a new one is compared with are the owner's (categories.py:58-79).
LEMMA ListingCategories ==
    ASSUME IInv, NEW r \in Requests, list_categories(r)
    PROVE  IInv'
<1> DEFINE c == session[r].cmd
           mine == OwnedBy(c.owner, CategoryIds)
           s == rehydrate(session[r], mine)
<1>1. PICK l : \/ End(r)
               \/ /\ Continue(r, advance(l)) /\ session[r].pc = "list_categories"
                  /\ \/ l = s
                     \/ c.op = "rename_category" /\ Handled(s, c.category, l)
  BY DEF list_categories, Proceed, Handled
<1>2. CASE End(r)
  BY <1>2, Ending
<1>3. CASE /\ Continue(r, advance(l)) /\ session[r].pc = "list_categories"
           /\ \/ l = s
              \/ c.op = "rename_category" /\ Handled(s, c.category, l)
  <2>1. \A id \in mine : id \in DOMAIN rows /\ rows[id].owner = c.owner
    BY DEF OwnedBy
  <2>2. /\ Tidy(s) /\ DOMAIN session[r].seen \subseteq DOMAIN s.seen
        /\ s.cmd = c /\ s.pc = "list_categories" /\ s.new = session[r].new
    BY <1>3, <2>1, Standing, Loading
  <2>3. c.op = "rename_category" => c.category \in DOMAIN s.seen
    BY <1>3, <2>2, Standing DEF Placed
  <2> HIDE DEF s, mine
  <2>4. /\ Tidy(l) /\ l.cmd = c /\ l.pc = "list_categories" /\ l.new = session[r].new
    BY <1>3, <2>2, <2>3, Handling
  <2>5. Placed(advance(l))
    <3>1. advance(l).pc = next(c, "list_categories")
      BY <2>4, Advancing
    <3>2. next(c, "list_categories") \in {"insert_category", "commit"}
      BY DEF next
    <3> QED BY <3>1, <3>2 DEF Placed
  <2> QED BY <1>3, <2>4, <2>5, Standing, GoingOn
<1> QED BY <1>1, <1>2, <1>3

\* Archiving or deleting, after the count (categories.py:113-127).
LEMMA CountingForCategory ==
    ASSUME IInv, NEW r \in Requests, count_for_category(r)
    PROVE  IInv'
<1> DEFINE s == session[r]
<1>1. PICK l : \/ End(r)
               \/ /\ Continue(r, advance(l)) /\ s.pc = "count_for_category"
                  /\ Handled(s, s.cmd.category, l)
  BY DEF count_for_category, Proceed, Handled
<1>2. CASE End(r)
  BY <1>2, Ending
<1>3. CASE /\ Continue(r, advance(l)) /\ s.pc = "count_for_category"
           /\ Handled(s, s.cmd.category, l)
  <2>1. Tidy(s) /\ s.cmd.category \in DOMAIN s.seen
    BY <1>3, Standing DEF Placed
  <2>2. Tidy(l) /\ l.cmd = s.cmd /\ l.pc = "count_for_category" /\ l.new = s.new
    BY <1>3, <2>1, Handling
  <2>3. Placed(advance(l))
    <3>1. advance(l).pc = next(s.cmd, "count_for_category")
      BY <2>2, Advancing
    <3>2. next(s.cmd, "count_for_category") = "commit"
      BY DEF next
    <3> QED BY <3>1, <3>2 DEF Placed
  <2> QED BY <1>3, <2>2, <2>3, Standing, GoingOn
<1> QED BY <1>1, <1>2, <1>3

\* The item a use case names is loaded only for its owner (items.py:62-79).
LEMMA GettingItem ==
    ASSUME IInv, NEW r \in Requests, get_item(r)
    PROVE  IInv'
<1> DEFINE c == session[r].cmd
           s == rehydrate(session[r], {c.item})
<1>1. PICK l : \/ End(r)
               \/ /\ Continue(r, advance(l)) /\ session[r].pc = "get_item"
                  /\ c.item \in OwnedBy(c.owner, ItemIds)
                  /\ Handled(s, c.item, l)
  BY DEF get_item, Proceed, Handled
<1>2. CASE End(r)
  BY <1>2, Ending
<1>3. CASE /\ Continue(r, advance(l)) /\ session[r].pc = "get_item"
           /\ c.item \in OwnedBy(c.owner, ItemIds)
           /\ Handled(s, c.item, l)
  <2>1. \A id \in {c.item} : id \in DOMAIN rows /\ rows[id].owner = c.owner
    BY <1>3 DEF OwnedBy
  <2>2. /\ Tidy(s) /\ c.item \in DOMAIN s.seen
        /\ s.cmd = c /\ s.pc = "get_item" /\ s.new = session[r].new
    BY <1>3, <2>1, Standing, Loading
  <2> HIDE DEF s
  <2>3. /\ Tidy(l) /\ c.item \in DOMAIN l.seen
        /\ l.cmd = c /\ l.pc = "get_item" /\ l.new = session[r].new
    BY <1>3, <2>2, Handling
  <2>4. Placed(advance(l))
    <3>1. /\ advance(l).pc = next(c, "get_item") /\ advance(l).cmd = c
          /\ advance(l).seen = l.seen
      BY <2>3, Advancing
    <3>2. next(c, "get_item") \in {"count_for_item", "commit"}
      BY DEF next
    <3> QED BY <2>3, <3>1, <3>2 DEF Placed
  <2> QED BY <1>3, <2>3, <2>4, Standing, GoingOn
<1> QED BY <1>1, <1>2, <1>3

\* The items a new one is compared with are the owner's (items.py:90-98).
LEMMA ListingItems ==
    ASSUME IInv, NEW r \in Requests, list_items(r)
    PROVE  IInv'
<1> DEFINE c == session[r].cmd
           mine == OwnedBy(c.owner, ItemIds)
           s == rehydrate(session[r], mine)
<1>1. CASE End(r)
  BY <1>1, Ending
<1>2. CASE Continue(r, advance(s)) /\ session[r].pc = "list_items"
  <2>1. \A id \in mine : id \in DOMAIN rows /\ rows[id].owner = c.owner
    BY DEF OwnedBy
  <2>2. Tidy(s) /\ s.cmd = c /\ s.pc = "list_items" /\ s.new = session[r].new
    BY <1>2, <2>1, Standing, Loading
  <2> HIDE DEF s
  <2>3. Placed(advance(s))
    <3>1. advance(s).pc = next(c, "list_items")
      BY <2>2, Advancing
    <3>2. next(c, "list_items") = "insert_item"
      BY DEF next
    <3> QED BY <3>1, <3>2 DEF Placed
  <2> QED BY <1>2, <2>2, <2>3, Standing, GoingOn
<1> QED BY <1>1, <1>2 DEF list_items, Proceed

\* Archiving or deleting, after the count (items.py:80-87).
LEMMA CountingForItem ==
    ASSUME IInv, NEW r \in Requests, count_for_item(r)
    PROVE  IInv'
<1> DEFINE s == session[r]
<1>1. PICK l : \/ End(r)
               \/ /\ Continue(r, advance(l)) /\ s.pc = "count_for_item"
                  /\ Handled(s, s.cmd.item, l)
  BY DEF count_for_item, Proceed, Handled
<1>2. CASE End(r)
  BY <1>2, Ending
<1>3. CASE /\ Continue(r, advance(l)) /\ s.pc = "count_for_item"
           /\ Handled(s, s.cmd.item, l)
  <2>1. Tidy(s) /\ s.cmd.item \in DOMAIN s.seen
    BY <1>3, Standing DEF Placed
  <2>2. Tidy(l) /\ l.cmd = s.cmd /\ l.pc = "count_for_item" /\ l.new = s.new
    BY <1>3, <2>1, Handling
  <2>3. Placed(advance(l))
    <3>1. advance(l).pc = next(s.cmd, "count_for_item")
      BY <2>2, Advancing
    <3>2. next(s.cmd, "count_for_item") = "commit"
      BY DEF next
    <3> QED BY <3>1, <3>2 DEF Placed
  <2> QED BY <1>3, <2>2, <2>3, Standing, GoingOn
<1> QED BY <1>1, <1>2, <1>3
-----------------------------------------------------------------------------
\* A fresh id is no other session's, and no row's.
LEMMA Freshness ==
    ASSUME NEW ids, ids \subseteq Ids, NEW id \in Fresh(ids)
    PROVE  /\ id \in Ids \ minted
           /\ \A q \in Requests : id \notin session[q].new
BY DEF Fresh

\* A new category or item is its owner's, and is not an expense.
LEMMA AddingBucket ==
    ASSUME NEW s, Tidy(s), NEW name,
           NEW id \in (CategoryIds \cup ItemIds) \ (minted \cup s.new)
    PROVE  LET l == Added(s, id, NewBucket(s.cmd.owner, name))
           IN /\ Tidy(l)
              /\ DOMAIN l.seen = DOMAIN s.seen /\ DOMAIN l.now = DOMAIN s.now \cup {id}
              /\ l.cmd = s.cmd /\ l.pc = s.pc /\ l.new = s.new \cup {id}
              /\ l.category = s.category /\ l.item = s.item
<1> DEFINE row == NewBucket(s.cmd.owner, name)
           l   == Added(s, id, row)
<1>1. id \notin ExpenseIds /\ id \in Ids
  BY IdAssumption DEF Ids
<1>2. Held(s, row, id)
  BY <1>1 DEF Held, NewBucket
<1>3. id \in Ids \ (minted \cup s.new)
  BY <1>1
<1>4. /\ Tidy(l)
      /\ DOMAIN l.seen = DOMAIN s.seen /\ DOMAIN l.now = DOMAIN s.now \cup {id}
      /\ l.cmd = s.cmd /\ l.pc = s.pc /\ l.new = s.new \cup {id}
      /\ l.category = s.category /\ l.item = s.item
  <2> HIDE DEF row
  <2> QED BY <1>1, <1>2, <1>3, Adding
<1> QED BY <1>4

\* A new category is its creator's (categories.py:61-68).
LEMMA InsertingCategory ==
    ASSUME IInv, NEW r \in Requests, insert_category(r)
    PROVE  IInv'
<1> DEFINE s == session[r]
           row == NewBucket(s.cmd.owner, s.cmd.name)
<1>1. PICK id \in Fresh(CategoryIds) : /\ s.pc = "insert_category"
                                       /\ insert(r, id, row, advance(Added(s, id, row)))
  BY DEF insert_category
<1> DEFINE l == Added(s, id, row)
<1>2. /\ id \in CategoryIds \ (minted \cup s.new)
      /\ \A q \in Requests : id \notin session[q].new
  BY <1>1, Freshness DEF Fresh, Ids
<1>3. Tidy(l) /\ l.cmd = s.cmd /\ l.pc = "insert_category" /\ l.new = s.new \cup {id}
  BY <1>1, <1>2, Standing, AddingBucket
<1> HIDE DEF l
<1>4. /\ Tidy(advance(l)) /\ advance(l).new = s.new \cup {id}
      /\ advance(l).pc = next(s.cmd, "insert_category")
  BY <1>3, Advancing
<1>5. Placed(advance(l))
  <2>1. next(s.cmd, "insert_category") = "commit"
    BY DEF next
  <2> QED BY <1>4, <2>1 DEF Placed
<1>6. \A q \in Requests \ {r} : advance(l).new \cap session[q].new = {}
  BY <1>2, <1>4, Standing
<1>7. insert(r, id, row, advance(l))
  BY <1>1 DEF l
<1> HIDE DEF row
<1> QED BY <1>4, <1>5, <1>6, <1>7, Inserting

\* A new item is its creator's (items.py:52-58).
LEMMA InsertingItem ==
    ASSUME IInv, NEW r \in Requests, insert_item(r)
    PROVE  IInv'
<1> DEFINE s == session[r]
           row == NewBucket(s.cmd.owner, s.cmd.name)
<1>1. PICK id \in Fresh(ItemIds) : /\ s.pc = "insert_item"
                                   /\ insert(r, id, row, advance(Added(s, id, row)))
  BY DEF insert_item
<1> DEFINE l == Added(s, id, row)
<1>2. /\ id \in ItemIds \ (minted \cup s.new)
      /\ \A q \in Requests : id \notin session[q].new
  BY <1>1, Freshness DEF Fresh, Ids
<1>3. Tidy(l) /\ l.cmd = s.cmd /\ l.pc = "insert_item" /\ l.new = s.new \cup {id}
  BY <1>1, <1>2, Standing, AddingBucket
<1> HIDE DEF l
<1>4. /\ Tidy(advance(l)) /\ advance(l).new = s.new \cup {id}
      /\ advance(l).pc = next(s.cmd, "insert_item")
  BY <1>3, Advancing
<1>5. Placed(advance(l))
  <2>1. next(s.cmd, "insert_item") = "commit"
    BY DEF next
  <2> QED BY <1>4, <2>1 DEF Placed
<1>6. \A q \in Requests \ {r} : advance(l).new \cap session[q].new = {}
  BY <1>2, <1>4, Standing
<1>7. insert(r, id, row, advance(l))
  BY <1>1 DEF l
<1> HIDE DEF row
<1> QED BY <1>4, <1>5, <1>6, <1>7, Inserting

\* A new expense names the category and item its session holds (expenses.py:106-118).
LEMMA InsertingExpense ==
    ASSUME IInv, NEW r \in Requests, insert_expense(r)
    PROVE  IInv'
<1> DEFINE s == session[r]
           plain == [owner |-> s.cmd.owner, category |-> s.category, item |-> None,
                     quantity |-> None, unit |-> None]
           row == IF s.item = None THEN plain ELSE set_item(plain, s.item, s.cmd.line)
<1>1. PICK e \in Fresh(ExpenseIds) : /\ s.pc = "insert_expense"
                                     /\ insert(r, e, row, advance(Added(s, e, row)))
  BY DEF insert_expense
<1> DEFINE l == Added(s, e, row)
<1>2. /\ e \in Ids \ (minted \cup s.new)
      /\ \A q \in Requests : e \notin session[q].new
  BY <1>1, Freshness DEF Fresh, Ids
<1>3. /\ DOMAIN row = {"owner", "category", "item", "quantity", "unit"}
      /\ row.owner = s.cmd.owner /\ row.category = s.category /\ row.item = s.item
  BY DEF set_item
<1>4. Tidy(s) /\ s.category \in DOMAIN s.seen /\ s.item \in {None} \cup DOMAIN s.now
  BY <1>1, Standing DEF Placed, Tidy
<1> HIDE DEF row
<1>5. Held(s, row, e)
  BY <1>3 DEF Held
<1>6. Tidy(l) /\ l.cmd = s.cmd /\ l.pc = "insert_expense" /\ l.new = s.new \cup {e}
  BY <1>1, <1>2, <1>3, <1>4, <1>5, Adding
<1> HIDE DEF l
<1>7. /\ Tidy(advance(l)) /\ advance(l).new = s.new \cup {e}
      /\ advance(l).pc = next(s.cmd, "insert_expense")
  BY <1>6, Advancing
<1>8. Placed(advance(l))
  <2>1. next(s.cmd, "insert_expense") = "commit"
    BY DEF next
  <2> QED BY <1>7, <2>1 DEF Placed
<1>9. \A q \in Requests \ {r} : advance(l).new \cap session[q].new = {}
  BY <1>2, <1>7, Standing
<1>10. insert(r, e, row, advance(l))
  BY <1>1 DEF l
<1> QED BY <1>7, <1>8, <1>9, <1>10, Inserting

Attached(s, l) == /\ Tidy(l) /\ DOMAIN l.seen = DOMAIN s.seen
                  /\ l.cmd = s.cmd /\ l.pc = s.pc /\ l.new = s.new
                  /\ l.category = s.category

\* Attaching an item the session holds to the expense it loaded, or noting it
\* for the one it will record.
LEMMA Attaching ==
    ASSUME NEW s, Tidy(s), NEW item \in DOMAIN s.now,
           s.cmd.op = "update" => s.cmd.expense \in DOMAIN s.seen
    PROVE  LET l == WithItem(s, item)
           IN /\ Tidy(l) /\ DOMAIN l.seen = DOMAIN s.seen
              /\ l.cmd = s.cmd /\ l.pc = s.pc /\ l.new = s.new
              /\ l.category = s.category
<1> DEFINE l == WithItem(s, item)
           e == s.cmd.expense
           row == set_item(s.now[e], item, s.cmd.line)
<1>1. ASSUME s.cmd.op = "update"
      PROVE  Attached(s, l)
  <2>1. e \in DOMAIN s.seen /\ Held(s, s.now[e], e)
    BY <1>1 DEF Tidy
  <2>2. /\ DOMAIN row = DOMAIN s.now[e]
        /\ row.owner = s.now[e].owner
        /\ e \in ExpenseIds => row.category = s.now[e].category /\ row.item = item
    BY <2>1 DEF set_item, Held
  <2>3. e \in ExpenseIds => Points(s, row, s.now[e].category, s.now[e].item)
    BY <2>2 DEF Points
  <2>4. l = Edit(s, e, row)
    BY <1>1 DEF WithItem
  <2> HIDE DEF l, row, e
  <2> QED BY <2>1, <2>2, <2>3, <2>4, Editing DEF Attached
<1>2. ASSUME s.cmd.op # "update"
      PROVE  Attached(s, l)
  <2>1. DOMAIN s = Fields /\ s.category \in {None} \cup DOMAIN s.seen
    BY DEF Tidy
  <2>2. /\ DOMAIN l = Fields /\ l.cmd = s.cmd /\ l.pc = s.pc /\ l.seen = s.seen
        /\ l.now = s.now /\ l.new = s.new
        /\ l.category = s.category /\ l.item = item
    BY <1>2, <2>1 DEF WithItem, Fields
  <2> HIDE DEF l
  <2> QED BY <2>1, <2>2, Noting DEF Attached
<1> QED BY <1>1, <1>2 DEF Attached

\* An item line leads to an item of the owner, or to a new one (items.py:100-133).
LEMMA ResolvingItem ==
    ASSUME IInv, NEW r \in Requests, resolve_item(r)
    PROVE  IInv'
<1> DEFINE c      == session[r].cmd
           mine   == OwnedBy(c.owner, ItemIds)
           listed == rehydrate(session[r], mine)
           given  == rehydrate(session[r], {c.line.item})
           row    == NewBucket(c.owner, c.line.name)
<1>1. /\ session[r].pc = "resolve_item"
      /\ \/ End(r)
         \/ /\ c.line.item \in mine
            /\ Continue(r, advance(WithItem(given, c.line.item)))
         \/ \E item \in mine : Continue(r, advance(WithItem(listed, item)))
         \/ \E item \in Fresh(ItemIds) :
               insert(r, item, row, advance(WithItem(Added(listed, item, row), item)))
  BY DEF resolve_item, Proceed, Reusable
<1>2. \A id \in mine : id \in DOMAIN rows /\ rows[id].owner = c.owner
  BY DEF OwnedBy
\* A session like the one r had, in which the expense or category that the rest
\* of the use case needs is still loaded, goes on well placed.
<1>3. ASSUME NEW s, Tidy(s), s.cmd = c, s.pc = "resolve_item",
             DOMAIN session[r].seen \subseteq DOMAIN s.seen,
             s.category = session[r].category
      PROVE  Placed(advance(s)) /\ (c.op = "update" => c.expense \in DOMAIN s.seen)
  <2>1. /\ advance(s).pc = next(c, "resolve_item") /\ advance(s).cmd = c
        /\ advance(s).seen = s.seen /\ advance(s).category = s.category
    BY <1>3, Advancing
  <2>2. /\ next(c, "resolve_item") \in {"insert_expense", "commit"}
        /\ next(c, "resolve_item") = "insert_expense" => c.op = "record"
    BY DEF next
  <2>3. /\ c.op = "update" => c.expense \in DOMAIN session[r].seen
        /\ c.op = "record" => session[r].category \in DOMAIN session[r].seen
    BY <1>1, Standing DEF Placed
  <2> HIDE DEF c
  <2> QED BY <1>3, <2>1, <2>2, <2>3 DEF Placed
<1>4. CASE End(r)
  BY <1>4, Ending
<1>5. ASSUME NEW s, NEW item \in DOMAIN s.now, Continue(r, advance(WithItem(s, item))),
             Tidy(s), s.cmd = c, s.pc = "resolve_item", s.new = session[r].new,
             DOMAIN session[r].seen \subseteq DOMAIN s.seen,
             s.category = session[r].category
      PROVE  IInv'
  <2> DEFINE l == WithItem(s, item)
  <2>1. /\ Tidy(l) /\ DOMAIN l.seen = DOMAIN s.seen
        /\ l.cmd = s.cmd /\ l.pc = s.pc /\ l.new = s.new
        /\ l.category = s.category
    BY <1>3, <1>5, Attaching
  <2>2. Continue(r, advance(l))
    BY <1>5
  <2> HIDE DEF l
  <2>3. Placed(advance(l))
    BY <1>3, <1>5, <2>1
  <2> QED BY <1>5, <2>1, <2>2, <2>3, Standing, GoingOn
<1>6. CASE /\ c.line.item \in mine
           /\ Continue(r, advance(WithItem(given, c.line.item)))
  <2>1. \A id \in {c.line.item} : id \in DOMAIN rows /\ rows[id].owner = c.owner
    BY <1>2, <1>6
  <2>2. /\ Tidy(given) /\ c.line.item \in DOMAIN given.now /\ given.cmd = c
        /\ given.pc = "resolve_item" /\ given.new = session[r].new
        /\ DOMAIN session[r].seen \subseteq DOMAIN given.seen
        /\ given.category = session[r].category
    BY <1>1, <2>1, Standing, Loading
  <2> HIDE DEF given
  <2> QED BY <1>5, <1>6, <2>2
<1>7. /\ Tidy(listed) /\ mine \subseteq DOMAIN listed.now /\ listed.cmd = c
      /\ listed.pc = "resolve_item" /\ listed.new = session[r].new
      /\ DOMAIN session[r].seen \subseteq DOMAIN listed.seen
      /\ listed.category = session[r].category
  BY <1>1, <1>2, Standing, Loading
<1> HIDE DEF listed, mine
<1>8. CASE \E item \in mine : Continue(r, advance(WithItem(listed, item)))
  BY <1>5, <1>7, <1>8
<1>9. ASSUME NEW item \in Fresh(ItemIds),
             insert(r, item, row, advance(WithItem(Added(listed, item, row), item)))
      PROVE  IInv'
  <2> DEFINE s == Added(listed, item, row)
             l == WithItem(s, item)
  <2>1. /\ item \in ItemIds \ (minted \cup listed.new)
        /\ \A q \in Requests : item \notin session[q].new
    BY <1>7, Freshness DEF Fresh, Ids
  <2>2. /\ Tidy(s) /\ item \in DOMAIN s.now /\ s.cmd = c /\ s.pc = "resolve_item"
        /\ s.new = session[r].new \cup {item}
        /\ DOMAIN session[r].seen \subseteq DOMAIN s.seen
        /\ s.category = session[r].category
    BY <1>7, <2>1, AddingBucket
  <2>3. insert(r, item, row, advance(l))
    BY <1>9
  <2> HIDE DEF s
  <2>4. /\ Tidy(l) /\ DOMAIN l.seen = DOMAIN s.seen
        /\ l.cmd = s.cmd /\ l.pc = s.pc /\ l.new = s.new
        /\ l.category = s.category
    BY <1>3, <2>2, Attaching
  <2> HIDE DEF l
  <2>5. Tidy(advance(l)) /\ advance(l).new = session[r].new \cup {item}
    BY <2>2, <2>4, Advancing
  <2>6. Placed(advance(l))
    BY <1>3, <2>2, <2>4
  <2>7. \A q \in Requests \ {r} : advance(l).new \cap session[q].new = {}
    BY <2>1, <2>5, Standing
  <2> HIDE DEF row
  <2> QED BY <2>3, <2>5, <2>6, <2>7, Inserting
<1> QED BY <1>1, <1>4, <1>6, <1>8, <1>9
-----------------------------------------------------------------------------
\* No statement, crash or commit, of any request, breaks the invariant.
LEMMA IInvStep == IInv /\ [Next]_vars => IInv'
<1> SUFFICES ASSUME IInv, [Next]_vars PROVE IInv'
  OBVIOUS
<1>1. CASE UNCHANGED vars
  <2>1. \A x : Tidy(x) => Tidy(x)'
    BY <1>1 DEF Tidy, Held, Points, vars
  <2>2. RowsHeld' /\ OwnersStayApart' /\ NewApart'
    BY <1>1 DEF IInv, RowsHeld, OwnersStayApart, NewApart, vars
  <2>3. session' = session
    BY <1>1 DEF vars
  <2>4. ASSUME NEW r \in Requests PROVE (Tidy(session[r]) /\ Placed(session[r]))'
    <3>1. PICK x : x = session'[r] /\ Tidy(x) /\ Placed(x)
      BY <2>3 DEF IInv
    <3>2. Tidy(x)'
      BY <2>1, <3>1
    <3> QED BY <3>1, <3>2 DEF Tidy, Placed, Held, Points
  <2> QED BY <2>2, <2>3, <2>4 DEF IInv
<1>2. ASSUME NEW r \in Requests, NEW c \in Commands, begin(r, c) PROVE IInv'
  BY <1>2, Beginning
<1>3. ASSUME NEW r \in Requests, statement(r) PROVE IInv'
  BY <1>3, GettingExpense, UsingCategory, ResolvingItem, InsertingExpense,
     GettingCategory, ListingCategories, InsertingCategory, CountingForCategory,
     GettingItem, ListingItems, InsertingItem, CountingForItem, Committing
     DEF statement
<1>4. ASSUME NEW r \in Requests, crash(r) PROVE IInv'
  BY <1>4, Ending DEF crash
<1> QED BY <1>1, <1>2, <1>3, <1>4 DEF Next

\* An empty database, no request open.
LEMMA IInvInit == Init => IInv
BY IdleIsTidy DEF Init, IInv, NoRows, RowsHeld, OwnersStayApart, NewApart, Tidy,
   Placed, Held, Points, Idle, Fields

\* Whatever the requests of an owner name, and however they interleave, fail
\* and crash, an expense stays with the categories and items of its owner.
THEOREM Isolation == Spec => []OwnersStayApart
<1>1. IInv => OwnersStayApart
  BY DEF IInv
<1> QED BY <1>1, IInvInit, IInvStep, PTL DEF Spec
-----------------------------------------------------------------------------
(* What a session holds, and commits.                                    *)

\* Which use case sends which statement, and with what.
Routed(s) ==
    /\ s.pc # "idle" => s.cmd \in Commands
    /\ s.pc \in {"resolve_item"} => has_item(s.cmd)
    /\ s.pc = "list_categories" => s.cmd.op \in {"create_category", "rename_category"}
    /\ s.pc = "insert_category" => s.cmd.op = "create_category"
    /\ s.pc \in {"list_items", "insert_item"} => s.cmd.op = "create_item"

\* What a session holds is what its columns take.
Typed(s) ==
    /\ DOMAIN s = Fields
    /\ s.cmd \in Commands \cup {None}
    /\ s.cmd = None => s.seen = NoRows
    /\ s.gone \subseteq DOMAIN s.seen
    /\ \A id \in DOMAIN s.now : s.now[id] \in Row(id)
    /\ s.category \in CategoryIds \cup {None}
    /\ s.item \in ItemIds \cup {None}
    /\ s.item # None => has_item(s.cmd)

RowsTyped == \A id \in DOMAIN rows : rows[id] \in Row(id)

TInv == /\ IInv
        /\ RowsTyped
        /\ \A r \in Requests : Typed(session[r]) /\ Routed(session[r])
-----------------------------------------------------------------------------
\* The tables are apart, so an id says which row it has.
LEMMA Rows ==
    /\ \A id \in CategoryIds : Row(id) = CategoryRow
    /\ \A id \in ItemIds : Row(id) = ItemRow
    /\ \A id \in ExpenseIds : Row(id) = ExpenseRow
    /\ None \notin Ids
BY IdAssumption DEF Row, Ids

\* An aggregate is a row of its table (mappers.py:118-132).
LEMMA Mapping ==
    ASSUME NEW id \in Ids, NEW row \in Row(id)
    PROVE  to_domain(row) \in Row(id)
<1>1. CASE id \in CategoryIds \cup ItemIds
  <2>1. row \in [owner : Owners, name : Names, key : Keys, is_archived : BOOLEAN]
    BY <1>1, Rows DEF CategoryRow, ItemRow
  <2>2. KeyOf[row.name] \in Keys
    BY <2>1 DEF Keys
  <2>3. to_domain(row) \in [owner : Owners, name : Names, key : Keys, is_archived : BOOLEAN]
    BY <2>1, <2>2 DEF to_domain
  <2> QED BY <1>1, <2>3, Rows DEF CategoryRow, ItemRow
<1>2. CASE id \in ExpenseIds
  <2>1. row \in ExpenseRow /\ Row(id) = ExpenseRow
    BY <1>2, Rows
  <2>2. "key" \notin DOMAIN row
    BY <2>1 DEF ExpenseRow
  <2> QED BY <2>1, <2>2 DEF to_domain
<1> QED BY <1>1, <1>2 DEF Ids

\* A session that loads rows of the tables stays typed (repository.py:60-70).
LEMMA LoadingTyped ==
    ASSUME NEW s, NEW ids, Typed(s), Tidy(s), RowsHeld, RowsTyped, s.cmd # None,
           ids \subseteq DOMAIN rows
    PROVE  Typed(rehydrate(s, ids))
<1> DEFINE l == rehydrate(s, ids)
           g == [id \in ids |-> to_domain(rows[id])]
<1>1. /\ DOMAIN l = Fields
      /\ l.seen = Complete(s.seen, ids, rows)
      /\ l.now = Complete(s.now, ids, g)
      /\ l.cmd = s.cmd /\ l.gone = s.gone /\ l.category = s.category /\ l.item = s.item
  BY DEF rehydrate, Typed, Fields
<1>2. ASSUME NEW id \in DOMAIN l.now PROVE l.now[id] \in Row(id)
  <2>1. CASE id \in DOMAIN s.now
    BY <1>1, <2>1 DEF Complete, Typed
  <2>2. CASE id \notin DOMAIN s.now
    <3>1. id \in ids /\ l.now[id] = to_domain(rows[id])
      BY <1>1, <2>2 DEF Complete
    <3> QED BY <3>1, Mapping DEF RowsTyped, RowsHeld
  <2> QED BY <2>1, <2>2
<1>3. l.gone \subseteq DOMAIN l.seen
  BY <1>1 DEF Complete, Typed
<1> QED BY <1>1, <1>2, <1>3 DEF Typed

\* So does one that changes or adds a row its table takes.
LEMMA EditingTyped ==
    ASSUME NEW s, NEW id, NEW row \in Row(id), Typed(s)
    PROVE  Typed(Edit(s, id, row)) /\ Typed(Added(s, id, row))
<1> DEFINE l == Edit(s, id, row)
           a == Added(s, id, row)
<1>1. /\ DOMAIN l = Fields /\ DOMAIN a = Fields
      /\ l.seen = s.seen /\ a.seen = s.seen
      /\ l.now = Override(s.now, {id}, [i \in {id} |-> row]) /\ a.now = l.now
      /\ l.cmd = s.cmd /\ a.cmd = s.cmd /\ l.gone = s.gone /\ a.gone = s.gone
      /\ l.category = s.category /\ a.category = s.category
      /\ l.item = s.item /\ a.item = s.item
  BY DEF Edit, Added, Typed, Fields
<1>2. \A i \in DOMAIN l.now : l.now[i] \in Row(i)
  BY <1>1 DEF Override, Typed
<1> QED BY <1>1, <1>2 DEF Typed

\* Marking a loaded row for deletion (repository.py:85-91).
LEMMA DeletingTyped ==
    ASSUME NEW s, NEW id \in DOMAIN s.seen, Typed(s)
    PROVE  Typed(delete(s, id))
<1>1. /\ DOMAIN delete(s, id) = Fields
      /\ delete(s, id).gone = s.gone \cup {id}
      /\ \A f \in Fields \ {"gone"} : delete(s, id)[f] = s[f]
  BY DEF delete, Typed, Fields
<1> QED BY <1>1 DEF Typed, Fields

\* Going on changes the statement and nothing else.
LEMMA AdvancingTyped ==
    ASSUME NEW s, Typed(s)
    PROVE  Typed(advance(s)) /\ advance(s).cmd = s.cmd /\ advance(s).pc = next(s.cmd, s.pc)
<1>1. /\ DOMAIN advance(s) = Fields
      /\ \A f \in Fields \ {"pc"} : advance(s)[f] = s[f]
      /\ advance(s).pc = next(s.cmd, s.pc)
  BY DEF advance, Typed, Fields
<1> QED BY <1>1 DEF Typed, Fields

\* Every use case that goes on takes the way the code takes.
LEMMA Routing ==
    ASSUME NEW s, s.pc # "idle", s.cmd \in Commands, Routed(s), Typed(s)
    PROVE  Routed(advance(s))
<1> DEFINE c == s.cmd
           pc == next(s.cmd, s.pc)
<1>1. advance(s).pc = pc /\ advance(s).cmd = c
  BY AdvancingTyped
<1>2. pc = "resolve_item" => has_item(c)
  BY DEF next
<1>3. pc = "list_categories" => c.op = "rename_category"
  BY DEF next
<1>4. pc = "insert_category" => c.op = "create_category"
  BY DEF next
<1>5. pc # "list_items" /\ (pc = "insert_item" => s.pc = "list_items")
  BY DEF next
<1>6. pc = "insert_item" => c.op = "create_item"
  BY <1>5 DEF Routed
<1> HIDE DEF pc
<1> QED BY <1>1, <1>2, <1>3, <1>4, <1>5, <1>6 DEF Routed
-----------------------------------------------------------------------------
\* What a statement may rely on.
LEMMA StandingTyped ==
    ASSUME TInv, NEW r \in Requests, session[r].pc # "idle"
    PROVE  LET s == session[r]
           IN /\ Typed(s) /\ Routed(s) /\ Tidy(s) /\ Placed(s) /\ RowsHeld /\ RowsTyped
              /\ s.cmd \in Commands /\ s.cmd \in Command /\ s.cmd # None
BY CommandAssumption, Standing DEF TInv, Routed

\* One request goes on with a typed session; nothing is committed.
LEMMA SteppingTyped ==
    ASSUME TInv, IInv', NEW r \in Requests, NEW s, Continue(r, s), Typed(s), Routed(s)
    PROVE  TInv'
<1>1. /\ rows' = rows
      /\ session'[r] = s
      /\ \A q \in Requests \ {r} : session'[q] = session[q]
  BY DEF Continue, TInv, IInv
<1>2. RowsTyped'
  BY <1>1 DEF RowsTyped, TInv
<1>3. ASSUME NEW q \in Requests PROVE (Typed(session[q]) /\ Routed(session[q]))'
  <2>1. PICK x : x = session'[q] /\ Typed(x) /\ Routed(x)
    BY <1>1 DEF TInv
  <2> QED BY <2>1 DEF Typed, Routed
<1> QED BY <1>2, <1>3 DEF TInv

\* A closed session holds nothing.
LEMMA IdleIsTyped == Typed(Idle) /\ Routed(Idle)
BY DEF Typed, Routed, Idle, NoRows, Fields

\* A refused or crashed request commits nothing.
LEMMA EndingTyped ==
    ASSUME TInv, IInv', NEW r \in Requests, End(r)
    PROVE  TInv'
<1>1. Continue(r, Idle)
  BY DEF End, Continue
<1> QED BY <1>1, IdleIsTyped, SteppingTyped

\* A request starts with the first statement of its use case.
LEMMA BeginningTyped ==
    ASSUME TInv, IInv', NEW r \in Requests, NEW c \in Commands, begin(r, c)
    PROVE  TInv'
<1> DEFINE s == [Idle EXCEPT !.cmd = c, !.pc = first(c)]
<1>1. Continue(r, s)
  BY DEF begin, Continue
<1>2. Typed(s) /\ s.pc = first(c) /\ s.cmd = c
  BY CommandAssumption DEF Typed, Idle, NoRows, Fields
<1>3. c.op \in Ops
  BY CommandAssumption DEF Command
<1>4. /\ first(c) \notin {"resolve_item", "insert_category", "insert_item"}
      /\ first(c) = "list_categories" => c.op = "create_category"
      /\ first(c) = "list_items" => c.op = "create_item"
  BY <1>3 DEF first, Ops
<1>5. Routed(s)
  BY <1>2, <1>4 DEF Routed
<1> HIDE DEF s
<1> QED BY <1>1, <1>2, <1>5, SteppingTyped

\* The common end of the statements.
LEMMA GoingOnTyped ==
    ASSUME TInv, IInv', NEW r \in Requests, NEW s, Typed(s), Continue(r, advance(s)),
           session[r].pc # "idle", s.pc = session[r].pc, s.cmd = session[r].cmd
    PROVE  TInv'
<1>1. Routed(s) /\ s.cmd \in Commands
  BY StandingTyped DEF Routed
<1> QED BY <1>1, AdvancingTyped, Routing, SteppingTyped

\* An insert goes on, or ends the request (repository.py:72-83).
LEMMA InsertingTyped ==
    ASSUME TInv, IInv', NEW r \in Requests, NEW id, NEW row, NEW s, Typed(s),
           insert(r, id, row, advance(s)),
           session[r].pc # "idle", s.pc = session[r].pc, s.cmd = session[r].cmd
    PROVE  TInv'
<1>1. End(r) \/ Continue(r, advance(s))
  BY DEF insert
<1> QED BY <1>1, EndingTyped, GoingOnTyped
-----------------------------------------------------------------------------
\* The edits of an expense give an expense (expense.py:142-180).
LEMMA ExpenseEdits ==
    ASSUME NEW e \in ExpenseRow, NEW category \in CategoryIds, NEW item \in ItemIds,
           NEW line \in Line
    PROVE  /\ clear_item(e) \in ExpenseRow
           /\ recategorise(e, category) \in ExpenseRow
           /\ set_item(e, item, line) \in ExpenseRow
BY DEF ExpenseRow, Line, clear_item, recategorise, set_item

\* Loading an expense, and dropping its line (expenses.py:122-145).
LEMMA GettingExpenseTyped ==
    ASSUME TInv, IInv', NEW r \in Requests, get_expense(r)
    PROVE  TInv'
<1> DEFINE c == session[r].cmd
           s == rehydrate(session[r], {c.expense})
           l == IF c.op = "delete" THEN delete(s, c.expense)
                ELSE IF c.line = Clear
                THEN Edit(s, c.expense, clear_item(s.now[c.expense]))
                ELSE s
           ok == /\ c.expense \in OwnedBy(c.owner, ExpenseIds)
                 /\ validate_item_line(rows[c.expense])
<1>1. CASE ~ok
  BY <1>1, EndingTyped DEF get_expense, Proceed
<1>2. CASE ok
  <2>1. Continue(r, advance(l)) /\ session[r].pc = "get_expense"
    BY <1>2 DEF get_expense, Proceed
  <2>2. /\ c.expense \in ExpenseIds
        /\ \A id \in {c.expense} : id \in DOMAIN rows /\ rows[id].owner = c.owner
    BY <1>2 DEF OwnedBy
  <2>3. /\ Typed(s) /\ Tidy(s) /\ c.expense \in DOMAIN s.seen
        /\ s.cmd = c /\ s.pc = "get_expense"
    BY <2>1, <2>2, StandingTyped, Loading, LoadingTyped
  <2>4. s.now[c.expense] \in ExpenseRow
    BY <2>2, <2>3, Rows DEF Typed, Tidy
  <2>5. clear_item(s.now[c.expense]) \in Row(c.expense)
    BY <2>2, <2>4, Rows DEF clear_item, ExpenseRow
  <2>6. Typed(l) /\ l.cmd = c /\ l.pc = "get_expense"
    <3>1. /\ delete(s, c.expense).cmd = s.cmd /\ delete(s, c.expense).pc = s.pc
          /\ \A row : Edit(s, c.expense, row).cmd = s.cmd
                      /\ Edit(s, c.expense, row).pc = s.pc
      BY <2>3 DEF delete, Edit, Typed, Fields
    <3>2. /\ l = delete(s, c.expense)
          \/ l = Edit(s, c.expense, clear_item(s.now[c.expense]))
          \/ l = s
      OBVIOUS
    <3> HIDE DEF l, s
    <3> QED BY <2>3, <2>5, <3>1, <3>2, EditingTyped, DeletingTyped
  <2> HIDE DEF l
  <2> QED BY <2>1, <2>6, GoingOnTyped
<1> QED BY <1>1, <1>2

\* Filing it under a category (expenses.py:96-131).
LEMMA UsingCategoryTyped ==
    ASSUME TInv, IInv', NEW r \in Requests, use_category(r)
    PROVE  TInv'
<1> DEFINE c == session[r].cmd
           h == rehydrate(session[r], {c.category})
           s == [h EXCEPT !.category = c.category]
           row == recategorise(s.now[c.expense], c.category)
           l == IF c.op = "update" THEN Edit(s, c.expense, row) ELSE s
           ok == /\ c.category \in OwnedBy(c.owner, CategoryIds)
                 /\ ensure_category_usable(s.now[c.category])
<1>1. CASE ~ok
  BY <1>1, EndingTyped DEF use_category, Proceed
<1>2. CASE ok
  <2>1. Continue(r, advance(l)) /\ session[r].pc = "use_category"
    BY <1>2 DEF use_category, Proceed
  <2>2. /\ c.category \in CategoryIds
        /\ \A id \in {c.category} : id \in DOMAIN rows /\ rows[id].owner = c.owner
    BY <1>2 DEF OwnedBy
  <2>3. /\ Typed(h) /\ Tidy(h) /\ DOMAIN session[r].seen \subseteq DOMAIN h.seen
        /\ h.cmd = c /\ h.pc = "use_category"
    BY <2>1, <2>2, StandingTyped, Loading, LoadingTyped
  <2>4. /\ DOMAIN s = Fields /\ s.category = c.category
        /\ \A f \in Fields \ {"category"} : s[f] = h[f]
    BY <2>3 DEF Typed, Fields
  <2>5. Typed(s) /\ s.cmd = c /\ s.pc = "use_category" /\ s.now = h.now
    BY <2>2, <2>3, <2>4 DEF Typed, Fields
  <2>6. c.op = "update" => row \in Row(c.expense)
    <3> SUFFICES ASSUME c.op = "update" PROVE row \in Row(c.expense)
      OBVIOUS
    <3>1. c.expense \in DOMAIN h.seen /\ c.expense \in ExpenseIds
      <4>1. Tidy(session[r]) /\ Placed(session[r]) /\ RowsHeld /\ c \in Command
        BY <2>1, StandingTyped
      <4>2. c.expense \in DOMAIN session[r].seen
        BY <2>1, <4>1 DEF Placed
      <4>3. c.expense \in Ids
        BY <4>1, <4>2 DEF Tidy, RowsHeld
      <4>4. c.expense \in ExpenseIds
        BY <4>1, <4>3, IdAssumption DEF Command
      <4> HIDE DEF row, s, h, c
      <4> QED BY <2>3, <4>2, <4>4
    <3>2. s.now[c.expense] \in ExpenseRow
      <4> HIDE DEF s, h, c
      <4> QED BY <2>3, <2>5, <3>1, Rows DEF Typed, Tidy
    <3> QED BY <2>2, <3>1, <3>2, Rows DEF recategorise, ExpenseRow
  <2>7. Typed(l) /\ l.cmd = c /\ l.pc = "use_category"
    <3>1. Edit(s, c.expense, row).cmd = s.cmd /\ Edit(s, c.expense, row).pc = s.pc
      BY <2>4 DEF Edit, Fields
    <3> HIDE DEF s, row
    <3> QED BY <2>5, <2>6, <3>1, EditingTyped
  <2> HIDE DEF l
  <2> QED BY <2>1, <2>7, GoingOnTyped
<1> QED BY <1>1, <1>2
-----------------------------------------------------------------------------
\* A category or an item stays one, archived, restored, deleted or renamed.
HandledTyped(s, id, l) == \/ l = s
                          \/ l = delete(s, id)
                          \/ l = Edit(s, id, archive(s.now[id]))
                          \/ l = Edit(s, id, restore(s.now[id]))
                          \/ \E name \in Names : l = Edit(s, id, rename(s.now[id], name))

\* Every edit of a category or an item gives one (category.py:63-95, item.py:72-128).
LEMMA HandlingTyped ==
    ASSUME NEW s, NEW id \in DOMAIN s.seen, NEW l, Typed(s), Tidy(s),
           id \in CategoryIds \cup ItemIds, HandledTyped(s, id, l)
    PROVE  Typed(l) /\ l.cmd = s.cmd /\ l.pc = s.pc
<1>1. s.now[id] \in CategoryRow /\ Row(id) = CategoryRow
  BY Rows DEF Typed, Tidy, CategoryRow, ItemRow
<1>2. \A name \in Names : KeyOf[name] \in Keys
  BY DEF Keys
<1>3. /\ archive(s.now[id]) \in Row(id)
      /\ restore(s.now[id]) \in Row(id)
      /\ \A name \in Names : rename(s.now[id], name) \in Row(id)
  BY <1>1, <1>2 DEF archive, restore, rename, CategoryRow
<1>4. /\ delete(s, id).cmd = s.cmd /\ delete(s, id).pc = s.pc
      /\ \A row : Edit(s, id, row).cmd = s.cmd /\ Edit(s, id, row).pc = s.pc
  BY DEF delete, Edit, Typed, Fields
<1> QED BY <1>3, <1>4, EditingTyped, DeletingTyped DEF HandledTyped

\* Archiving and restoring a category (categories.py:72-108).
LEMMA GettingCategoryTyped ==
    ASSUME TInv, IInv', NEW r \in Requests, get_category(r)
    PROVE  TInv'
<1> DEFINE c == session[r].cmd
           s == rehydrate(session[r], {c.category})
<1>1. PICK l : \/ End(r)
               \/ /\ Continue(r, advance(l)) /\ session[r].pc = "get_category"
                  /\ c.category \in OwnedBy(c.owner, CategoryIds)
                  /\ HandledTyped(s, c.category, l)
  BY DEF get_category, Proceed, HandledTyped
<1>2. CASE ~End(r)
  <2>1. /\ c.category \in CategoryIds
        /\ \A id \in {c.category} : id \in DOMAIN rows /\ rows[id].owner = c.owner
    BY <1>1, <1>2 DEF OwnedBy
  <2>2. /\ Typed(s) /\ Tidy(s) /\ c.category \in DOMAIN s.seen
        /\ s.cmd = c /\ s.pc = "get_category"
    BY <1>1, <1>2, <2>1, StandingTyped, Loading, LoadingTyped
  <2> HIDE DEF s
  <2> QED BY <1>1, <1>2, <2>1, <2>2, HandlingTyped, GoingOnTyped
<1> QED BY <1>2, EndingTyped

\* Renaming one, among those there are (categories.py:58-79).
LEMMA ListingCategoriesTyped ==
    ASSUME TInv, IInv', NEW r \in Requests, list_categories(r)
    PROVE  TInv'
<1> DEFINE c == session[r].cmd
           mine == OwnedBy(c.owner, CategoryIds)
           s == rehydrate(session[r], mine)
<1>1. session[r].pc = "list_categories"
  BY DEF list_categories
<1>2. PICK l : \/ End(r)
               \/ /\ Continue(r, advance(l))
                  /\ \/ l = s
                     \/ /\ c.op = "rename_category"
                        /\ l = Edit(s, c.category, rename(s.now[c.category], c.name))
  BY DEF list_categories, Proceed
<1>3. CASE ~End(r)
  <2>1. \A id \in mine : id \in DOMAIN rows /\ rows[id].owner = c.owner
    BY DEF OwnedBy
  <2>2. /\ Typed(s) /\ Tidy(s) /\ DOMAIN session[r].seen \subseteq DOMAIN s.seen
        /\ s.cmd = c /\ s.pc = "list_categories"
    BY <1>1, <2>1, StandingTyped, Loading, LoadingTyped
  <2>3. c.op = "rename_category" => /\ c.category \in CategoryIds
                                    /\ c.category \in DOMAIN s.seen
                                    /\ c.name \in Names
    <3>1. c \in Command /\ c \in Commands /\ Tidy(session[r]) /\ Placed(session[r]) /\ RowsHeld
      BY <1>1, StandingTyped
    <3>2. c.op = "rename_category" => c.category \in DOMAIN session[r].seen
      BY <1>1, <3>1 DEF Placed
    <3>3. DOMAIN session[r].seen \subseteq Ids
      BY <3>1 DEF Tidy, RowsHeld
    <3> HIDE DEF s, mine
    <3> QED BY <2>2, <3>1, <3>2, <3>3, IdAssumption, CommandAssumption DEF Command
  <2> HIDE DEF s, mine
  <2>4. Typed(l) /\ l.cmd = c /\ l.pc = "list_categories"
    BY <1>2, <1>3, <2>2, <2>3, HandlingTyped DEF HandledTyped
  <2> QED BY <1>1, <1>2, <1>3, <2>4, GoingOnTyped
<1> QED BY <1>3, EndingTyped

\* Removing one, or archiving it when it is used (categories.py:113-127).
LEMMA CountingForCategoryTyped ==
    ASSUME TInv, IInv', NEW r \in Requests, count_for_category(r)
    PROVE  TInv'
<1> DEFINE s == session[r]
           id == s.cmd.category
<1>1. PICK l : \/ End(r)
               \/ /\ Continue(r, advance(l)) /\ s.pc = "count_for_category"
                  /\ HandledTyped(s, id, l)
  BY DEF count_for_category, Proceed, HandledTyped
<1>2. CASE ~End(r)
  <2>1. /\ Typed(s) /\ Tidy(s) /\ id \in DOMAIN s.seen /\ s.cmd \in Command /\ RowsHeld
    BY <1>1, <1>2, StandingTyped DEF Placed
  <2>2. id \in CategoryIds
    BY <2>1, IdAssumption DEF Command, Tidy, RowsHeld
  <2>3. Typed(l) /\ l.cmd = s.cmd /\ l.pc = s.pc
    BY <1>1, <1>2, <2>1, <2>2, HandlingTyped
  <2> QED BY <1>1, <1>2, <2>3, GoingOnTyped
<1> QED BY <1>2, EndingTyped

\* Archiving and restoring an item (items.py:62-79).
LEMMA GettingItemTyped ==
    ASSUME TInv, IInv', NEW r \in Requests, get_item(r)
    PROVE  TInv'
<1> DEFINE c == session[r].cmd
           s == rehydrate(session[r], {c.item})
<1>1. PICK l : \/ End(r)
               \/ /\ Continue(r, advance(l)) /\ session[r].pc = "get_item"
                  /\ c.item \in OwnedBy(c.owner, ItemIds)
                  /\ HandledTyped(s, c.item, l)
  BY DEF get_item, Proceed, HandledTyped
<1>2. CASE ~End(r)
  <2>1. /\ c.item \in ItemIds
        /\ \A id \in {c.item} : id \in DOMAIN rows /\ rows[id].owner = c.owner
    BY <1>1, <1>2 DEF OwnedBy
  <2>2. /\ Typed(s) /\ Tidy(s) /\ c.item \in DOMAIN s.seen
        /\ s.cmd = c /\ s.pc = "get_item"
    BY <1>1, <1>2, <2>1, StandingTyped, Loading, LoadingTyped
  <2> HIDE DEF s
  <2> QED BY <1>1, <1>2, <2>1, <2>2, HandlingTyped, GoingOnTyped
<1> QED BY <1>2, EndingTyped

\* Comparing a new item with those there are (items.py:90-98).
LEMMA ListingItemsTyped ==
    ASSUME TInv, IInv', NEW r \in Requests, list_items(r)
    PROVE  TInv'
<1> DEFINE c == session[r].cmd
           mine == OwnedBy(c.owner, ItemIds)
           s == rehydrate(session[r], mine)
<1>1. session[r].pc = "list_items" /\ (End(r) \/ Continue(r, advance(s)))
  BY DEF list_items, Proceed
<1>2. \A id \in mine : id \in DOMAIN rows /\ rows[id].owner = c.owner
  BY DEF OwnedBy
<1>3. Typed(s) /\ s.cmd = c /\ s.pc = "list_items"
  BY <1>1, <1>2, StandingTyped, Loading, LoadingTyped
<1> HIDE DEF s
<1> QED BY <1>1, <1>3, GoingOnTyped, EndingTyped

\* Removing an item, or archiving it when it is used (items.py:80-87).
LEMMA CountingForItemTyped ==
    ASSUME TInv, IInv', NEW r \in Requests, count_for_item(r)
    PROVE  TInv'
<1> DEFINE s == session[r]
           id == s.cmd.item
<1>1. PICK l : \/ End(r)
               \/ /\ Continue(r, advance(l)) /\ s.pc = "count_for_item"
                  /\ HandledTyped(s, id, l)
  BY DEF count_for_item, Proceed, HandledTyped
<1>2. CASE ~End(r)
  <2>1. /\ Typed(s) /\ Tidy(s) /\ id \in DOMAIN s.seen /\ s.cmd \in Command /\ RowsHeld
    BY <1>1, <1>2, StandingTyped DEF Placed
  <2>2. id \in ItemIds
    BY <2>1, IdAssumption DEF Command, Tidy, RowsHeld
  <2>3. Typed(l) /\ l.cmd = s.cmd /\ l.pc = s.pc
    BY <1>1, <1>2, <2>1, <2>2, HandlingTyped
  <2> QED BY <1>1, <1>2, <2>3, GoingOnTyped
<1> QED BY <1>2, EndingTyped
-----------------------------------------------------------------------------
\* A new category or item is a row of its table (category.py:33-61, item.py:49-70).
LEMMA BucketTyped ==
    ASSUME NEW owner \in Owners, NEW name \in Names, NEW id \in CategoryIds \cup ItemIds
    PROVE  NewBucket(owner, name) \in Row(id)
<1>1. KeyOf[name] \in Keys
  BY DEF Keys
<1> QED BY <1>1, Rows DEF NewBucket, CategoryRow, ItemRow

\* What an insert adds leaves the session where it was.
LEMMA AddedStays ==
    ASSUME NEW s, NEW id, NEW row, Typed(s)
    PROVE  Added(s, id, row).cmd = s.cmd /\ Added(s, id, row).pc = s.pc
BY DEF Added, Edit, Typed, Fields

\* Adding a category or an item.
LEMMA InsertingBucketTyped ==
    ASSUME TInv, IInv', NEW r \in Requests,
           insert_category(r) \/ insert_item(r)
    PROVE  TInv'
<1> DEFINE s == session[r]
           row == NewBucket(s.cmd.owner, s.cmd.name)
<1>1. PICK id \in CategoryIds \cup ItemIds :
         /\ s.pc \in {"insert_category", "insert_item"}
         /\ insert(r, id, row, advance(Added(s, id, row)))
  BY DEF insert_category, insert_item, Fresh
<1>2. Typed(s) /\ s.cmd.owner \in Owners /\ s.cmd.name \in Names
  <2>1. Typed(s) /\ Routed(s) /\ s.cmd \in Commands /\ s.cmd \in Command
    BY <1>1, StandingTyped
  <2>2. s.cmd.op \in {"create_category", "create_item"}
    BY <1>1, <2>1 DEF Routed
  <2> QED BY <2>1, <2>2, CommandAssumption DEF Command
<1>3. row \in Row(id)
  BY <1>2, BucketTyped
<1> HIDE DEF row
<1>4. Typed(Added(s, id, row)) /\ Added(s, id, row).cmd = s.cmd /\ Added(s, id, row).pc = s.pc
  BY <1>2, <1>3, EditingTyped, AddedStays
<1> QED BY <1>1, <1>4, InsertingTyped

\* Recording an expense, with the item its line led to (expenses.py:106-118).
LEMMA InsertingExpenseTyped ==
    ASSUME TInv, IInv', NEW r \in Requests, insert_expense(r)
    PROVE  TInv'
<1> DEFINE s == session[r]
           plain == [owner |-> s.cmd.owner, category |-> s.category, item |-> None,
                     quantity |-> None, unit |-> None]
           row == IF s.item = None THEN plain ELSE set_item(plain, s.item, s.cmd.line)
<1>1. PICK e \in ExpenseIds : /\ s.pc = "insert_expense"
                              /\ insert(r, e, row, advance(Added(s, e, row)))
  BY DEF insert_expense, Fresh
<1>2. /\ Typed(s) /\ Tidy(s) /\ Placed(s) /\ RowsHeld /\ s.cmd \in Command
  BY <1>1, StandingTyped
<1>3. s.category \in CategoryIds
  <2>1. s.category \in DOMAIN s.seen
    BY <1>1, <1>2 DEF Placed
  <2>2. s.category # None
    BY <1>2, <2>1, Rows DEF Tidy, RowsHeld
  <2> QED BY <1>2, <2>2 DEF Typed
<1>4. s.item # None => s.item \in ItemIds /\ s.cmd.line \in Line
  BY <1>2 DEF Typed, has_item, Command
<1>5. plain \in ExpenseRow
  BY <1>2, <1>3 DEF ExpenseRow, Command
<1>6. row \in Row(e)
  <2> HIDE DEF plain
  <2> QED BY <1>3, <1>4, <1>5, ExpenseEdits, Rows
<1> HIDE DEF row
<1>7. Typed(Added(s, e, row)) /\ Added(s, e, row).cmd = s.cmd /\ Added(s, e, row).pc = s.pc
  BY <1>2, <1>6, EditingTyped, AddedStays
<1> QED BY <1>1, <1>7, InsertingTyped

\* The item of the line goes into the expense, or is noted for it.
LEMMA AttachingTyped ==
    ASSUME NEW s, Typed(s), Tidy(s), RowsHeld, s.cmd \in Command, has_item(s.cmd),
           NEW item \in ItemIds, s.cmd.op = "update" => s.cmd.expense \in DOMAIN s.seen
    PROVE  /\ Typed(WithItem(s, item))
           /\ WithItem(s, item).cmd = s.cmd /\ WithItem(s, item).pc = s.pc
<1> DEFINE l == WithItem(s, item)
           e == s.cmd.expense
           row == set_item(s.now[e], item, s.cmd.line)
<1>1. s.cmd.line \in Line
  BY DEF has_item, Command
<1>2. CASE s.cmd.op = "update"
  <2>1. e \in Ids /\ e \in DOMAIN s.now
    BY <1>2 DEF Tidy, RowsHeld
  <2>2. e \in ExpenseIds
    BY <2>1, IdAssumption DEF Command
  <2>3. s.now[e] \in ExpenseRow
    BY <2>1, <2>2, Rows DEF Typed
  <2>4. row \in Row(e)
    BY <1>1, <2>2, <2>3, Rows DEF set_item, ExpenseRow, Line
  <2>5. l = Edit(s, e, row)
    BY <1>2 DEF WithItem
  <2>6. Edit(s, e, row).cmd = s.cmd /\ Edit(s, e, row).pc = s.pc
    BY DEF Edit, Typed, Fields
  <2> HIDE DEF row
  <2> QED BY <2>4, <2>5, <2>6, EditingTyped
<1>3. CASE s.cmd.op # "update"
  <2>1. /\ DOMAIN l = Fields /\ l.item = item
        /\ \A f \in Fields \ {"item"} : l[f] = s[f]
    BY <1>3 DEF WithItem, Typed, Fields
  <2> QED BY <2>1 DEF Typed, Fields
<1> QED BY <1>2, <1>3

\* Finding or making the item of a line (items.py:100-133).
LEMMA ResolvingItemTyped ==
    ASSUME TInv, IInv', NEW r \in Requests, resolve_item(r)
    PROVE  TInv'
<1> DEFINE c      == session[r].cmd
           mine   == OwnedBy(c.owner, ItemIds)
           listed == rehydrate(session[r], mine)
           given  == rehydrate(session[r], {c.line.item})
           row    == NewBucket(c.owner, c.line.name)
<1>1. /\ session[r].pc = "resolve_item"
      /\ \/ End(r)
         \/ /\ c.line.item \in mine
            /\ Continue(r, advance(WithItem(given, c.line.item)))
         \/ \E item \in mine : Continue(r, advance(WithItem(listed, item)))
         \/ \E item \in Fresh(ItemIds) :
               /\ c.line.item = None
               /\ insert(r, item, row, advance(WithItem(Added(listed, item, row), item)))
  BY DEF resolve_item, Proceed, Reusable
<1>2. /\ mine \subseteq ItemIds
      /\ \A id \in mine : id \in DOMAIN rows /\ rows[id].owner = c.owner
  BY DEF OwnedBy
<1>3. /\ Typed(session[r]) /\ Tidy(session[r]) /\ Placed(session[r]) /\ RowsHeld
      /\ RowsTyped /\ c \in Commands /\ c \in Command /\ c # None /\ has_item(c)
  BY <1>1, StandingTyped DEF Routed
<1>4. c.op = "update" => c.expense \in DOMAIN session[r].seen
  BY <1>1, <1>3 DEF Placed
<1>5. /\ Typed(listed) /\ Tidy(listed) /\ listed.cmd = c /\ listed.pc = "resolve_item"
      /\ DOMAIN session[r].seen \subseteq DOMAIN listed.seen
      /\ listed.new = session[r].new
  BY <1>1, <1>2, <1>3, Loading, LoadingTyped
<1>6. CASE /\ c.line.item \in mine
           /\ Continue(r, advance(WithItem(given, c.line.item)))
  <2>1. \A id \in {c.line.item} : id \in DOMAIN rows /\ rows[id].owner = c.owner
    BY <1>2, <1>6
  <2>2. /\ Typed(given) /\ Tidy(given) /\ given.cmd = c /\ given.pc = "resolve_item"
        /\ DOMAIN session[r].seen \subseteq DOMAIN given.seen
    BY <1>1, <1>3, <2>1, Loading, LoadingTyped
  <2> HIDE DEF given, mine
  <2> DEFINE l == WithItem(given, c.line.item)
  <2>3. Typed(l) /\ l.cmd = c /\ l.pc = "resolve_item"
    BY <1>2, <1>3, <1>4, <1>6, <2>2, AttachingTyped
  <2>4. Continue(r, advance(l))
    BY <1>6
  <2> HIDE DEF l
  <2> QED BY <1>1, <2>3, <2>4, GoingOnTyped
<1> HIDE DEF listed, mine
<1>7. ASSUME NEW item \in mine, Continue(r, advance(WithItem(listed, item)))
      PROVE  TInv'
  <2> DEFINE l == WithItem(listed, item)
  <2>1. Typed(l) /\ l.cmd = c /\ l.pc = "resolve_item"
    BY <1>2, <1>3, <1>4, <1>5, AttachingTyped
  <2>2. Continue(r, advance(l))
    BY <1>7
  <2> HIDE DEF l
  <2> QED BY <1>1, <2>1, <2>2, GoingOnTyped
<1>8. ASSUME NEW item \in Fresh(ItemIds), c.line.item = None,
             insert(r, item, row, advance(WithItem(Added(listed, item, row), item)))
      PROVE  TInv'
  <2> DEFINE s == Added(listed, item, row)
             l == WithItem(s, item)
  <2>1. /\ item \in ItemIds \ (minted \cup listed.new)
    BY <1>5 DEF Fresh
  <2>2. c.line.name \in Names /\ c.owner \in Owners
    BY <1>3, <1>8, CommandAssumption DEF Command
  <2>3. row \in Row(item)
    BY <2>1, <2>2, BucketTyped
  <2>4. Typed(s) /\ s.cmd = c /\ s.pc = "resolve_item"
    BY <1>5, <2>3, EditingTyped, AddedStays
  <2>5. Tidy(s) /\ DOMAIN s.seen = DOMAIN listed.seen
    BY <1>5, <2>1, AddingBucket
  <2>6. insert(r, item, row, advance(l))
    BY <1>8
  <2> HIDE DEF s, row
  <2>7. Typed(l) /\ l.cmd = c /\ l.pc = "resolve_item"
    BY <1>3, <1>4, <1>5, <2>1, <2>4, <2>5, AttachingTyped
  <2> HIDE DEF l
  <2> QED BY <1>1, <2>6, <2>7, InsertingTyped
<1> QED BY <1>1, <1>6, <1>7, <1>8, EndingTyped
-----------------------------------------------------------------------------
\* The UPDATE of a row gives a row of the same table (repository.py:110-126).
LEMMA UpdatingTyped ==
    ASSUME NEW id \in Ids, NEW s, id \in DOMAIN rows, rows[id] \in Row(id),
           s.now[id] \in Row(id)
    PROVE  update_model(s, id) \in Row(id)
<1> DEFINE u == update_model(s, id)
<1>1. /\ DOMAIN u = DOMAIN rows[id]
      /\ \A c \in DOMAIN rows[id] : u[c] \in {rows[id][c], s.now[id][c]}
      /\ u = [c \in DOMAIN rows[id] |-> u[c]]
  BY DEF update_model
<1> HIDE DEF u
<1>2. CASE id \in CategoryIds \cup ItemIds
  <2>1. Row(id) = [owner : Owners, name : Names, key : Keys, is_archived : BOOLEAN]
    BY <1>2, Rows DEF CategoryRow, ItemRow
  <2>2. /\ DOMAIN u = {"owner", "name", "key", "is_archived"}
        /\ u.owner \in Owners /\ u.name \in Names /\ u.key \in Keys
        /\ u.is_archived \in BOOLEAN
    BY <1>1, <2>1
  <2>3. u = [owner |-> u.owner, name |-> u.name, key |-> u.key,
             is_archived |-> u.is_archived]
    BY <1>1, <2>2
  <2> QED BY <2>1, <2>2, <2>3 DEF u
<1>3. CASE id \in ExpenseIds
  <2>1. rows[id] \in ExpenseRow /\ s.now[id] \in ExpenseRow /\ Row(id) = ExpenseRow
    BY <1>3, Rows
  <2>2. /\ DOMAIN u = {"owner", "category", "item", "quantity", "unit"}
        /\ u.owner \in Owners /\ u.category \in CategoryIds
        /\ u.item \in ItemIds \cup {None} /\ u.quantity \in Quantities \cup {None}
        /\ u.unit \in Units \cup {None}
    BY <1>1, <2>1 DEF ExpenseRow
  <2>3. u = [owner |-> u.owner, category |-> u.category, item |-> u.item,
             quantity |-> u.quantity, unit |-> u.unit]
    BY <1>1, <2>2
  <2> QED BY <2>1, <2>2, <2>3 DEF u, ExpenseRow
<1> QED BY <1>2, <1>3 DEF Ids

\* Writing back (unit_of_work.py:44-70).
LEMMA CommittingTyped ==
    ASSUME TInv, IInv', NEW r \in Requests, commit(r)
    PROVE  TInv'
<1> DEFINE s == session[r]
<1>1. CASE End(r)
  BY <1>1, EndingTyped
<1>2. CASE /\ Dirty(s) \subseteq DOMAIN rows
           /\ rows' = Synchronised(s)
           /\ session' = [session EXCEPT ![r] = Idle]
  <2>1. Typed(s) /\ Tidy(s) /\ RowsHeld /\ RowsTyped
    BY DEF TInv, IInv
  <2>2. ASSUME NEW id \in DOMAIN rows' PROVE rows'[id] \in Row(id)
    <3>1. CASE id \in s.new
      <4>1. rows'[id] = s.now[id] /\ id \in DOMAIN s.now
        BY <1>2, <2>1, <3>1 DEF Synchronised, Tidy
      <4> QED BY <2>1, <4>1 DEF Typed
    <3>2. CASE id \in Dirty(s) \ s.new
      <4>1. rows'[id] = update_model(s, id)
        BY <1>2, <3>2 DEF Synchronised
      <4>2. id \in DOMAIN rows /\ id \in DOMAIN s.now /\ id \in Ids
        BY <1>2, <2>1, <3>2 DEF Dirty, Tidy, RowsHeld
      <4>3. rows[id] \in Row(id) /\ s.now[id] \in Row(id)
        BY <2>1, <4>2 DEF RowsTyped, Typed
      <4> QED BY <4>1, <4>2, <4>3, UpdatingTyped
    <3>3. CASE id \notin Dirty(s) /\ id \notin s.new
      <4>1. id \in DOMAIN rows /\ rows'[id] = rows[id]
        BY <1>2, <3>3 DEF Synchronised
      <4> QED BY <2>1, <4>1 DEF RowsTyped
    <3> QED BY <3>1, <3>2, <3>3
  <2>3. ASSUME NEW q \in Requests PROVE (Typed(session[q]) /\ Routed(session[q]))'
    <3>1. session'[q] = (IF q = r THEN Idle ELSE session[q])
      BY <1>2 DEF TInv, IInv
    <3>2. PICK x : x = session'[q] /\ Typed(x) /\ Routed(x)
      BY <3>1, IdleIsTyped DEF TInv
    <3> QED BY <3>2 DEF Typed, Routed
  <2>4. RowsTyped'
    BY <2>2 DEF RowsTyped
  <2> QED BY <2>3, <2>4 DEF TInv
<1> QED BY <1>1, <1>2 DEF commit
-----------------------------------------------------------------------------
\* No statement, crash or commit, of any request, breaks the invariant.
LEMMA TInvStep == TInv /\ [Next]_vars => TInv'
<1> SUFFICES ASSUME TInv, [Next]_vars PROVE TInv'
  OBVIOUS
<1>1. IInv'
  BY IInvStep DEF TInv
<1>2. CASE UNCHANGED vars
  <2>1. RowsTyped'
    BY <1>2 DEF vars, TInv, RowsTyped
  <2>2. ASSUME NEW q \in Requests PROVE (Typed(session[q]) /\ Routed(session[q]))'
    <3>1. PICK x : x = session'[q] /\ Typed(x) /\ Routed(x)
      BY <1>2 DEF vars, TInv
    <3> QED BY <3>1 DEF Typed, Routed
  <2> QED BY <1>1, <2>1, <2>2 DEF TInv
<1>3. ASSUME NEW r \in Requests, NEW c \in Commands, begin(r, c) PROVE TInv'
  BY <1>1, <1>3, BeginningTyped
<1>4. ASSUME NEW r \in Requests, statement(r) PROVE TInv'
  BY <1>1, <1>4, GettingExpenseTyped, UsingCategoryTyped, ResolvingItemTyped,
     InsertingExpenseTyped, GettingCategoryTyped, ListingCategoriesTyped,
     InsertingBucketTyped, CountingForCategoryTyped, GettingItemTyped,
     ListingItemsTyped, CountingForItemTyped, CommittingTyped
     DEF statement
<1>5. ASSUME NEW r \in Requests, crash(r) PROVE TInv'
  BY <1>1, <1>5, EndingTyped DEF crash
<1> QED BY <1>2, <1>3, <1>4, <1>5 DEF Next

\* An empty database, no request open.
LEMMA TInvInit == Init => TInv
BY IInvInit, IdleIsTyped DEF Init, TInv, RowsTyped, NoRows

\* However the requests interleave, fail and crash, every committed row is one
\* its table accepts, and a session holds only ids that were committed or that
\* nobody else has (repository.py:60-126).
THEOREM WellTyped == Spec => []TypeOK
<1>1. TInv => TypeOK
  <2> SUFFICES ASSUME TInv PROVE TypeOK
    OBVIOUS
  <2>1. /\ minted \subseteq Ids /\ DOMAIN rows \subseteq minted
        /\ \A id \in DOMAIN rows : rows[id] \in Row(id)
        /\ DOMAIN session = Requests
    BY DEF TInv, IInv, RowsHeld, RowsTyped
  <2>2. ASSUME NEW r \in Requests
        PROVE  LET s == session[r]
               IN /\ s.cmd \in Commands \cup {None}
                  /\ s.seen # Idle.seen => s.cmd # None
                  /\ DOMAIN s.seen \subseteq minted
                  /\ s.new \subseteq Ids \ minted
                  /\ s.gone \subseteq DOMAIN s.seen
                  /\ DOMAIN s.now = DOMAIN s.seen \cup s.new
                  /\ \A id \in DOMAIN s.now : s.now[id] \in Row(id)
    <3>1. Typed(session[r]) /\ Tidy(session[r])
      BY DEF TInv, IInv
    <3>2. Idle.seen = NoRows
      BY DEF Idle
    <3> QED BY <3>1, <3>2 DEF Typed, Tidy
  <2> QED BY <2>1, <2>2 DEF TypeOK
<1> QED BY <1>1, TInvInit, TInvStep, PTL DEF Spec
-----------------------------------------------------------------------------
(* One item a name.  The database compares keys, so the invariant says     *)
(* that the key of an item follows its name, in the table and in whatever  *)
(* session holds it: no use case renames an item.                          *)

NameKeyed(row) == {"name", "key"} \subseteq DOMAIN row /\ row.key = KeyOf[row.name]

SameName(row, other) == /\ {"name", "key"} \subseteq DOMAIN row
                        /\ row.name = other.name /\ row.key = other.key

Keyed(s) ==
    /\ DOMAIN s = Fields
    /\ \A i \in ItemIds \cap DOMAIN s.now : NameKeyed(s.now[i])
    /\ \A i \in ItemIds \cap DOMAIN s.seen : /\ i \in DOMAIN s.now
                                             /\ SameName(s.now[i], s.seen[i])

RowsKeyed == \A i \in ItemIds \cap DOMAIN rows : NameKeyed(rows[i])

KInv == TInv /\ RowsKeyed /\ NamesUnique(rows) /\ \A r \in Requests : Keyed(session[r])

\* Loading items (repository.py:60-70).
LEMMA LoadingKeyed ==
    ASSUME NEW s, NEW ids, Keyed(s), Tidy(s), RowsHeld, RowsKeyed, ids \subseteq DOMAIN rows
    PROVE  Keyed(rehydrate(s, ids))
<1> DEFINE l == rehydrate(s, ids)
           g == [id \in ids |-> to_domain(rows[id])]
<1>1. /\ DOMAIN l = Fields
      /\ l.seen = Complete(s.seen, ids, rows)
      /\ l.now = Complete(s.now, ids, g)
  BY DEF rehydrate, Keyed, Fields
<1>2. \A i \in ids : i \in DOMAIN s.now <=> i \in DOMAIN s.seen
  BY DEF Tidy, RowsHeld
<1>3. \A i \in ItemIds \cap ids : NameKeyed(to_domain(rows[i])) /\ SameName(to_domain(rows[i]), rows[i])
  BY DEF RowsKeyed, NameKeyed, SameName, to_domain
<1>4. ASSUME NEW i \in ItemIds \cap DOMAIN l.now PROVE NameKeyed(l.now[i])
  <2>1. CASE i \in DOMAIN s.now
    BY <1>1, <2>1 DEF Complete, Keyed
  <2>2. CASE i \notin DOMAIN s.now
    BY <1>1, <1>3, <2>2 DEF Complete
  <2> QED BY <2>1, <2>2
<1>5. ASSUME NEW i \in ItemIds \cap DOMAIN l.seen
      PROVE  i \in DOMAIN l.now /\ SameName(l.now[i], l.seen[i])
  <2>1. CASE i \in DOMAIN s.seen
    <3>1. i \in DOMAIN s.now /\ l.seen[i] = s.seen[i] /\ l.now[i] = s.now[i] /\ i \in DOMAIN l.now
      BY <1>1, <2>1 DEF Complete, Keyed
    <3> QED BY <2>1, <3>1 DEF Keyed
  <2>2. CASE i \notin DOMAIN s.seen
    <3>1. i \in ids /\ i \notin DOMAIN s.now
      BY <1>1, <1>2, <2>2 DEF Complete
    <3>2. l.seen[i] = rows[i] /\ l.now[i] = to_domain(rows[i]) /\ i \in DOMAIN l.now
      BY <1>1, <2>2, <3>1 DEF Complete
    <3> QED BY <1>3, <3>1, <3>2
  <2> QED BY <2>1, <2>2
<1> HIDE DEF l
<1>6. Keyed(l)
  BY <1>1, <1>4, <1>5 DEF Keyed
<1> QED BY <1>6 DEF l

\* An edit that names no item anew (item.py:72-128).
LEMMA EditingKeyed ==
    ASSUME NEW s, NEW id, NEW row, Keyed(s),
           id \in ItemIds => id \in DOMAIN s.now /\ SameName(row, s.now[id])
    PROVE  Keyed(Edit(s, id, row))
<1> DEFINE l == Edit(s, id, row)
<1>1. /\ DOMAIN l = Fields /\ l.seen = s.seen
      /\ l.now = Override(s.now, {id}, [i \in {id} |-> row])
  BY DEF Edit, Keyed, Fields
<1>2. /\ DOMAIN l.now = DOMAIN s.now \cup {id} /\ l.now[id] = row
      /\ \A i \in DOMAIN s.now \ {id} : l.now[i] = s.now[i]
  BY <1>1 DEF Override
<1> HIDE DEF l
<1>3. ASSUME NEW i \in ItemIds \cap DOMAIN l.now PROVE NameKeyed(l.now[i])
  BY <1>2 DEF Keyed, NameKeyed, SameName
<1>4. ASSUME NEW i \in ItemIds \cap DOMAIN l.seen
      PROVE  i \in DOMAIN l.now /\ SameName(l.now[i], l.seen[i])
  BY <1>1, <1>2 DEF Keyed, SameName
<1>5. Keyed(l)
  BY <1>1, <1>3, <1>4 DEF Keyed
<1> QED BY <1>5 DEF l

\* A row under an id of nobody's.
LEMMA AddingKeyed ==
    ASSUME NEW s, NEW id, NEW row, Keyed(s), id \notin DOMAIN s.seen,
           id \in ItemIds => NameKeyed(row)
    PROVE  Keyed(Added(s, id, row))
<1> DEFINE l == Added(s, id, row)
<1>1. /\ DOMAIN l = Fields /\ l.seen = s.seen
      /\ l.now = Override(s.now, {id}, [i \in {id} |-> row])
  BY DEF Added, Edit, Keyed, Fields
<1>2. /\ DOMAIN l.now = DOMAIN s.now \cup {id} /\ l.now[id] = row
      /\ \A i \in DOMAIN s.now \ {id} : l.now[i] = s.now[i]
  BY <1>1 DEF Override
<1> HIDE DEF l
<1>3. Keyed(l)
  BY <1>1, <1>2 DEF Keyed
<1> QED BY <1>3 DEF l

\* What else a session notes down names nothing.
LEMMA NotingKeyed ==
    ASSUME NEW s, Keyed(s)
    PROVE  /\ Keyed(advance(s))
           /\ \A id : Keyed(delete(s, id)) /\ Keyed([s EXCEPT !.category = id])
           /\ \A id : Keyed([s EXCEPT !.item = id])
<1>1. /\ DOMAIN advance(s) = Fields /\ advance(s).now = s.now /\ advance(s).seen = s.seen
  BY DEF advance, Keyed, Fields
<1>2. ASSUME NEW id
      PROVE  /\ DOMAIN delete(s, id) = Fields
             /\ delete(s, id).now = s.now /\ delete(s, id).seen = s.seen
             /\ DOMAIN [s EXCEPT !.category = id] = Fields
             /\ [s EXCEPT !.category = id].now = s.now /\ [s EXCEPT !.category = id].seen = s.seen
             /\ DOMAIN [s EXCEPT !.item = id] = Fields
             /\ [s EXCEPT !.item = id].now = s.now /\ [s EXCEPT !.item = id].seen = s.seen
  BY DEF delete, Keyed, Fields
<1>3. \A l : DOMAIN l = Fields /\ l.now = s.now /\ l.seen = s.seen => Keyed(l)
  BY DEF Keyed
<1> QED BY <1>1, <1>2, <1>3
-----------------------------------------------------------------------------
\* A request that goes on, ends or begins with such a session.
LEMMA SteppingKeyed ==
    ASSUME KInv, TInv', NEW r \in Requests, NEW s, Continue(r, s), Keyed(s)
    PROVE  KInv'
<1>1. /\ rows' = rows /\ session'[r] = s
      /\ \A q \in Requests \ {r} : session'[q] = session[q]
  BY DEF Continue, KInv, TInv, IInv
<1>2. ASSUME NEW q \in Requests PROVE Keyed(session[q])'
  <2>1. PICK x : x = session'[q] /\ Keyed(x)
    BY <1>1 DEF KInv
  <2> QED BY <2>1 DEF Keyed
<1>3. RowsKeyed' /\ NamesUnique(rows)'
  BY <1>1 DEF KInv, RowsKeyed, NamesUnique
<1> QED BY <1>2, <1>3 DEF KInv

LEMMA EndingKeyed ==
    ASSUME KInv, TInv', NEW r \in Requests, End(r)
    PROVE  KInv'
<1>1. Continue(r, Idle) /\ Keyed(Idle)
  BY DEF End, Continue, Keyed, Idle, NoRows, Fields
<1> QED BY <1>1, SteppingKeyed

LEMMA BeginningKeyed ==
    ASSUME KInv, TInv', NEW r \in Requests, NEW c \in Commands, begin(r, c)
    PROVE  KInv'
<1> DEFINE s == [Idle EXCEPT !.cmd = c, !.pc = first(c)]
<1>1. Continue(r, s)
  BY DEF begin, Continue
<1>2. Keyed(s)
  BY DEF Keyed, Idle, NoRows, Fields
<1> HIDE DEF s
<1> QED BY <1>1, <1>2, SteppingKeyed

\* What a statement finds: its session, and the ids its command names.
LEMMA StandingKeyed ==
    ASSUME KInv, NEW r \in Requests, session[r].pc # "idle"
    PROVE  /\ Keyed(session[r]) /\ Tidy(session[r]) /\ Placed(session[r])
           /\ RowsHeld /\ RowsKeyed
           /\ session[r].cmd.expense \notin ItemIds
           /\ session[r].cmd.category \notin ItemIds
<1>1. session[r].cmd \in Command /\ TInv
  BY StandingTyped DEF KInv
<1>2. session[r].cmd.expense \in ExpenseIds \cup {None}
      /\ session[r].cmd.category \in CategoryIds \cup {None}
  BY <1>1 DEF Command
<1> QED BY <1>1, <1>2, StandingTyped, IdAssumption DEF KInv, Ids

\* The end of a statement that inserts nothing, and of one that does.
LEMMA GoingOnKeyed ==
    ASSUME KInv, TInv', NEW r \in Requests, NEW s,
           End(r) \/ (Continue(r, advance(s)) /\ Keyed(s))
    PROVE  KInv'
BY EndingKeyed, SteppingKeyed, NotingKeyed

LEMMA InsertingKeyed ==
    ASSUME KInv, TInv', NEW r \in Requests, NEW id, NEW row, NEW s, Keyed(s),
           insert(r, id, row, advance(s))
    PROVE  KInv'
BY GoingOnKeyed DEF insert
-----------------------------------------------------------------------------
\* The statements on an expense and on categories (expenses.py:96-145,
\* categories.py:58-127).
LEMMA OthersKeyed ==
    ASSUME KInv, TInv', NEW r \in Requests,
           \/ get_expense(r) \/ use_category(r)
           \/ get_category(r) \/ list_categories(r) \/ count_for_category(r)
    PROVE  KInv'
<1> DEFINE o == session[r]
           c == session[r].cmd
<1>1. session[r].pc # "idle"
  BY DEF get_expense, use_category, get_category, list_categories, count_for_category
<1>2. /\ Keyed(o) /\ Tidy(o) /\ RowsHeld /\ RowsKeyed
      /\ c.expense \notin ItemIds /\ c.category \notin ItemIds
  BY <1>1, StandingKeyed
<1>3. CASE get_expense(r)
  <2> DEFINE s == rehydrate(o, {c.expense})
  <2>1. PICK l : \/ End(r)
                 \/ /\ Continue(r, advance(l)) /\ {c.expense} \subseteq DOMAIN rows
                    /\ \/ l = delete(s, c.expense)
                       \/ \E row : l = Edit(s, c.expense, row)
                       \/ l = s
    BY <1>3 DEF get_expense, Proceed, OwnedBy
  <2>2. ~End(r) => Keyed(s)
    BY <1>2, <2>1, LoadingKeyed
  <2> HIDE DEF s
  <2> QED BY <1>2, <2>1, <2>2, EditingKeyed, NotingKeyed, GoingOnKeyed
<1>4. CASE use_category(r)
  <2> DEFINE h == rehydrate(o, {c.category})
             s == [h EXCEPT !.category = c.category]
  <2>1. PICK l : \/ End(r)
                 \/ /\ Continue(r, advance(l)) /\ {c.category} \subseteq DOMAIN rows
                    /\ l = s \/ \E row : l = Edit(s, c.expense, row)
    BY <1>4 DEF use_category, Proceed, OwnedBy
  <2>2. ~End(r) => Keyed(h)
    BY <1>2, <2>1, LoadingKeyed
  <2>3. ~End(r) => Keyed(s)
    BY <2>2, NotingKeyed
  <2> HIDE DEF s
  <2> QED BY <1>2, <2>1, <2>3, EditingKeyed, GoingOnKeyed
<1>5. CASE get_category(r)
  <2> DEFINE s == rehydrate(o, {c.category})
  <2>1. PICK l : \/ End(r)
                 \/ /\ Continue(r, advance(l)) /\ {c.category} \subseteq DOMAIN rows
                    /\ l = s \/ \E row : l = Edit(s, c.category, row)
    BY <1>5 DEF get_category, Proceed, OwnedBy
  <2>2. ~End(r) => Keyed(s)
    BY <1>2, <2>1, LoadingKeyed
  <2> HIDE DEF s
  <2> QED BY <1>2, <2>1, <2>2, EditingKeyed, GoingOnKeyed
<1>6. CASE list_categories(r)
  <2> DEFINE s == rehydrate(o, OwnedBy(c.owner, CategoryIds))
  <2>1. PICK l : \/ End(r)
                 \/ /\ Continue(r, advance(l))
                    /\ l = s \/ \E row : l = Edit(s, c.category, row)
    BY <1>6 DEF list_categories, Proceed
  <2>2. OwnedBy(c.owner, CategoryIds) \subseteq DOMAIN rows
    BY DEF OwnedBy
  <2>3. Keyed(s)
    BY <1>2, <2>2, LoadingKeyed
  <2> HIDE DEF s
  <2> QED BY <1>2, <2>1, <2>3, EditingKeyed, GoingOnKeyed
<1>7. CASE count_for_category(r)
  <2>1. PICK l : \/ End(r)
                 \/ /\ Continue(r, advance(l))
                    /\ l = delete(o, c.category) \/ \E row : l = Edit(o, c.category, row)
    BY <1>7 DEF count_for_category, Proceed
  <2> QED BY <1>2, <2>1, EditingKeyed, NotingKeyed, GoingOnKeyed
<1> QED BY <1>3, <1>4, <1>5, <1>6, <1>7

\* Archiving an item and restoring it leave its name (item.py:118-128).
LEMMA KeepsName ==
    ASSUME NEW row, NameKeyed(row)
    PROVE  SameName(archive(row), row) /\ SameName(restore(row), row)
BY DEF NameKeyed, SameName, archive, restore

\* The statements on items (items.py:62-98).
LEMMA ItemsKeyed ==
    ASSUME KInv, TInv', NEW r \in Requests, get_item(r) \/ list_items(r) \/ count_for_item(r)
    PROVE  KInv'
<1> DEFINE o == session[r]
           c == session[r].cmd
<1>1. session[r].pc # "idle"
  BY DEF get_item, list_items, count_for_item
<1>2. Keyed(o) /\ Tidy(o) /\ Placed(o) /\ RowsHeld /\ RowsKeyed
  BY <1>1, StandingKeyed
<1>3. ASSUME NEW s, Keyed(s), NEW id \in DOMAIN s.seen \cap ItemIds, NEW l,
             \/ l = s \/ l = delete(s, id)
             \/ l = Edit(s, id, archive(s.now[id])) \/ l = Edit(s, id, restore(s.now[id]))
      PROVE  Keyed(l)
  <2>1. id \in DOMAIN s.now /\ NameKeyed(s.now[id])
    BY <1>3 DEF Keyed
  <2>2. \A row : SameName(row, s.now[id]) => Keyed(Edit(s, id, row))
    BY <1>3, <2>1, EditingKeyed
  <2>3. Keyed(Edit(s, id, archive(s.now[id]))) /\ Keyed(Edit(s, id, restore(s.now[id])))
    BY <2>1, <2>2, KeepsName
  <2>4. Keyed(delete(s, id))
    BY <1>3, NotingKeyed
  <2> QED BY <1>3, <2>3, <2>4
<1>4. CASE get_item(r)
  <2> DEFINE s == rehydrate(o, {c.item})
  <2>1. PICK l : \/ End(r)
                 \/ /\ Continue(r, advance(l)) /\ c.item \in OwnedBy(c.owner, ItemIds)
                    /\ \/ l = s \/ l = Edit(s, c.item, archive(s.now[c.item]))
                       \/ l = Edit(s, c.item, restore(s.now[c.item]))
    BY <1>4 DEF get_item, Proceed
  <2>2. CASE ~End(r)
    <3>1. c.item \in DOMAIN rows /\ c.item \in ItemIds
      BY <2>1, <2>2 DEF OwnedBy
    <3>2. Keyed(s)
      BY <1>2, <3>1, LoadingKeyed
    <3>3. c.item \in DOMAIN s.seen
      BY <1>2 DEF rehydrate, Complete, Keyed, Fields
    <3> HIDE DEF s
    <3>4. Keyed(l)
      BY <1>3, <2>1, <2>2, <3>1, <3>2, <3>3
    <3> QED BY <2>1, <3>4, GoingOnKeyed
  <2> QED BY <2>2, EndingKeyed
<1>5. CASE list_items(r)
  <2> DEFINE s == rehydrate(o, OwnedBy(c.owner, ItemIds))
  <2>1. End(r) \/ Continue(r, advance(s))
    BY <1>5 DEF list_items, Proceed
  <2>2. OwnedBy(c.owner, ItemIds) \subseteq DOMAIN rows
    BY DEF OwnedBy
  <2>3. Keyed(s)
    BY <1>2, <2>2, LoadingKeyed
  <2> HIDE DEF s
  <2> QED BY <2>1, <2>3, GoingOnKeyed
<1>6. CASE count_for_item(r)
  <2>1. PICK l : \/ End(r)
                 \/ /\ Continue(r, advance(l)) /\ o.pc = "count_for_item"
                    /\ l = delete(o, c.item) \/ l = Edit(o, c.item, archive(o.now[c.item]))
    BY <1>6 DEF count_for_item, Proceed
  <2>2. CASE ~End(r)
    <3>1. c.item \in DOMAIN o.seen
      BY <1>2, <2>1, <2>2 DEF Placed
    <3>2. CASE c.item \in ItemIds
      BY <1>2, <1>3, <2>1, <2>2, <3>1, <3>2, GoingOnKeyed
    <3>3. CASE c.item \notin ItemIds
      BY <1>2, <2>1, <2>2, <3>3, EditingKeyed, NotingKeyed, GoingOnKeyed
    <3> QED BY <3>2, <3>3
  <2> QED BY <2>2, EndingKeyed
<1> QED BY <1>4, <1>5, <1>6

\* A new item has the key of its name (item.py:49-70).
LEMMA BucketKeyed == \A owner, name : NameKeyed(NewBucket(owner, name))
BY DEF NameKeyed, NewBucket

\* The inserts (expenses.py:106-118, categories.py:50-56, items.py:90-98).
LEMMA InsertsKeyed ==
    ASSUME KInv, TInv', NEW r \in Requests,
           insert_expense(r) \/ insert_category(r) \/ insert_item(r)
    PROVE  KInv'
<1> DEFINE o == session[r]
<1>1. PICK id, row : /\ id \in Ids \ minted /\ o.pc # "idle"
                     /\ id \in ItemIds => NameKeyed(row)
                     /\ insert(r, id, row, advance(Added(o, id, row)))
  <2>1. CASE insert_expense(r)
    <3>1. PICK e, row : /\ e \in Fresh(ExpenseIds) /\ o.pc = "insert_expense"
                        /\ insert(r, e, row, advance(Added(o, e, row)))
      BY <2>1 DEF insert_expense
    <3>2. e \in Ids /\ e \notin ItemIds /\ e \notin minted
      BY <3>1, IdAssumption DEF Fresh, Ids
    <3> QED BY <3>1, <3>2
  <2>2. CASE insert_category(r)
    <3> DEFINE row == NewBucket(o.cmd.owner, o.cmd.name)
    <3>1. PICK id \in Fresh(CategoryIds) : /\ o.pc = "insert_category"
                                           /\ insert(r, id, row, advance(Added(o, id, row)))
      BY <2>2 DEF insert_category
    <3>2. id \in Ids /\ id \notin minted /\ NameKeyed(row)
      BY BucketKeyed DEF Fresh, Ids
    <3> HIDE DEF row
    <3> QED BY <3>1, <3>2
  <2>3. CASE insert_item(r)
    <3> DEFINE row == NewBucket(o.cmd.owner, o.cmd.name)
    <3>1. PICK id \in Fresh(ItemIds) : /\ o.pc = "insert_item"
                                       /\ insert(r, id, row, advance(Added(o, id, row)))
      BY <2>3 DEF insert_item
    <3>2. id \in Ids /\ id \notin minted /\ NameKeyed(row)
      BY BucketKeyed DEF Fresh, Ids
    <3> HIDE DEF row
    <3> QED BY <3>1, <3>2
  <2> QED BY <2>1, <2>2, <2>3
<1>2. Keyed(o) /\ id \notin DOMAIN o.seen
  BY <1>1, StandingKeyed DEF Tidy
<1>3. Keyed(Added(o, id, row))
  BY <1>1, <1>2, AddingKeyed
<1> QED BY <1>1, <1>3, InsertingKeyed

\* Finding or making the item of a line (items.py:100-133).
LEMMA ResolvingKeyed ==
    ASSUME KInv, TInv', NEW r \in Requests, resolve_item(r)
    PROVE  KInv'
<1> DEFINE o      == session[r]
           c      == session[r].cmd
           mine   == OwnedBy(c.owner, ItemIds)
           listed == rehydrate(o, mine)
           given  == rehydrate(o, {c.line.item})
           row    == NewBucket(c.owner, c.line.name)
<1>1. /\ o.pc # "idle"
      /\ \/ End(r)
         \/ c.line.item \in mine /\ Continue(r, advance(WithItem(given, c.line.item)))
         \/ \E item : Continue(r, advance(WithItem(listed, item)))
         \/ \E item \in Fresh(ItemIds) :
               insert(r, item, row, advance(WithItem(Added(listed, item, row), item)))
  BY DEF resolve_item, Proceed
<1>2. Keyed(o) /\ Tidy(o) /\ RowsHeld /\ RowsKeyed /\ c.expense \notin ItemIds
  BY <1>1, StandingKeyed
<1>3. mine \subseteq DOMAIN rows /\ \A id \in mine : rows[id].owner = c.owner
  BY DEF OwnedBy
<1>4. Keyed(listed) /\ listed.cmd = c /\ DOMAIN listed.seen \subseteq minted
  <2>1. Keyed(listed)
    BY <1>2, <1>3, LoadingKeyed
  <2>2. Tidy(listed) /\ listed.cmd = c
    BY <1>2, <1>3, Loading
  <2> QED BY <2>1, <2>2 DEF Tidy
<1>5. c.line.item \in mine => Keyed(given) /\ given.cmd = c
  <2>1. c.line.item \in mine => {c.line.item} \subseteq DOMAIN rows
    BY <1>3
  <2>2. given.cmd = c
    BY <1>2 DEF rehydrate, Keyed, Fields
  <2> QED BY <1>2, <2>1, <2>2, LoadingKeyed
<1>6. ASSUME NEW s, Keyed(s), s.cmd = c, NEW item PROVE Keyed(WithItem(s, item))
  <2>1. \/ WithItem(s, item) = [s EXCEPT !.item = item]
        \/ \E x : WithItem(s, item) = Edit(s, c.expense, x)
    BY <1>6 DEF WithItem
  <2> QED BY <1>2, <1>6, <2>1, EditingKeyed, NotingKeyed
<1>7. ASSUME NEW item \in Fresh(ItemIds)
      PROVE  Keyed(Added(listed, item, row)) /\ Added(listed, item, row).cmd = c
  <2>1. item \notin DOMAIN listed.seen /\ NameKeyed(row)
    BY <1>4, BucketKeyed DEF Fresh
  <2> HIDE DEF listed, row
  <2>2. Added(listed, item, row).cmd = listed.cmd
    BY <1>4 DEF Added, Edit, Keyed, Fields
  <2> QED BY <1>4, <2>1, <2>2, AddingKeyed
<1> HIDE DEF listed, given, mine, row
<1>8. ASSUME NEW item, Continue(r, advance(WithItem(listed, item))) PROVE KInv'
  BY <1>4, <1>6, <1>8, GoingOnKeyed
<1>9. ASSUME NEW item \in Fresh(ItemIds),
             insert(r, item, row, advance(WithItem(Added(listed, item, row), item)))
      PROVE  KInv'
  BY <1>6, <1>7, <1>9, InsertingKeyed
<1>10. CASE c.line.item \in mine /\ Continue(r, advance(WithItem(given, c.line.item)))
  BY <1>5, <1>6, <1>10, GoingOnKeyed
<1> QED BY <1>1, <1>8, <1>9, <1>10, EndingKeyed
-----------------------------------------------------------------------------
\* A write-back leaves an item the name and the key it finds.
LEMMA UpdatingKeyed ==
    ASSUME NEW s, NEW i \in ItemIds \cap DOMAIN s.seen, Keyed(s), NameKeyed(rows[i])
    PROVE  NameKeyed(update_model(s, i))
<1>1. SameName(s.now[i], s.seen[i])
  BY DEF Keyed
<1> QED BY <1>1 DEF update_model, NameKeyed, SameName

\* What a commit leaves has passed the constraints (models.py:79).
LEMMA CommittingKeyed ==
    ASSUME KInv, TInv', NEW r \in Requests, commit(r)
    PROVE  KInv'
<1> DEFINE s == session[r]
<1>1. CASE End(r)
  BY <1>1, EndingKeyed
<1>2. CASE /\ Dirty(s) \subseteq DOMAIN rows
           /\ Constraints(Synchronised(s))
           /\ rows' = Synchronised(s)
           /\ session' = [session EXCEPT ![r] = Idle]
  <2>1. Keyed(s) /\ Tidy(s) /\ RowsKeyed
    BY DEF KInv, TInv, IInv
  <2>2. ASSUME NEW i \in ItemIds \cap DOMAIN rows' PROVE NameKeyed(rows'[i])
    <3>1. CASE i \in s.new
      <4>1. rows'[i] = s.now[i] /\ i \in DOMAIN s.now
        BY <1>2, <2>1, <3>1 DEF Synchronised, Tidy
      <4> QED BY <2>1, <4>1 DEF Keyed
    <3>2. CASE i \in Dirty(s) \ s.new
      <4>1. rows'[i] = update_model(s, i)
        BY <1>2, <3>2 DEF Synchronised
      <4>2. i \in DOMAIN rows /\ i \in DOMAIN s.seen
        BY <1>2, <3>2 DEF Dirty
      <4> QED BY <2>1, <4>1, <4>2, UpdatingKeyed DEF RowsKeyed
    <3>3. CASE i \notin Dirty(s) /\ i \notin s.new
      <4>1. i \in DOMAIN rows /\ rows'[i] = rows[i]
        BY <1>2, <3>3 DEF Synchronised
      <4> QED BY <2>1, <4>1 DEF RowsKeyed
    <3> QED BY <3>1, <3>2, <3>3
  <2>3. ASSUME NEW q \in Requests PROVE Keyed(session[q])'
    <3>1. session'[q] = (IF q = r THEN Idle ELSE session[q])
      BY <1>2 DEF KInv, TInv, IInv
    <3>2. Keyed(Idle)
      BY DEF Keyed, Idle, NoRows, Fields
    <3>3. PICK x : x = session'[q] /\ Keyed(x)
      BY <3>1, <3>2 DEF KInv
    <3> QED BY <3>3 DEF Keyed
  <2>4. NamesUnique(rows)'
    BY <1>2 DEF Constraints, NamesUnique
  <2>5. RowsKeyed'
    BY <2>2 DEF RowsKeyed
  <2> QED BY <2>3, <2>4, <2>5 DEF KInv
<1> QED BY <1>1, <1>2 DEF commit

LEMMA KInvStep == KInv /\ [Next]_vars => KInv'
<1> SUFFICES ASSUME KInv, [Next]_vars PROVE KInv'
  OBVIOUS
<1>1. TInv'
  BY TInvStep DEF KInv
<1>2. CASE UNCHANGED vars
  <2>1. RowsKeyed' /\ NamesUnique(rows)'
    BY <1>2 DEF vars, KInv, RowsKeyed, NamesUnique
  <2>2. ASSUME NEW q \in Requests PROVE Keyed(session[q])'
    <3>1. PICK x : x = session'[q] /\ Keyed(x)
      BY <1>2 DEF vars, KInv
    <3> QED BY <3>1 DEF Keyed
  <2> QED BY <1>1, <2>1, <2>2 DEF KInv
<1>3. ASSUME NEW r \in Requests, NEW c \in Commands, begin(r, c) PROVE KInv'
  BY <1>1, <1>3, BeginningKeyed
<1>4. ASSUME NEW r \in Requests, statement(r) PROVE KInv'
  BY <1>1, <1>4, OthersKeyed, ItemsKeyed, InsertsKeyed, ResolvingKeyed, CommittingKeyed
     DEF statement
<1>5. ASSUME NEW r \in Requests, crash(r) PROVE KInv'
  BY <1>1, <1>5, EndingKeyed DEF crash
<1> QED BY <1>2, <1>3, <1>4, <1>5 DEF Next

LEMMA KInvInit == Init => KInv
<1> SUFFICES ASSUME Init PROVE KInv
  OBVIOUS
<1>1. Keyed(Idle)
  BY DEF Keyed, Idle, NoRows, Fields
<1>2. RowsKeyed /\ NamesUnique(rows)
  BY DEF Init, RowsKeyed, NamesUnique, NoRows
<1> QED BY <1>1, <1>2, TInvInit DEF Init, KInv

\* However many requests add an item of one name at once, one of them does: the
\* others wait for its key, and then find it taken (items.py:116-131).
THEOREM OneEach == Spec => []OneItemPerName
<1>1. KInv => OneItemPerName
  BY DEF KInv, RowsKeyed, NameKeyed, NamesUnique, OneItemPerName
<1> QED BY <1>1, KInvInit, KInvStep, PTL DEF Spec
-----------------------------------------------------------------------------
(* No commit writes what its request did not ask for.  A session answers   *)
(* its command: what it holds differs from what it loaded in the columns   *)
(* the command is about, and it deletes what the command names.            *)

Deletes == {"delete", "remove_category", "remove_item"}

\* row is other, but for the columns a command may change in id.
Within(c, id, row, other) ==
    /\ DOMAIN row = DOMAIN other
    /\ \A col \in DOMAIN other \ {"key"} : row[col] # other[col] => col \in Asked(c, id)

Answers(s) ==
    /\ DOMAIN s = Fields
    /\ \A id \in DOMAIN s.seen : /\ id \in DOMAIN s.now
                                 /\ Within(s.cmd, id, s.now[id], s.seen[id])
    /\ \A id \in s.gone : /\ s.cmd.op \in Deletes
                          /\ id \in {s.cmd.expense, s.cmd.category, s.cmd.item}

\* Which use case counts.
Counting(s) == /\ s.pc = "count_for_category" => s.cmd.op = "remove_category"
               /\ s.pc = "count_for_item" => s.cmd.op = "remove_item"

AInv == TInv /\ \A r \in Requests : Answers(session[r]) /\ Counting(session[r])

LEMMA LoadingAnswers ==
    ASSUME NEW s, NEW ids, Answers(s), Tidy(s), RowsHeld, ids \subseteq DOMAIN rows
    PROVE  Answers(rehydrate(s, ids)) /\ rehydrate(s, ids).cmd = s.cmd
<1> DEFINE l == rehydrate(s, ids)
           g == [id \in ids |-> to_domain(rows[id])]
<1>1. /\ DOMAIN l = Fields
      /\ l.seen = Complete(s.seen, ids, rows)
      /\ l.now = Complete(s.now, ids, g)
      /\ l.cmd = s.cmd /\ l.gone = s.gone
  BY DEF rehydrate, Answers, Fields
<1>2. \A id \in ids : id \in DOMAIN s.now <=> id \in DOMAIN s.seen
  BY DEF Tidy, RowsHeld
<1>3. \A id \in ids : Within(s.cmd, id, to_domain(rows[id]), rows[id])
  BY DEF Within, to_domain
<1>4. ASSUME NEW id \in DOMAIN l.seen
      PROVE  id \in DOMAIN l.now /\ Within(s.cmd, id, l.now[id], l.seen[id])
  <2>1. CASE id \in DOMAIN s.seen
    <3>1. /\ id \in DOMAIN s.now /\ id \in DOMAIN l.now
          /\ l.seen[id] = s.seen[id] /\ l.now[id] = s.now[id]
      BY <1>1, <2>1 DEF Complete, Answers
    <3> QED BY <2>1, <3>1 DEF Answers
  <2>2. CASE id \notin DOMAIN s.seen
    <3>1. id \in ids /\ id \notin DOMAIN s.now
      BY <1>1, <1>2, <2>2 DEF Complete
    <3>2. l.seen[id] = rows[id] /\ l.now[id] = to_domain(rows[id]) /\ id \in DOMAIN l.now
      BY <1>1, <2>2, <3>1 DEF Complete
    <3> QED BY <1>3, <3>1, <3>2
  <2> QED BY <2>1, <2>2
<1> HIDE DEF l
<1>5. Answers(l)
  BY <1>1, <1>4 DEF Answers
<1> QED BY <1>1, <1>5 DEF l

\* An edit of what the command is about.
LEMMA EditingAnswers ==
    ASSUME NEW s, NEW id, NEW row, Answers(s),
           id \in DOMAIN s.seen => Within(s.cmd, id, row, s.now[id])
    PROVE  Answers(Edit(s, id, row)) /\ Edit(s, id, row).cmd = s.cmd
<1> DEFINE l == Edit(s, id, row)
<1>1. /\ DOMAIN l = Fields /\ l.seen = s.seen /\ l.cmd = s.cmd /\ l.gone = s.gone
      /\ l.now = Override(s.now, {id}, [i \in {id} |-> row])
  BY DEF Edit, Answers, Fields
<1>2. /\ DOMAIN l.now = DOMAIN s.now \cup {id} /\ l.now[id] = row
      /\ \A i \in DOMAIN s.now \ {id} : l.now[i] = s.now[i]
  BY <1>1 DEF Override
<1> HIDE DEF l
<1>3. ASSUME NEW i \in DOMAIN l.seen
      PROVE  i \in DOMAIN l.now /\ Within(s.cmd, i, l.now[i], l.seen[i])
  <2>1. i \in DOMAIN s.now /\ Within(s.cmd, i, s.now[i], s.seen[i])
    BY <1>1 DEF Answers
  <2>2. CASE i = id
    BY <1>1, <1>2, <2>1, <2>2 DEF Within
  <2>3. CASE i # id
    BY <1>1, <1>2, <2>1, <2>3
  <2> QED BY <2>2, <2>3
<1>4. Answers(l)
  BY <1>1, <1>3 DEF Answers
<1> QED BY <1>1, <1>4 DEF l

\* A row of the session's own, which no commit overwrites.
LEMMA AddingAnswers ==
    ASSUME NEW s, NEW id, NEW row, Answers(s), id \notin DOMAIN s.seen
    PROVE  Answers(Added(s, id, row)) /\ Added(s, id, row).cmd = s.cmd
<1> DEFINE e == Edit(s, id, row)
           l == Added(s, id, row)
<1>1. Answers(e) /\ e.cmd = s.cmd
  BY EditingAnswers
<1> HIDE DEF e
<1>2. /\ DOMAIN l = Fields /\ l.seen = e.seen /\ l.now = e.now
      /\ l.cmd = e.cmd /\ l.gone = e.gone
  BY <1>1 DEF Added, Answers, Fields, e
<1> HIDE DEF l
<1>3. Answers(l) /\ l.cmd = s.cmd
  BY <1>1, <1>2 DEF Answers
<1> QED BY <1>3 DEF l

\* Going on, deleting what is named, and noting down.
LEMMA NotingAnswers ==
    ASSUME NEW s, Answers(s)
    PROVE  /\ Answers(advance(s))
           /\ \A id : Answers([s EXCEPT !.category = id]) /\ Answers([s EXCEPT !.item = id])
           /\ \A id : /\ s.cmd.op \in Deletes
                      /\ id \in {s.cmd.expense, s.cmd.category, s.cmd.item}
                      => Answers(delete(s, id))
<1>1. \A l : /\ DOMAIN l = Fields /\ l.seen = s.seen /\ l.now = s.now /\ l.cmd = s.cmd
             /\ l.gone = s.gone
             => Answers(l)
  BY DEF Answers
<1>2. Answers(advance(s))
  <2>1. /\ DOMAIN advance(s) = Fields /\ advance(s).seen = s.seen /\ advance(s).now = s.now
        /\ advance(s).cmd = s.cmd /\ advance(s).gone = s.gone
    BY DEF advance, Answers, Fields
  <2> QED BY <1>1, <2>1
<1>3. ASSUME NEW id PROVE Answers([s EXCEPT !.category = id]) /\ Answers([s EXCEPT !.item = id])
  BY <1>1 DEF Answers, Fields
<1>4. ASSUME NEW id, s.cmd.op \in Deletes, id \in {s.cmd.expense, s.cmd.category, s.cmd.item}
      PROVE  Answers(delete(s, id))
  <2>1. /\ DOMAIN delete(s, id) = Fields /\ delete(s, id).seen = s.seen
        /\ delete(s, id).now = s.now /\ delete(s, id).cmd = s.cmd
        /\ delete(s, id).gone = s.gone \cup {id}
    BY DEF delete, Answers, Fields
  <2> QED BY <1>4, <2>1 DEF Answers
<1> QED BY <1>2, <1>3, <1>4
-----------------------------------------------------------------------------
\* What a command is about (commands.py).
LEMMA AskedFor ==
    ASSUME NEW c \in Command
    PROVE  /\ c.category # None => "category" \in Asked(c, c.expense)
           /\ c.line # None => {"item", "quantity", "unit"} \subseteq Asked(c, c.expense)
           /\ \A id \in {c.category, c.item} \cap (CategoryIds \cup ItemIds) :
                 /\ c.op = "rename_category" => "name" \in Asked(c, id)
                 /\ c.op \in {"archive_category", "archive_item", "remove_category",
                              "remove_item", "restore_category", "restore_item"}
                    => "is_archived" \in Asked(c, id)
<1>1. c.expense \notin CategoryIds \cup ItemIds
  BY IdAssumption DEF Command, Ids
<1>2. ASSUME NEW id \in {c.category, c.item} \cap (CategoryIds \cup ItemIds)
      PROVE  /\ c.op = "rename_category" => "name" \in Asked(c, id)
             /\ c.op \in {"archive_category", "archive_item", "remove_category",
                          "remove_item", "restore_category", "restore_item"}
                => "is_archived" \in Asked(c, id)
  BY <1>1, <1>2 DEF Asked
<1>3. /\ c.category # None => "category" \in Asked(c, c.expense)
      /\ c.line # None => {"item", "quantity", "unit"} \subseteq Asked(c, c.expense)
  BY DEF Asked
<1> QED BY <1>2, <1>3

\* Every edit changes the columns it is named for.
LEMMA EditsWithin ==
    ASSUME NEW c, NEW id, NEW e
    PROVE  /\ "category" \in Asked(c, id) => \A x : Within(c, id, recategorise(e, x), e)
           /\ {"item", "quantity", "unit"} \subseteq Asked(c, id) =>
                 /\ Within(c, id, clear_item(e), e)
                 /\ \A item, line : Within(c, id, set_item(e, item, line), e)
           /\ "name" \in Asked(c, id) => \A name : Within(c, id, rename(e, name), e)
           /\ "is_archived" \in Asked(c, id) => /\ Within(c, id, archive(e), e)
                                               /\ Within(c, id, restore(e), e)
BY DEF Within, recategorise, clear_item, set_item, rename, archive, restore

\* The steps of a request, as before.
LEMMA SteppingAnswers ==
    ASSUME AInv, TInv', NEW r \in Requests, NEW s, Continue(r, s), Answers(s), Counting(s)
    PROVE  AInv'
<1>1. /\ session'[r] = s
      /\ \A q \in Requests \ {r} : session'[q] = session[q]
  BY DEF Continue, AInv, TInv, IInv
<1>2. ASSUME NEW q \in Requests PROVE (Answers(session[q]) /\ Counting(session[q]))'
  <2>1. PICK x : x = session'[q] /\ Answers(x) /\ Counting(x)
    BY <1>1 DEF AInv
  <2> QED BY <2>1 DEF Answers, Within, Asked, Counting
<1> QED BY <1>2 DEF AInv

LEMMA IdleAnswers == Answers(Idle) /\ Counting(Idle)
BY DEF Answers, Counting, Idle, NoRows, Fields

LEMMA EndingAnswers ==
    ASSUME AInv, TInv', NEW r \in Requests, End(r)
    PROVE  AInv'
<1>1. Continue(r, Idle)
  BY DEF End, Continue
<1> QED BY <1>1, IdleAnswers, SteppingAnswers

LEMMA BeginningAnswers ==
    ASSUME AInv, TInv', NEW r \in Requests, NEW c \in Commands, begin(r, c)
    PROVE  AInv'
<1> DEFINE s == [Idle EXCEPT !.cmd = c, !.pc = first(c)]
<1>1. Continue(r, s)
  BY DEF begin, Continue
<1>2. DOMAIN s = Fields /\ s.seen = NoRows /\ s.gone = {} /\ s.pc = first(c)
  BY DEF Idle, Fields
<1>3. c.op \in Ops
  BY CommandAssumption DEF Command
<1>4. first(c) \notin {"count_for_category", "count_for_item"}
  BY <1>3 DEF first, Ops
<1> HIDE DEF s
<1>5. Answers(s) /\ Counting(s)
  BY <1>2, <1>4 DEF Answers, Counting, NoRows
<1> QED BY <1>1, <1>5, SteppingAnswers

LEMMA GoingOnAnswers ==
    ASSUME AInv, TInv', NEW r \in Requests, NEW s,
           End(r) \/ (Continue(r, advance(s)) /\ Answers(s))
    PROVE  AInv'
<1>1. CASE Continue(r, advance(s)) /\ Answers(s)
  <2>1. advance(s).pc = next(s.cmd, s.pc) /\ advance(s).cmd = s.cmd
    BY <1>1 DEF advance, Answers, Fields
  <2>2. /\ next(s.cmd, s.pc) = "count_for_category" => s.cmd.op = "remove_category"
        /\ next(s.cmd, s.pc) = "count_for_item" => s.cmd.op = "remove_item"
    BY DEF next
  <2>3. Counting(advance(s))
    BY <2>1, <2>2 DEF Counting
  <2> QED BY <1>1, <2>3, NotingAnswers, SteppingAnswers
<1> QED BY <1>1, EndingAnswers

LEMMA InsertingAnswers ==
    ASSUME AInv, TInv', NEW r \in Requests, NEW id, NEW row, NEW s, Answers(s),
           insert(r, id, row, advance(s))
    PROVE  AInv'
BY GoingOnAnswers DEF insert

LEMMA StandingAnswers ==
    ASSUME AInv, NEW r \in Requests, session[r].pc # "idle"
    PROVE  LET o == session[r]
           IN /\ Answers(o) /\ Counting(o) /\ Tidy(o) /\ Placed(o) /\ Routed(o) /\ RowsHeld
              /\ o.cmd \in Command
              /\ \A id \in DOMAIN o.seen :
                    /\ id = o.cmd.category => id \in CategoryIds
                    /\ id = o.cmd.item => id \in ItemIds
<1>1. /\ TInv /\ Answers(session[r]) /\ Counting(session[r])
      /\ session[r].cmd \in Command /\ Tidy(session[r]) /\ Placed(session[r])
      /\ Routed(session[r]) /\ RowsHeld
  BY StandingTyped DEF AInv
<1>2. DOMAIN session[r].seen \subseteq Ids
  BY <1>1 DEF Tidy, RowsHeld
<1> QED BY <1>1, <1>2, IdAssumption DEF Command
-----------------------------------------------------------------------------
\* Loading, re-filing or deleting an expense (expenses.py:96-160).
LEMMA ExpenseAnswers ==
    ASSUME AInv, TInv', NEW r \in Requests, get_expense(r) \/ use_category(r)
    PROVE  AInv'
<1> DEFINE o == session[r]
           c == session[r].cmd
<1>1. session[r].pc # "idle"
  BY DEF get_expense, use_category
<1>2. Answers(o) /\ Tidy(o) /\ RowsHeld /\ c \in Command
  BY <1>1, StandingAnswers
<1>3. CASE get_expense(r)
  <2> DEFINE s == rehydrate(o, {c.expense})
  <2>1. PICK l : \/ End(r)
                 \/ /\ Continue(r, advance(l)) /\ {c.expense} \subseteq DOMAIN rows
                    /\ \/ c.op = "delete" /\ l = delete(s, c.expense)
                       \/ c.line = Clear /\ l = Edit(s, c.expense, clear_item(s.now[c.expense]))
                       \/ l = s
    BY <1>3 DEF get_expense, Proceed, OwnedBy
  <2>2. ~End(r) => Answers(s) /\ s.cmd = c
    BY <1>2, <2>1, LoadingAnswers
  <2> HIDE DEF s
  <2>3. c.line = Clear => Within(c, c.expense, clear_item(s.now[c.expense]), s.now[c.expense])
    BY <1>2, AskedFor, EditsWithin, CommandAssumption
  <2>4. ~End(r) => Answers(l)
    <3>1. CASE c.op = "delete" /\ l = delete(s, c.expense)
      BY <2>2, <3>1, NotingAnswers DEF Deletes
    <3>2. CASE c.line = Clear /\ l = Edit(s, c.expense, clear_item(s.now[c.expense]))
      BY <2>2, <2>3, <3>2, EditingAnswers
    <3> QED BY <2>1, <2>2, <3>1, <3>2
  <2> QED BY <2>1, <2>4, GoingOnAnswers
<1>4. CASE use_category(r)
  <2> DEFINE h == rehydrate(o, {c.category})
             s == [h EXCEPT !.category = c.category]
  <2>1. PICK l : \/ End(r)
                 \/ /\ Continue(r, advance(l)) /\ c.category \in DOMAIN rows
                    /\ \/ l = s
                       \/ l = Edit(s, c.expense, recategorise(s.now[c.expense], c.category))
    BY <1>4 DEF use_category, Proceed, OwnedBy
  <2>2. CASE ~End(r)
    <3>1. Answers(h) /\ h.cmd = c
      BY <1>2, <2>1, <2>2, LoadingAnswers
    <3>2. Answers(s) /\ s.cmd = c
      BY <3>1, NotingAnswers DEF Answers, Fields
    <3>3. c.category # None
      BY <1>2, <2>1, <2>2, IdAssumption DEF RowsHeld
    <3> HIDE DEF s
    <3>4. Within(c, c.expense, recategorise(s.now[c.expense], c.category), s.now[c.expense])
      BY <1>2, <3>3, AskedFor, EditsWithin
    <3>5. Answers(l)
      BY <2>1, <2>2, <3>2, <3>4, EditingAnswers
    <3> QED BY <2>1, <3>5, GoingOnAnswers
  <2> QED BY <2>2, EndingAnswers
<1> QED BY <1>3, <1>4

\* Archiving, restoring, renaming or removing the category or item that is named.
LEMMA HandlingAnswers ==
    ASSUME NEW s, NEW id, NEW l, Answers(s), s.cmd \in Command,
           id \in {s.cmd.category, s.cmd.item} \cap (CategoryIds \cup ItemIds),
           \/ l = s
           \/ s.cmd.op \in Deletes /\ l = delete(s, id)
           \/ /\ s.cmd.op \in {"archive_category", "archive_item", "remove_category",
                               "remove_item", "restore_category", "restore_item"}
              /\ l = Edit(s, id, archive(s.now[id])) \/ l = Edit(s, id, restore(s.now[id]))
           \/ /\ s.cmd.op = "rename_category"
              /\ \E name : l = Edit(s, id, rename(s.now[id], name))
    PROVE  Answers(l)
<1> DEFINE c == s.cmd
<1>1. /\ c.op = "rename_category" => \A name : Within(c, id, rename(s.now[id], name), s.now[id])
      /\ c.op \in {"archive_category", "archive_item", "remove_category",
                   "remove_item", "restore_category", "restore_item"}
         => /\ Within(c, id, archive(s.now[id]), s.now[id])
            /\ Within(c, id, restore(s.now[id]), s.now[id])
  BY AskedFor, EditsWithin
<1> QED BY <1>1, EditingAnswers, NotingAnswers

\* The use cases on categories (categories.py:58-127).
LEMMA CategoriesAnswer ==
    ASSUME AInv, TInv', NEW r \in Requests,
           get_category(r) \/ list_categories(r) \/ count_for_category(r)
    PROVE  AInv'
<1> DEFINE o == session[r]
           c == session[r].cmd
<1>1. o.pc # "idle"
  BY DEF get_category, list_categories, count_for_category
<1>2. /\ Answers(o) /\ Counting(o) /\ Tidy(o) /\ Placed(o) /\ Routed(o) /\ RowsHeld
      /\ c \in Command
      /\ \A id \in DOMAIN o.seen : id = c.category => id \in CategoryIds
  BY <1>1, StandingAnswers
<1>3. CASE get_category(r)
  <2> DEFINE s == rehydrate(o, {c.category})
  <2>1. PICK l : \/ End(r)
                 \/ /\ Continue(r, advance(l)) /\ c.category \in OwnedBy(c.owner, CategoryIds)
                    /\ \/ l = s
                       \/ /\ c.op \in {"archive_category", "restore_category"}
                          /\ \/ l = Edit(s, c.category, archive(s.now[c.category]))
                             \/ l = Edit(s, c.category, restore(s.now[c.category]))
    BY <1>3 DEF get_category, Proceed
  <2>2. CASE ~End(r)
    <3>1. c.category \in DOMAIN rows /\ c.category \in CategoryIds
      BY <2>1, <2>2 DEF OwnedBy
    <3>2. Answers(s) /\ s.cmd = c
      BY <1>2, <3>1, LoadingAnswers
    <3> HIDE DEF s
    <3>3. Answers(l)
      BY <1>2, <2>1, <2>2, <3>1, <3>2, HandlingAnswers
    <3> QED BY <2>1, <3>3, GoingOnAnswers
  <2> QED BY <2>2, EndingAnswers
<1>4. CASE list_categories(r)
  <2> DEFINE s == rehydrate(o, OwnedBy(c.owner, CategoryIds))
  <2>1. PICK l : \/ End(r)
                 \/ /\ Continue(r, advance(l)) /\ o.pc = "list_categories"
                    /\ \/ l = s
                       \/ /\ c.op = "rename_category"
                          /\ l = Edit(s, c.category, rename(s.now[c.category], c.name))
    BY <1>4 DEF list_categories, Proceed
  <2>2. Answers(s) /\ s.cmd = c
    <3>1. OwnedBy(c.owner, CategoryIds) \subseteq DOMAIN rows
      BY DEF OwnedBy
    <3> QED BY <1>2, <3>1, LoadingAnswers
  <2> HIDE DEF s
  <2>3. CASE ~End(r)
    <3>1. CASE l = s
      BY <2>1, <2>2, <3>1, GoingOnAnswers
    <3>2. CASE l # s
      <4>1. c.category \in CategoryIds
        BY <1>2, <2>1, <2>3, <3>2 DEF Placed
      <4>2. Answers(l)
        BY <1>2, <2>1, <2>2, <2>3, <3>2, <4>1, HandlingAnswers
      <4> QED BY <2>1, <4>2, GoingOnAnswers
    <3> QED BY <3>1, <3>2
  <2> QED BY <2>3, EndingAnswers
<1>5. CASE count_for_category(r)
  <2>1. PICK l : \/ End(r)
                 \/ /\ Continue(r, advance(l)) /\ o.pc = "count_for_category"
                    /\ \/ l = delete(o, c.category)
                       \/ l = Edit(o, c.category, archive(o.now[c.category]))
    BY <1>5 DEF count_for_category, Proceed
  <2>2. CASE ~End(r)
    <3>1. c.category \in CategoryIds /\ c.op = "remove_category"
      BY <1>2, <2>1, <2>2 DEF Placed, Counting
    <3>2. Answers(l)
      BY <1>2, <2>1, <2>2, <3>1, HandlingAnswers DEF Deletes
    <3> QED BY <2>1, <3>2, GoingOnAnswers
  <2> QED BY <2>2, EndingAnswers
<1> QED BY <1>3, <1>4, <1>5

\* The use cases on items (items.py:62-98).
LEMMA ItemsAnswer ==
    ASSUME AInv, TInv', NEW r \in Requests, get_item(r) \/ list_items(r) \/ count_for_item(r)
    PROVE  AInv'
<1> DEFINE o == session[r]
           c == session[r].cmd
<1>1. o.pc # "idle"
  BY DEF get_item, list_items, count_for_item
<1>2. /\ Answers(o) /\ Counting(o) /\ Tidy(o) /\ Placed(o) /\ RowsHeld /\ c \in Command
      /\ \A id \in DOMAIN o.seen : id = c.item => id \in ItemIds
  BY <1>1, StandingAnswers
<1>3. CASE get_item(r)
  <2> DEFINE s == rehydrate(o, {c.item})
  <2>1. PICK l : \/ End(r)
                 \/ /\ Continue(r, advance(l)) /\ c.item \in OwnedBy(c.owner, ItemIds)
                    /\ \/ l = s
                       \/ /\ c.op \in {"archive_item", "restore_item"}
                          /\ \/ l = Edit(s, c.item, archive(s.now[c.item]))
                             \/ l = Edit(s, c.item, restore(s.now[c.item]))
    BY <1>3 DEF get_item, Proceed
  <2>2. CASE ~End(r)
    <3>1. c.item \in DOMAIN rows /\ c.item \in ItemIds
      BY <2>1, <2>2 DEF OwnedBy
    <3>2. Answers(s) /\ s.cmd = c
      BY <1>2, <3>1, LoadingAnswers
    <3> HIDE DEF s
    <3>3. Answers(l)
      BY <1>2, <2>1, <2>2, <3>1, <3>2, HandlingAnswers
    <3> QED BY <2>1, <3>3, GoingOnAnswers
  <2> QED BY <2>2, EndingAnswers
<1>4. CASE list_items(r)
  <2> DEFINE s == rehydrate(o, OwnedBy(c.owner, ItemIds))
  <2>1. End(r) \/ Continue(r, advance(s))
    BY <1>4 DEF list_items, Proceed
  <2>2. OwnedBy(c.owner, ItemIds) \subseteq DOMAIN rows
    BY DEF OwnedBy
  <2>3. Answers(s)
    BY <1>2, <2>2, LoadingAnswers
  <2> HIDE DEF s
  <2> QED BY <2>1, <2>3, GoingOnAnswers
<1>5. CASE count_for_item(r)
  <2>1. PICK l : \/ End(r)
                 \/ /\ Continue(r, advance(l)) /\ o.pc = "count_for_item"
                    /\ \/ l = delete(o, c.item)
                       \/ l = Edit(o, c.item, archive(o.now[c.item]))
    BY <1>5 DEF count_for_item, Proceed
  <2>2. CASE ~End(r)
    <3>1. c.item \in ItemIds /\ c.op = "remove_item"
      BY <1>2, <2>1, <2>2 DEF Placed, Counting
    <3>2. Answers(l)
      BY <1>2, <2>1, <2>2, <3>1, HandlingAnswers DEF Deletes
    <3> QED BY <2>1, <3>2, GoingOnAnswers
  <2> QED BY <2>2, EndingAnswers
<1> QED BY <1>3, <1>4, <1>5

\* The inserts (expenses.py:106-118, categories.py:50-56, items.py:90-98).
LEMMA InsertsAnswer ==
    ASSUME AInv, TInv', NEW r \in Requests,
           insert_expense(r) \/ insert_category(r) \/ insert_item(r)
    PROVE  AInv'
<1> DEFINE o == session[r]
<1>1. PICK id, row : /\ o.pc # "idle" /\ id \notin minted
                     /\ insert(r, id, row, advance(Added(o, id, row)))
  BY DEF insert_expense, insert_category, insert_item, Fresh
<1>2. Answers(o) /\ id \notin DOMAIN o.seen
  BY <1>1, StandingAnswers DEF Tidy
<1>3. Answers(Added(o, id, row))
  BY <1>2, AddingAnswers
<1> QED BY <1>1, <1>3, InsertingAnswers

\* Finding or making the item of a line (items.py:100-133).
LEMMA ResolvingAnswers ==
    ASSUME AInv, TInv', NEW r \in Requests, resolve_item(r)
    PROVE  AInv'
<1> DEFINE o      == session[r]
           c      == session[r].cmd
           mine   == OwnedBy(c.owner, ItemIds)
           listed == rehydrate(o, mine)
           given  == rehydrate(o, {c.line.item})
           row    == NewBucket(c.owner, c.line.name)
<1>1. /\ o.pc = "resolve_item"
      /\ \/ End(r)
         \/ c.line.item \in mine /\ Continue(r, advance(WithItem(given, c.line.item)))
         \/ \E item : Continue(r, advance(WithItem(listed, item)))
         \/ \E item \in Fresh(ItemIds) :
               insert(r, item, row, advance(WithItem(Added(listed, item, row), item)))
  BY DEF resolve_item, Proceed
<1>2. Answers(o) /\ Tidy(o) /\ Routed(o) /\ RowsHeld /\ c \in Command
  BY <1>1, StandingAnswers
<1>3. mine \subseteq DOMAIN rows /\ \A id \in mine : rows[id].owner = c.owner
  BY DEF OwnedBy
<1>4. Answers(listed) /\ listed.cmd = c /\ DOMAIN listed.seen \subseteq minted
  <2>1. Answers(listed) /\ listed.cmd = c
    BY <1>2, <1>3, LoadingAnswers
  <2>2. Tidy(listed)
    BY <1>2, <1>3, Loading
  <2> QED BY <2>1, <2>2 DEF Tidy
<1>5. c.line.item \in mine => Answers(given) /\ given.cmd = c
  <2>1. c.line.item \in mine => {c.line.item} \subseteq DOMAIN rows
    BY <1>3
  <2> QED BY <1>2, <2>1, LoadingAnswers
<1>6. c.line # None
  BY <1>1, <1>2 DEF Routed, has_item
<1>7. ASSUME NEW s, Answers(s), s.cmd = c, NEW item PROVE Answers(WithItem(s, item))
  <2>1. \/ WithItem(s, item) = [s EXCEPT !.item = item]
        \/ WithItem(s, item) = Edit(s, c.expense, set_item(s.now[c.expense], item, c.line))
    BY <1>7 DEF WithItem
  <2>2. Within(c, c.expense, set_item(s.now[c.expense], item, c.line), s.now[c.expense])
    BY <1>2, <1>6, AskedFor, EditsWithin
  <2> DEFINE x == [s EXCEPT !.item = item]
  <2>3. CASE WithItem(s, item) = x
    <3>1. Answers(x)
      BY <1>7, NotingAnswers
    <3> HIDE DEF x
    <3> QED BY <2>3, <3>1
  <2> DEFINE e == set_item(s.now[c.expense], item, c.line)
  <2>4. CASE WithItem(s, item) = Edit(s, c.expense, e)
    <3>1. Within(s.cmd, c.expense, e, s.now[c.expense])
      BY <1>7, <2>2
    <3> HIDE DEF e, c
    <3> QED BY <1>7, <2>4, <3>1, EditingAnswers
  <2> QED BY <2>1, <2>3, <2>4
<1>8. ASSUME NEW item \in Fresh(ItemIds)
      PROVE  Answers(Added(listed, item, row)) /\ Added(listed, item, row).cmd = c
  <2>1. item \notin DOMAIN listed.seen
    BY <1>4 DEF Fresh
  <2> HIDE DEF listed, row
  <2> QED BY <1>4, <2>1, AddingAnswers
<1> HIDE DEF listed, given, mine, row
<1>9. ASSUME NEW item, Continue(r, advance(WithItem(listed, item))) PROVE AInv'
  BY <1>4, <1>7, <1>9, GoingOnAnswers
<1>10. ASSUME NEW item \in Fresh(ItemIds),
              insert(r, item, row, advance(WithItem(Added(listed, item, row), item)))
       PROVE  AInv'
  BY <1>7, <1>8, <1>10, InsertingAnswers
<1>11. CASE c.line.item \in mine /\ Continue(r, advance(WithItem(given, c.line.item)))
  BY <1>5, <1>7, <1>11, GoingOnAnswers
<1> QED BY <1>1, <1>9, <1>10, <1>11, EndingAnswers
-----------------------------------------------------------------------------
\* A commit installs what its session holds, and closes it.
LEMMA CommittingAnswers ==
    ASSUME AInv, TInv', NEW r \in Requests, commit(r)
    PROVE  AInv'
<1>1. End(r) \/ session' = [session EXCEPT ![r] = Idle]
  BY DEF commit
<1>2. CASE session' = [session EXCEPT ![r] = Idle]
  <2>1. ASSUME NEW q \in Requests PROVE (Answers(session[q]) /\ Counting(session[q]))'
    <3>1. session'[q] = (IF q = r THEN Idle ELSE session[q])
      BY <1>2 DEF AInv, TInv, IInv
    <3>2. PICK x : x = session'[q] /\ Answers(x) /\ Counting(x)
      BY <3>1, IdleAnswers DEF AInv
    <3> QED BY <3>2 DEF Answers, Within, Asked, Counting
  <2> QED BY <2>1 DEF AInv
<1> QED BY <1>1, <1>2, EndingAnswers

LEMMA AInvStep == AInv /\ [Next]_vars => AInv'
<1> SUFFICES ASSUME AInv, [Next]_vars PROVE AInv'
  OBVIOUS
<1>1. TInv'
  BY TInvStep DEF AInv
<1>2. CASE UNCHANGED vars
  <2>1. ASSUME NEW q \in Requests PROVE (Answers(session[q]) /\ Counting(session[q]))'
    <3>1. PICK x : x = session'[q] /\ Answers(x) /\ Counting(x)
      BY <1>2 DEF vars, AInv
    <3> QED BY <3>1 DEF Answers, Within, Asked, Counting
  <2> QED BY <1>1, <2>1 DEF AInv
<1>3. ASSUME NEW r \in Requests, NEW c \in Commands, begin(r, c) PROVE AInv'
  BY <1>1, <1>3, BeginningAnswers
<1>4. ASSUME NEW r \in Requests, statement(r) PROVE AInv'
  BY <1>1, <1>4, ExpenseAnswers, CategoriesAnswer, ItemsAnswer, InsertsAnswer,
     ResolvingAnswers, CommittingAnswers
     DEF statement
<1>5. ASSUME NEW r \in Requests, crash(r) PROVE AInv'
  BY <1>1, <1>5, EndingAnswers DEF crash
<1> QED BY <1>2, <1>3, <1>4, <1>5 DEF Next

LEMMA AInvInit == Init => AInv
BY TInvInit, IdleAnswers DEF Init, AInv

\* Nothing but a commit changes the rows.
LEMMA OnlyCommitsWrite ==
    ASSUME [Next]_vars, rows' # rows
    PROVE  \E r \in Requests : commit(r)
<1>1. ASSUME NEW r, End(r) PROVE FALSE
  BY <1>1 DEF End
<1>2. ASSUME NEW r, NEW s, Continue(r, s) PROVE FALSE
  BY <1>2 DEF Continue
<1>3. ASSUME NEW r, NEW id, NEW row, NEW s, insert(r, id, row, s) PROVE FALSE
  BY <1>1, <1>2, <1>3 DEF insert
<1>4. ASSUME NEW r \in Requests, statement(r) PROVE commit(r)
  <2>1. ASSUME get_expense(r) \/ use_category(r) PROVE FALSE
    BY <1>1, <1>2, <2>1 DEF get_expense, use_category, Proceed
  <2>2. ASSUME get_category(r) \/ list_categories(r) \/ count_for_category(r) PROVE FALSE
    BY <1>1, <1>2, <2>2 DEF get_category, list_categories, count_for_category, Proceed
  <2>3. ASSUME get_item(r) \/ list_items(r) \/ count_for_item(r) PROVE FALSE
    BY <1>1, <1>2, <2>3 DEF get_item, list_items, count_for_item, Proceed
  <2>4. ASSUME insert_expense(r) \/ insert_category(r) \/ insert_item(r) PROVE FALSE
    BY <1>3, <2>4 DEF insert_expense, insert_category, insert_item
  <2>5. ASSUME resolve_item(r) PROVE FALSE
    BY <1>1, <1>2, <1>3, <2>5 DEF resolve_item, Proceed
  <2> QED BY <1>4, <2>1, <2>2, <2>3, <2>4, <2>5 DEF statement
<1> QED BY <1>1, <1>4 DEF Next, vars, begin, crash

\* What a commit writes (repository.py:93-112, mappers.py:118-132).
LEMMA CommitAnswers ==
    ASSUME AInv, NEW r \in Requests, commit(r), rows' # rows
    PROVE  /\ session[r] # Idle /\ session'[r] = Idle
           /\ AnswersOnly(session[r].cmd)
<1> DEFINE s == session[r]
           c == session[r].cmd
<1>1. /\ s.pc = "commit"
      /\ rows' = Synchronised(s)
      /\ session' = [session EXCEPT ![r] = Idle]
  BY DEF commit, End
<1>2. session[r] # Idle /\ session'[r] = Idle
  BY <1>1 DEF Idle, AInv, TInv, IInv
<1>3. Answers(s) /\ Tidy(s) /\ Typed(s) /\ RowsHeld
  BY <1>1, StandingTyped DEF AInv
<1>4. DOMAIN rows' = (DOMAIN rows \cup s.new) \ s.gone
  BY <1>1 DEF Synchronised
<1>5. \A id \in DOMAIN rows' : rows'[id] = IF id \in s.new THEN s.now[id]
                                          ELSE IF id \in Dirty(s) THEN update_model(s, id)
                                          ELSE rows[id]
  BY <1>1, <1>4 DEF Synchronised
<1>6. s.new \cap DOMAIN rows = {}
  BY <1>3 DEF Tidy, RowsHeld
<1> HIDE DEF s
<1>7. ASSUME NEW id \in DOMAIN rows \cap DOMAIN rows', NEW col \in DOMAIN rows[id] \ {"key"},
             rows'[id][col] # rows[id][col]
      PROVE  col \in Asked(s.cmd, id)
  <2>1. id \in Dirty(s) /\ rows'[id] = update_model(s, id)
    BY <1>5, <1>6, <1>7
  <2>2. id \in DOMAIN s.seen /\ col \in DOMAIN s.seen[id]
    BY <1>3, <1>7, <2>1 DEF Dirty, Tidy
  <2>3. s.now[id][col] # s.seen[id][col]
    BY <1>7, <2>1 DEF update_model
  <2> QED BY <1>3, <1>7, <2>2, <2>3 DEF Answers, Within
<1>8. ASSUME NEW id \in DOMAIN rows' \ DOMAIN rows PROVE rows'[id].owner = s.cmd.owner
  BY <1>3, <1>4, <1>5 DEF Tidy, Held
<1>9. ASSUME NEW id \in DOMAIN rows \ DOMAIN rows'
      PROVE  /\ s.cmd.op \in Deletes
             /\ id \in {s.cmd.expense, s.cmd.category, s.cmd.item}
             /\ rows[id].owner = s.cmd.owner
  BY <1>3, <1>4 DEF Answers, Typed, Tidy
<1>10. AnswersOnly(s.cmd)
  BY <1>7, <1>8, <1>9 DEF AnswersOnly, Deletes
<1> QED BY <1>2, <1>10 DEF s

\* Whatever else changed since a request loaded its rows, its commit changes
\* what the client asked for, in rows of its owner, and nothing else: an
\* UPDATE names the columns that differ from what was loaded
\* (repository.py:93-112).
THEOREM WritesWhatWasAsked == Spec => OnlyWhatWasAsked
<1>1. AInv /\ [Next]_vars
      => [\E r \in Requests : /\ session[r] # Idle /\ session'[r] = Idle
                              /\ AnswersOnly(session[r].cmd)]_rows
  BY OnlyCommitsWrite, CommitAnswers
<1> QED BY <1>1, AInvInit, AInvStep, PTL DEF Spec, OnlyWhatWasAsked
-----------------------------------------------------------------------------
(* What overlapping requests break, and all that is needed to prevent it.  *)

Filing == {"record", "update", "delete"}

\* An expense of session s can be written: it is whole, and what files it anew
\* has looked at the category.
WellFiled(s, e) ==
    LET row == s.now[e]
    IN /\ {"category", "item", "quantity", "unit"} \subseteq DOMAIN row
       /\ row.category \in CategoryIds
       /\ validate_item_line(row)
       /\ e \in s.new \/ row.category # s.seen[e].category
             => row.category \in DOMAIN s.now /\ ~s.now[row.category].is_archived

Sound(s) ==
    /\ DOMAIN s = Fields
    /\ \A c \in CategoryIds \cap DOMAIN s.now : NameKeyed(s.now[c])
    /\ \A e \in ExpenseIds \cap DOMAIN s.now : WellFiled(s, e)
    /\ s.item # None => measured(s.cmd.line)
    /\ s.category # None => /\ s.category \in CategoryIds \cap DOMAIN s.now
                            /\ ~s.now[s.category].is_archived
    /\ s.cmd.op \notin Filing => s.category = None /\ ExpenseIds \cap DOMAIN s.now = {}

\* Which use cases send which statements.
Filed(s) == /\ s.pc \in {"get_expense", "use_category", "resolve_item", "insert_expense"}
                 => s.cmd.op \in Filing
            /\ s.pc \in {"get_category", "list_categories", "count_for_category"}
                 => s.cmd.op \notin Filing

SInv == /\ KInv
        /\ ItemLinesWhole /\ NameKeysFollowNames
        /\ \A r \in Requests : Sound(session[r]) /\ Filed(session[r])
-----------------------------------------------------------------------------
\* What is loaded is as sound as the rows (repository.py:60-70, mappers.py:62-73).
LEMMA LoadingSound ==
    ASSUME NEW s, NEW ids, Sound(s), Tidy(s), RowsHeld, RowsTyped,
           ItemLinesWhole, ids \subseteq DOMAIN rows,
           ids \cap ExpenseIds # {} => s.cmd.op \in Filing
    PROVE  Sound(rehydrate(s, ids))
<1> DEFINE l == rehydrate(s, ids)
           g == [id \in ids |-> to_domain(rows[id])]
<1>1. /\ DOMAIN l = Fields
      /\ l.seen = Complete(s.seen, ids, rows)
      /\ l.now = Complete(s.now, ids, g)
      /\ l.cmd = s.cmd /\ l.new = s.new /\ l.category = s.category /\ l.item = s.item
  BY DEF rehydrate, Sound, Fields
<1>2. \A id \in ids : id \in DOMAIN s.now <=> id \in DOMAIN s.seen
  BY DEF Tidy, RowsHeld
<1>3. /\ DOMAIN l.now = DOMAIN s.now \cup ids
      /\ \A id \in DOMAIN s.now : l.now[id] = s.now[id]
      /\ \A id \in DOMAIN s.seen : l.seen[id] = s.seen[id]
      /\ \A id \in ids \ DOMAIN s.now : l.now[id] = to_domain(rows[id]) /\ l.seen[id] = rows[id]
  <2>1. /\ DOMAIN l.now = DOMAIN s.now \cup ids
        /\ \A id \in DOMAIN s.now : l.now[id] = s.now[id]
        /\ \A id \in DOMAIN s.seen : l.seen[id] = s.seen[id]
    BY <1>1 DEF Complete
  <2>2. ASSUME NEW id \in ids \ DOMAIN s.now
        PROVE  l.now[id] = to_domain(rows[id]) /\ l.seen[id] = rows[id]
    <3>1. id \notin DOMAIN s.seen
      BY <1>2, <2>2
    <3> QED BY <1>1, <2>2, <3>1 DEF Complete
  <2> QED BY <2>1, <2>2
<1>4. \A c \in CategoryIds \cap ids : NameKeyed(to_domain(rows[c]))
  <2>1. ASSUME NEW c \in CategoryIds \cap ids PROVE NameKeyed(to_domain(rows[c]))
    <3>1. rows[c] \in CategoryRow
      BY <2>1, Rows DEF RowsTyped
    <3> QED BY <3>1 DEF CategoryRow, to_domain, NameKeyed
  <2> QED BY <2>1
<1>5. ASSUME NEW e \in ExpenseIds \cap ids
      PROVE  to_domain(rows[e]) = rows[e] /\ rows[e] \in ExpenseRow /\ validate_item_line(rows[e])
  <2>1. rows[e] \in ExpenseRow
    BY <1>5, Rows DEF RowsTyped
  <2> QED BY <1>5, <2>1 DEF ExpenseRow, to_domain, ItemLinesWhole
<1> HIDE DEF l
<1>6. ASSUME NEW e \in ExpenseIds \cap DOMAIN l.now PROVE WellFiled(l, e)
  <2>1. CASE e \in DOMAIN s.now
    <3>1. WellFiled(s, e) /\ l.now[e] = s.now[e]
      BY <1>3, <1>6, <2>1 DEF Sound
    <3>2. e \in s.new \/ (e \in DOMAIN s.seen /\ l.seen[e] = s.seen[e])
      BY <1>3, <2>1 DEF Tidy
    <3> QED BY <1>1, <1>3, <3>1, <3>2 DEF WellFiled
  <2>2. CASE e \notin DOMAIN s.now
    <3>1. e \in ids /\ l.now[e] = rows[e] /\ l.seen[e] = rows[e]
      BY <1>3, <1>5, <1>6, <2>2
    <3>2. e \notin s.new
      BY <2>2 DEF Tidy
    <3> QED BY <1>1, <1>5, <1>6, <3>1, <3>2 DEF WellFiled, ExpenseRow
  <2> QED BY <2>1, <2>2
<1>7. \A c \in CategoryIds \cap DOMAIN l.now : NameKeyed(l.now[c])
  BY <1>3, <1>4 DEF Sound
<1>8. Sound(l)
  BY <1>1, <1>3, <1>6, <1>7 DEF Sound
<1> QED BY <1>8 DEF l

\* An edit, of an expense or of a category.
LEMMA EditingSound ==
    ASSUME NEW s, NEW id, NEW row, Sound(s),
           id \in CategoryIds => NameKeyed(row) /\ s.cmd.op \notin Filing,
           id \in ExpenseIds => /\ s.cmd.op \in Filing
                                /\ WellFiled(Edit(s, id, row), id)
    PROVE  Sound(Edit(s, id, row))
<1> DEFINE l == Edit(s, id, row)
<1>1. /\ DOMAIN l = Fields /\ l.seen = s.seen /\ l.cmd = s.cmd /\ l.new = s.new
      /\ l.category = s.category /\ l.item = s.item
      /\ l.now = Override(s.now, {id}, [i \in {id} |-> row])
  BY DEF Edit, Sound, Fields
<1>2. /\ DOMAIN l.now = DOMAIN s.now \cup {id} /\ l.now[id] = row
      /\ \A i \in DOMAIN s.now \ {id} : l.now[i] = s.now[i]
  BY <1>1 DEF Override
<1> HIDE DEF l
<1>3. id \in ExpenseIds => s.cmd.op \in Filing /\ WellFiled(l, id)
  BY DEF l
<1>4. ASSUME NEW e \in ExpenseIds \cap DOMAIN l.now PROVE WellFiled(l, e)
  <2>1. CASE e # id
    <3>1. WellFiled(s, e) /\ l.now[e] = s.now[e]
      BY <1>2, <1>4, <2>1 DEF Sound
    <3>2. s.cmd.op \in Filing
      BY <1>2, <1>4, <2>1 DEF Sound
    <3>3. s.now[e].category \in CategoryIds /\ id \notin CategoryIds
      BY <3>1, <3>2 DEF WellFiled
    <3>4. s.now[e].category \in DOMAIN s.now => l.now[s.now[e].category] = s.now[s.now[e].category]
      BY <1>2, <3>3
    <3> QED BY <1>1, <1>2, <3>1, <3>4 DEF WellFiled
  <2> QED BY <1>3, <1>4, <2>1
<1>5. s.category # None => l.now[s.category] = s.now[s.category]
  BY <1>2 DEF Sound
<1>6. s.cmd.op \notin Filing => ExpenseIds \cap DOMAIN l.now = {}
  BY <1>2, <1>3 DEF Sound
<1>7. \A c \in CategoryIds \cap DOMAIN l.now : NameKeyed(l.now[c])
  BY <1>2 DEF Sound
<1>8. Sound(l)
  BY <1>1, <1>2, <1>4, <1>5, <1>6, <1>7 DEF Sound
<1> QED BY <1>8 DEF l
\* A row of the session's own; an expense is written after its category was looked at.
LEMMA AddingSound ==
    ASSUME NEW s, NEW id, NEW row, Sound(s), id \notin DOMAIN s.now,
           id \in CategoryIds => NameKeyed(row) /\ s.cmd.op \notin Filing,
           id \in ExpenseIds => /\ s.cmd.op \in Filing
                                /\ {"category", "item", "quantity", "unit"} \subseteq DOMAIN row
                                /\ s.category # None /\ row.category = s.category
                                /\ validate_item_line(row)
    PROVE  Sound(Added(s, id, row))
<1> DEFINE l == Added(s, id, row)
<1>1. /\ DOMAIN l = Fields /\ l.seen = s.seen /\ l.cmd = s.cmd /\ l.new = s.new \cup {id}
      /\ l.category = s.category /\ l.item = s.item
      /\ l.now = Override(s.now, {id}, [i \in {id} |-> row])
  BY DEF Added, Edit, Sound, Fields
<1>2. /\ DOMAIN l.now = DOMAIN s.now \cup {id} /\ l.now[id] = row
      /\ \A i \in DOMAIN s.now : l.now[i] = s.now[i]
  BY <1>1 DEF Override
<1> HIDE DEF l
<1>3. ASSUME NEW e \in ExpenseIds \cap DOMAIN l.now PROVE WellFiled(l, e)
  <2>1. CASE e # id
    <3>1. WellFiled(s, e) /\ l.now[e] = s.now[e]
      BY <1>2, <1>3, <2>1 DEF Sound
    <3> QED BY <1>1, <1>2, <2>1, <3>1 DEF WellFiled
  <2>2. CASE e = id
    BY <1>1, <1>2, <1>3, <2>2 DEF WellFiled, Sound
  <2> QED BY <2>1, <2>2
<1>4. \A c \in CategoryIds \cap DOMAIN l.now : NameKeyed(l.now[c])
  BY <1>2 DEF Sound
<1>5. Sound(l)
  BY <1>1, <1>2, <1>3, <1>4 DEF Sound
<1> QED BY <1>5 DEF l

\* What a session notes down.
LEMMA NotingSound ==
    ASSUME NEW s, Sound(s)
    PROVE  /\ Sound(advance(s))
           /\ \A id : Sound(delete(s, id))
           /\ \A id : measured(s.cmd.line) => Sound([s EXCEPT !.item = id])
           /\ \A id \in CategoryIds \cap DOMAIN s.now :
                 ~s.now[id].is_archived /\ s.cmd.op \in Filing => Sound([s EXCEPT !.category = id])
<1>1. ASSUME NEW l, DOMAIN l = Fields, l.seen = s.seen, l.now = s.now, l.cmd = s.cmd, l.new = s.new,
             l.item # None => measured(l.cmd.line),
             l.category # None => /\ l.category \in CategoryIds \cap DOMAIN l.now
                                  /\ ~l.now[l.category].is_archived,
             l.cmd.op \notin Filing => l.category = None
      PROVE  Sound(l)
  BY <1>1 DEF Sound, WellFiled
<1>2. Sound(advance(s))
  <2>1. /\ DOMAIN advance(s) = Fields /\ advance(s).seen = s.seen /\ advance(s).now = s.now
        /\ advance(s).cmd = s.cmd /\ advance(s).new = s.new
        /\ advance(s).item = s.item /\ advance(s).category = s.category
    BY DEF advance, Sound, Fields
  <2> HIDE DEF Sound
  <2> QED BY <1>1, <2>1 DEF Sound
<1>3. ASSUME NEW id PROVE Sound(delete(s, id))
  <2>1. /\ DOMAIN delete(s, id) = Fields /\ delete(s, id).seen = s.seen
        /\ delete(s, id).now = s.now /\ delete(s, id).cmd = s.cmd /\ delete(s, id).new = s.new
        /\ delete(s, id).item = s.item /\ delete(s, id).category = s.category
    BY DEF delete, Sound, Fields
  <2> QED BY <1>1, <2>1 DEF Sound
<1>4. ASSUME NEW id, measured(s.cmd.line) PROVE Sound([s EXCEPT !.item = id])
  <2> DEFINE l == [s EXCEPT !.item = id]
  <2>1. /\ DOMAIN l = Fields /\ l.seen = s.seen /\ l.now = s.now /\ l.cmd = s.cmd /\ l.new = s.new
        /\ l.category = s.category
    BY DEF Sound, Fields
  <2> HIDE DEF l
  <2>2. Sound(l)
    BY <1>1, <1>4, <2>1 DEF Sound
  <2> QED BY <2>2 DEF l
<1>5. ASSUME NEW id \in CategoryIds \cap DOMAIN s.now,
             ~s.now[id].is_archived, s.cmd.op \in Filing
      PROVE  Sound([s EXCEPT !.category = id])
  <2> DEFINE l == [s EXCEPT !.category = id]
  <2>1. /\ DOMAIN l = Fields /\ l.seen = s.seen /\ l.now = s.now /\ l.cmd = s.cmd /\ l.new = s.new
        /\ l.category = id /\ l.item = s.item
    BY DEF Sound, Fields
  <2> HIDE DEF l
  <2>2. Sound(l)
    BY <1>1, <1>5, <2>1 DEF Sound
  <2> QED BY <2>2 DEF l
<1> QED BY <1>2, <1>3, <1>4, <1>5
-----------------------------------------------------------------------------
\* The steps of a request.
LEMMA SteppingSound ==
    ASSUME SInv, KInv', NEW r \in Requests, NEW s, Continue(r, s), Sound(s), Filed(s)
    PROVE  SInv'
<1>1. /\ rows' = rows /\ session'[r] = s
      /\ \A q \in Requests \ {r} : session'[q] = session[q]
  BY DEF Continue, SInv, KInv, TInv, IInv
<1>2. ASSUME NEW q \in Requests PROVE (Sound(session[q]) /\ Filed(session[q]))'
  <2>1. PICK x : x = session'[q] /\ Sound(x) /\ Filed(x)
    BY <1>1 DEF SInv
  <2> QED BY <2>1 DEF Sound, Filed, WellFiled
<1>3. (ItemLinesWhole /\ NameKeysFollowNames)'
  BY <1>1 DEF SInv, ItemLinesWhole, NameKeysFollowNames
<1> QED BY <1>2, <1>3 DEF SInv

LEMMA IdleIsSound == Sound(Idle) /\ Filed(Idle)
BY DEF Sound, Filed, Idle, NoRows, Fields

LEMMA EndingSound ==
    ASSUME SInv, KInv', NEW r \in Requests, End(r)
    PROVE  SInv'
<1>1. Continue(r, Idle)
  BY DEF End, Continue
<1> QED BY <1>1, IdleIsSound, SteppingSound

LEMMA BeginningSound ==
    ASSUME SInv, KInv', NEW r \in Requests, NEW c \in Commands, begin(r, c)
    PROVE  SInv'
<1> DEFINE s == [Idle EXCEPT !.cmd = c, !.pc = first(c)]
<1>1. Continue(r, s)
  BY DEF begin, Continue
<1>2. /\ DOMAIN s = Fields /\ s.now = NoRows /\ s.category = None /\ s.item = None
      /\ s.pc = first(c) /\ s.cmd = c
  BY DEF Idle, Fields
<1>3. c.op \in Ops
  BY CommandAssumption DEF Command
<1> HIDE DEF s
<1>4. Sound(s)
  BY <1>2 DEF Sound, NoRows
<1>5. Filed(s)
  BY <1>2, <1>3 DEF Filed, first, Ops, Filing
<1> QED BY <1>1, <1>4, <1>5, SteppingSound

LEMMA GoingOnSound ==
    ASSUME SInv, KInv', NEW r \in Requests, NEW s,
           \/ End(r)
           \/ /\ Continue(r, advance(s)) /\ Sound(s)
              /\ s.cmd = session[r].cmd /\ s.pc = session[r].pc
    PROVE  SInv'
<1>1. CASE ~End(r)
  <2>1. advance(s).pc = next(s.cmd, s.pc) /\ advance(s).cmd = s.cmd
    BY <1>1 DEF advance, Sound, Fields
  <2>2. Filed(session[r])
    BY DEF SInv
  <2>3. /\ next(s.cmd, s.pc) \in {"get_expense", "use_category", "resolve_item", "insert_expense"}
           => s.cmd.op \in Filing
        /\ next(s.cmd, s.pc) \in {"get_category", "list_categories", "count_for_category"}
           => s.cmd.op \notin Filing
    BY <1>1, <2>2 DEF next, Filed, Filing
  <2>4. Filed(advance(s))
    BY <2>1, <2>3 DEF Filed
  <2> QED BY <1>1, <2>4, NotingSound, SteppingSound
<1> QED BY <1>1, EndingSound

LEMMA InsertingSound ==
    ASSUME SInv, KInv', NEW r \in Requests, NEW id, NEW row, NEW s, Sound(s),
           insert(r, id, row, advance(s)),
           s.cmd = session[r].cmd, s.pc = session[r].pc
    PROVE  SInv'
BY GoingOnSound DEF insert

LEMMA StandingSound ==
    ASSUME SInv, NEW r \in Requests, session[r].pc # "idle"
    PROVE  LET o == session[r]
           IN /\ Sound(o) /\ Filed(o) /\ Tidy(o) /\ Placed(o) /\ Routed(o) /\ Typed(o)
              /\ RowsHeld /\ RowsTyped /\ ItemLinesWhole
              /\ o.cmd \in Command
BY StandingTyped DEF SInv, KInv

\* Work in memory does not move a request.
LEMMA Unmoved ==
    ASSUME NEW s, DOMAIN s = Fields, NEW id, NEW row
    PROVE  /\ rehydrate(s, id).cmd = s.cmd /\ rehydrate(s, id).pc = s.pc
           /\ DOMAIN rehydrate(s, id) = Fields
           /\ Edit(s, id, row).cmd = s.cmd /\ Edit(s, id, row).pc = s.pc
           /\ Added(s, id, row).cmd = s.cmd /\ Added(s, id, row).pc = s.pc
           /\ DOMAIN Added(s, id, row) = Fields
           /\ delete(s, id).cmd = s.cmd /\ delete(s, id).pc = s.pc
           /\ [s EXCEPT !.item = id].cmd = s.cmd /\ [s EXCEPT !.item = id].pc = s.pc
           /\ [s EXCEPT !.category = id].cmd = s.cmd /\ [s EXCEPT !.category = id].pc = s.pc
           /\ DOMAIN [s EXCEPT !.category = id] = Fields
BY DEF rehydrate, Edit, Added, delete, Fields

\* A loaded expense, changed: its line stays whole, its category was looked at.
LEMMA EditingExpense ==
    ASSUME NEW s, NEW id \in ExpenseIds \cap DOMAIN s.now, NEW row, Sound(s),
           {"category", "item", "quantity", "unit"} \subseteq DOMAIN row,
           validate_item_line(row),
           \/ row.category = s.now[id].category
           \/ row.category \in CategoryIds \cap DOMAIN s.now /\ ~s.now[row.category].is_archived
    PROVE  Sound(Edit(s, id, row))
<1> DEFINE l == Edit(s, id, row)
<1>1. /\ l.seen = s.seen /\ l.new = s.new
      /\ l.now = Override(s.now, {id}, [i \in {id} |-> row])
  BY DEF Edit, Sound, Fields
<1>2. /\ DOMAIN l.now = DOMAIN s.now \cup {id} /\ l.now[id] = row
      /\ \A i \in DOMAIN s.now \ {id} : l.now[i] = s.now[i]
  BY <1>1 DEF Override
<1> HIDE DEF l
<1>3. WellFiled(s, id) /\ s.cmd.op \in Filing
  BY DEF Sound
<1>4. id \notin CategoryIds
  BY IdAssumption
<1>5. WellFiled(l, id)
  BY <1>1, <1>2, <1>3, <1>4 DEF WellFiled
<1> QED BY <1>3, <1>4, <1>5, EditingSound DEF l

\* What the edits of an expense leave (expense.py:45-94).
LEMMA EditedExpense ==
    ASSUME NEW e, {"category", "item", "quantity", "unit"} \subseteq DOMAIN e,
           NEW item \in ItemIds, NEW line, NEW category
    PROVE  /\ DOMAIN clear_item(e) = DOMAIN e /\ DOMAIN recategorise(e, category) = DOMAIN e
           /\ DOMAIN set_item(e, item, line) = DOMAIN e
           /\ clear_item(e).category = e.category /\ validate_item_line(clear_item(e))
           /\ set_item(e, item, line).category = e.category
           /\ measured(line) => validate_item_line(set_item(e, item, line))
           /\ recategorise(e, category).category = category
           /\ validate_item_line(e) => validate_item_line(recategorise(e, category))
<1>1. item # None
  BY IdAssumption DEF Ids
<1> QED BY <1>1 DEF clear_item, recategorise, set_item, validate_item_line, measured
-----------------------------------------------------------------------------
\* Loading, re-filing or deleting an expense (expenses.py:96-160).
LEMMA ExpenseSound ==
    ASSUME SInv, KInv', NEW r \in Requests, get_expense(r) \/ use_category(r)
    PROVE  SInv'
<1> DEFINE o == session[r]
           c == session[r].cmd
<1>1. o.pc \in {"get_expense", "use_category"}
  BY DEF get_expense, use_category
<1>2. /\ Sound(o) /\ Filed(o) /\ Tidy(o) /\ Placed(o) /\ RowsHeld /\ RowsTyped /\ ItemLinesWhole
      /\ c \in Command /\ c.op \in Filing /\ DOMAIN o = Fields
  BY <1>1, StandingSound DEF Filed, Sound
<1>3. CASE get_expense(r)
  <2> DEFINE s == rehydrate(o, {c.expense})
  <2>1. PICK l : \/ End(r)
                 \/ /\ Continue(r, advance(l)) /\ c.expense \in OwnedBy(c.owner, ExpenseIds)
                    /\ \/ l = delete(s, c.expense)
                       \/ l = Edit(s, c.expense, clear_item(s.now[c.expense]))
                       \/ l = s
    BY <1>3 DEF get_expense, Proceed
  <2>2. CASE ~End(r)
    <3>1. c.expense \in ExpenseIds \cap DOMAIN rows /\ rows[c.expense].owner = c.owner
      BY <2>1, <2>2 DEF OwnedBy
    <3>2. Sound(s) /\ s.cmd = c /\ s.pc = o.pc /\ DOMAIN s = Fields /\ c.expense \in DOMAIN s.now
      <4>1. {c.expense} \subseteq DOMAIN rows
        BY <3>1
      <4>2. Sound(s)
        BY <1>2, <4>1, LoadingSound
      <4>3. c.expense \in DOMAIN s.now
        BY <1>2, <3>1, Loading
      <4> QED BY <1>2, <4>2, <4>3, Unmoved
    <3> HIDE DEF s
    <3>3. /\ {"category", "item", "quantity", "unit"} \subseteq DOMAIN s.now[c.expense]
          /\ validate_item_line(s.now[c.expense])
      BY <3>1, <3>2 DEF Sound, WellFiled
    <3>4. Sound(Edit(s, c.expense, clear_item(s.now[c.expense])))
      <4> DEFINE row == clear_item(s.now[c.expense])
      <4>1. /\ {"category", "item", "quantity", "unit"} \subseteq DOMAIN row
            /\ validate_item_line(row) /\ row.category = s.now[c.expense].category
        BY <3>3 DEF clear_item, validate_item_line
      <4> HIDE DEF row
      <4>2. Sound(Edit(s, c.expense, row))
        BY <3>1, <3>2, <4>1, EditingExpense
      <4> QED BY <4>2 DEF row
    <3>5. Sound(l) /\ l.cmd = c /\ l.pc = o.pc
      BY <2>1, <2>2, <3>2, <3>4, NotingSound, Unmoved
    <3> QED BY <2>1, <3>5, GoingOnSound
  <2> QED BY <2>2, EndingSound
<1>4. CASE use_category(r)
  <2> DEFINE h == rehydrate(o, {c.category})
             s == [h EXCEPT !.category = c.category]
  <2>1. PICK l : \/ End(r)
                 \/ /\ Continue(r, advance(l)) /\ c.category \in OwnedBy(c.owner, CategoryIds)
                    /\ ~s.now[c.category].is_archived
                    /\ \/ l = s
                       \/ /\ c.op = "update"
                          /\ l = Edit(s, c.expense, recategorise(s.now[c.expense], c.category))
    BY <1>4 DEF use_category, Proceed, ensure_category_usable
  <2>2. CASE ~End(r)
    <3>1. /\ c.category \in CategoryIds \cap DOMAIN rows /\ rows[c.category].owner = c.owner
          /\ c.category \notin ExpenseIds
      BY <2>1, <2>2, IdAssumption DEF OwnedBy
    <3>2. /\ Sound(h) /\ h.cmd = c /\ h.pc = o.pc /\ DOMAIN h = Fields
          /\ DOMAIN h.now = DOMAIN o.now \cup {c.category}
      <4>1. {c.category} \subseteq DOMAIN rows
        BY <3>1
      <4>2. Sound(h)
        BY <1>2, <4>1, LoadingSound
      <4>3. DOMAIN h.now = DOMAIN o.now \cup {c.category}
        BY <1>2, <3>1, Loading
      <4> QED BY <1>2, <4>2, <4>3, Unmoved
    <3> HIDE DEF h
    <3>3. s.now = h.now /\ s.seen = h.seen /\ s.cmd = c /\ s.pc = o.pc /\ DOMAIN s = Fields
      BY <3>2 DEF Fields
    <3>4. Sound(s)
      BY <1>2, <2>1, <2>2, <3>1, <3>2, <3>3, NotingSound
    <3> HIDE DEF s
    <3>5. CASE l = s
      BY <2>1, <2>2, <3>3, <3>4, <3>5, GoingOnSound
    <3>6. CASE l # s
      <4> DEFINE row == recategorise(s.now[c.expense], c.category)
      <4>1. c.op = "update" /\ l = Edit(s, c.expense, row)
        BY <2>1, <2>2, <3>6
      <4>2. c.expense \in DOMAIN o.seen
        BY <1>2, <1>4, <4>1 DEF Placed, use_category
      <4>3. c.expense \in ExpenseIds \cap DOMAIN s.now
        BY <1>2, <3>2, <3>3, <4>2, IdAssumption DEF Command, Tidy, RowsHeld, Ids
      <4>4. WellFiled(s, c.expense)
        BY <3>4, <4>3 DEF Sound
      <4>5. /\ {"category", "item", "quantity", "unit"} \subseteq DOMAIN row
            /\ row.category = c.category /\ validate_item_line(row)
        BY <4>4 DEF WellFiled, recategorise, validate_item_line, measured
      <4>6. c.category \in CategoryIds \cap DOMAIN s.now
        BY <3>1, <3>2, <3>3
      <4> HIDE DEF row
      <4>7. Sound(l) /\ l.cmd = c /\ l.pc = o.pc
        BY <2>1, <2>2, <3>3, <3>4, <4>1, <4>3, <4>5, <4>6, EditingExpense, Unmoved
      <4> QED BY <2>1, <2>2, <4>7, GoingOnSound
    <3> QED BY <3>5, <3>6
  <2> QED BY <2>2, EndingSound
<1> QED BY <1>3, <1>4

\* Archiving, restoring or renaming a category; whatever happens to an item.
LEMMA HandlingSound ==
    ASSUME NEW s, NEW id, Sound(s),
           id \in ItemIds \/ (id \in CategoryIds \cap DOMAIN s.now /\ s.cmd.op \notin Filing)
    PROVE  /\ Sound(Edit(s, id, archive(s.now[id]))) /\ Sound(Edit(s, id, restore(s.now[id])))
           /\ \A name : Sound(Edit(s, id, rename(s.now[id], name)))
<1>1. ASSUME NEW row, id \in CategoryIds => NameKeyed(row) PROVE Sound(Edit(s, id, row))
  <2>1. id \notin ExpenseIds
    BY IdAssumption
  <2>2. id \in CategoryIds => s.cmd.op \notin Filing
    BY IdAssumption
  <2> QED BY <1>1, <2>1, <2>2, EditingSound
<1>2. CASE id \in ItemIds
  <2>1. id \notin CategoryIds
    BY <1>2, IdAssumption
  <2> QED BY <1>1, <2>1
<1>3. CASE id \in CategoryIds
  <2>1. NameKeyed(s.now[id])
    BY <1>3, IdAssumption DEF Sound
  <2>2. /\ NameKeyed(archive(s.now[id])) /\ NameKeyed(restore(s.now[id]))
        /\ \A name : NameKeyed(rename(s.now[id], name))
    BY <2>1 DEF NameKeyed, archive, restore, rename
  <2> QED BY <1>1, <2>2
<1> QED BY <1>2, <1>3

\* The use cases on categories (categories.py:58-127).
LEMMA CategoriesSound ==
    ASSUME SInv, KInv', NEW r \in Requests,
           get_category(r) \/ list_categories(r) \/ count_for_category(r)
    PROVE  SInv'
<1> DEFINE o == session[r]
           c == session[r].cmd
<1>1. o.pc \in {"get_category", "list_categories", "count_for_category"}
  BY DEF get_category, list_categories, count_for_category
<1>2. /\ Sound(o) /\ Tidy(o) /\ Placed(o) /\ RowsHeld /\ RowsTyped /\ ItemLinesWhole
      /\ c \in Command /\ c.op \notin Filing /\ DOMAIN o = Fields
  BY <1>1, StandingSound DEF Filed, Sound
<1>3. \A ids \in SUBSET (CategoryIds \cap DOMAIN rows) :
         /\ Sound(rehydrate(o, ids)) /\ rehydrate(o, ids).cmd = c /\ rehydrate(o, ids).pc = o.pc
         /\ DOMAIN rehydrate(o, ids) = Fields
         /\ DOMAIN rehydrate(o, ids).now = DOMAIN o.now \cup ids
  <2>1. ASSUME NEW ids \in SUBSET (CategoryIds \cap DOMAIN rows)
        PROVE  Sound(rehydrate(o, ids)) /\ DOMAIN rehydrate(o, ids).now = DOMAIN o.now \cup ids
    <3>1. ids \subseteq DOMAIN rows /\ ids \cap ExpenseIds = {}
      BY IdAssumption
    <3>2. Sound(rehydrate(o, ids))
      BY <1>2, <3>1, LoadingSound
    <3>3. DOMAIN rehydrate(o, ids).now = DOMAIN o.now \cup ids
      BY DEF rehydrate, Complete, Tidy
    <3> QED BY <3>2, <3>3
  <2> QED BY <1>2, <2>1, Unmoved
<1>4. CASE get_category(r)
  <2> DEFINE s == rehydrate(o, {c.category})
  <2>1. PICK l : \/ End(r)
                 \/ /\ Continue(r, advance(l)) /\ c.category \in OwnedBy(c.owner, CategoryIds)
                    /\ \/ l = s
                       \/ l = Edit(s, c.category, archive(s.now[c.category]))
                       \/ l = Edit(s, c.category, restore(s.now[c.category]))
    BY <1>4 DEF get_category, Proceed
  <2>2. CASE ~End(r)
    <3>1. {c.category} \in SUBSET (CategoryIds \cap DOMAIN rows)
      BY <2>1, <2>2 DEF OwnedBy
    <3>2. /\ Sound(s) /\ s.cmd = c /\ s.pc = o.pc /\ DOMAIN s = Fields
          /\ c.category \in CategoryIds \cap DOMAIN s.now
      BY <1>3, <3>1
    <3> HIDE DEF s
    <3>3. Sound(l) /\ l.cmd = c /\ l.pc = o.pc
      BY <1>2, <2>1, <2>2, <3>2, HandlingSound, Unmoved
    <3> QED BY <2>1, <3>3, GoingOnSound
  <2> QED BY <2>2, EndingSound
<1>5. CASE list_categories(r)
  <2> DEFINE s == rehydrate(o, OwnedBy(c.owner, CategoryIds))
  <2>1. PICK l : \/ End(r)
                 \/ /\ Continue(r, advance(l)) /\ o.pc = "list_categories"
                    /\ \/ l = s
                       \/ /\ c.op = "rename_category"
                          /\ l = Edit(s, c.category, rename(s.now[c.category], c.name))
    BY <1>5 DEF list_categories, Proceed
  <2>2. /\ Sound(s) /\ s.cmd = c /\ s.pc = o.pc /\ DOMAIN s = Fields
        /\ DOMAIN o.now \subseteq DOMAIN s.now
    <3>1. OwnedBy(c.owner, CategoryIds) \in SUBSET (CategoryIds \cap DOMAIN rows)
      BY DEF OwnedBy
    <3> QED BY <1>3, <3>1
  <2> HIDE DEF s
  <2>3. CASE ~End(r)
    <3>1. CASE l = s
      BY <2>1, <2>2, <3>1, GoingOnSound
    <3>2. CASE l # s
      <4>1. c.category \in CategoryIds \cap DOMAIN s.now
        BY <1>2, <2>1, <2>2, <2>3, <3>2, IdAssumption DEF Placed, Tidy, RowsHeld, Command, Ids
      <4>2. \A name : Sound(Edit(s, c.category, rename(s.now[c.category], name)))
        BY <1>2, <2>2, <4>1, HandlingSound
      <4>3. Sound(l) /\ l.cmd = c /\ l.pc = o.pc
        BY <2>1, <2>2, <2>3, <3>2, <4>2, Unmoved
      <4> QED BY <2>1, <4>3, GoingOnSound
    <3> QED BY <3>1, <3>2
  <2> QED BY <2>3, EndingSound
<1>6. CASE count_for_category(r)
  <2>1. PICK l : \/ End(r)
                 \/ /\ Continue(r, advance(l)) /\ o.pc = "count_for_category"
                    /\ \/ l = delete(o, c.category)
                       \/ l = Edit(o, c.category, archive(o.now[c.category]))
    BY <1>6 DEF count_for_category, Proceed
  <2>2. CASE ~End(r)
    <3>1. c.category \in CategoryIds \cap DOMAIN o.now
      BY <1>2, <2>1, <2>2, IdAssumption DEF Placed, Tidy, RowsHeld, Command, Ids
    <3>2. Sound(l) /\ l.cmd = c /\ l.pc = o.pc
      BY <1>2, <2>1, <2>2, <3>1, HandlingSound, NotingSound, Unmoved
    <3> QED BY <2>1, <3>2, GoingOnSound
  <2> QED BY <2>2, EndingSound
<1> QED BY <1>4, <1>5, <1>6

\* The use cases on items (items.py:62-98).
LEMMA ItemsSound ==
    ASSUME SInv, KInv', NEW r \in Requests, get_item(r) \/ list_items(r) \/ count_for_item(r)
    PROVE  SInv'
<1> DEFINE o == session[r]
           c == session[r].cmd
<1>1. o.pc \in {"get_item", "list_items", "count_for_item"}
  BY DEF get_item, list_items, count_for_item
<1>2. /\ Sound(o) /\ Tidy(o) /\ Placed(o) /\ RowsHeld /\ RowsTyped /\ ItemLinesWhole
      /\ c \in Command /\ DOMAIN o = Fields
  BY <1>1, StandingSound DEF Sound
<1>3. \A ids \in SUBSET (ItemIds \cap DOMAIN rows) :
         /\ Sound(rehydrate(o, ids)) /\ rehydrate(o, ids).cmd = c /\ rehydrate(o, ids).pc = o.pc
         /\ DOMAIN rehydrate(o, ids) = Fields
  <2>1. ASSUME NEW ids \in SUBSET (ItemIds \cap DOMAIN rows)
        PROVE  Sound(rehydrate(o, ids))
    <3>1. ids \subseteq DOMAIN rows /\ ids \cap ExpenseIds = {}
      BY IdAssumption
    <3> QED BY <1>2, <3>1, LoadingSound
  <2> QED BY <1>2, <2>1, Unmoved
<1>4. CASE get_item(r)
  <2> DEFINE s == rehydrate(o, {c.item})
  <2>1. PICK l : \/ End(r)
                 \/ /\ Continue(r, advance(l)) /\ c.item \in OwnedBy(c.owner, ItemIds)
                    /\ \/ l = s
                       \/ l = Edit(s, c.item, archive(s.now[c.item]))
                       \/ l = Edit(s, c.item, restore(s.now[c.item]))
    BY <1>4 DEF get_item, Proceed
  <2>2. CASE ~End(r)
    <3>1. {c.item} \in SUBSET (ItemIds \cap DOMAIN rows)
      BY <2>1, <2>2 DEF OwnedBy
    <3>2. Sound(s) /\ s.cmd = c /\ s.pc = o.pc /\ DOMAIN s = Fields /\ c.item \in ItemIds
      BY <1>3, <3>1
    <3> HIDE DEF s
    <3>3. Sound(l) /\ l.cmd = c /\ l.pc = o.pc
      BY <1>2, <2>1, <2>2, <3>2, HandlingSound, Unmoved
    <3> QED BY <2>1, <3>3, GoingOnSound
  <2> QED BY <2>2, EndingSound
<1>5. CASE list_items(r)
  <2> DEFINE s == rehydrate(o, OwnedBy(c.owner, ItemIds))
  <2>1. End(r) \/ Continue(r, advance(s))
    BY <1>5 DEF list_items, Proceed
  <2>2. OwnedBy(c.owner, ItemIds) \in SUBSET (ItemIds \cap DOMAIN rows)
    BY DEF OwnedBy
  <2>3. Sound(s) /\ s.cmd = c /\ s.pc = o.pc
    BY <1>3, <2>2
  <2> HIDE DEF s
  <2> QED BY <2>1, <2>3, GoingOnSound
<1>6. CASE count_for_item(r)
  <2>1. PICK l : \/ End(r)
                 \/ /\ Continue(r, advance(l)) /\ o.pc = "count_for_item"
                    /\ \/ l = delete(o, c.item)
                       \/ l = Edit(o, c.item, archive(o.now[c.item]))
    BY <1>6 DEF count_for_item, Proceed
  <2>2. CASE ~End(r)
    <3>1. c.item \in ItemIds
      BY <1>2, <2>1, <2>2, IdAssumption DEF Placed, Tidy, RowsHeld, Command
    <3>2. Sound(Edit(o, c.item, archive(o.now[c.item]))) /\ Sound(delete(o, c.item))
      BY <1>2, <3>1, HandlingSound, NotingSound
    <3>3. Sound(l) /\ l.cmd = c /\ l.pc = o.pc
      BY <1>2, <2>1, <2>2, <3>2, Unmoved
    <3> QED BY <2>1, <3>3, GoingOnSound
  <2> QED BY <2>2, EndingSound
<1> QED BY <1>4, <1>5, <1>6

\* The inserts (expenses.py:106-118, categories.py:50-56, items.py:90-98).
LEMMA InsertsSound ==
    ASSUME SInv, KInv', NEW r \in Requests,
           insert_expense(r) \/ insert_category(r) \/ insert_item(r)
    PROVE  SInv'
<1> DEFINE o == session[r]
           c == session[r].cmd
<1>1. o.pc \in {"insert_expense", "insert_category", "insert_item"}
  BY DEF insert_expense, insert_category, insert_item
<1>2. /\ Sound(o) /\ Filed(o) /\ Tidy(o) /\ Placed(o) /\ Routed(o) /\ Typed(o) /\ RowsHeld
      /\ c \in Command /\ DOMAIN o = Fields
  BY <1>1, StandingSound DEF Sound
<1>3. ASSUME NEW ids, ids \subseteq Ids, NEW id \in Fresh(ids) PROVE id \notin DOMAIN o.now
  BY <1>2, <1>3, Freshness DEF Tidy
<1>4. CASE insert_expense(r)
  <2> DEFINE plain == [owner |-> c.owner, category |-> o.category, item |-> None,
                       quantity |-> None, unit |-> None]
             row == IF o.item = None THEN plain ELSE set_item(plain, o.item, c.line)
  <2>1. PICK e \in Fresh(ExpenseIds) : insert(r, e, row, advance(Added(o, e, row)))
    BY <1>4 DEF insert_expense
  <2>2. e \in ExpenseIds /\ e \notin DOMAIN o.now /\ e \notin CategoryIds
    BY <1>3, <2>1, IdAssumption DEF Fresh, Ids
  <2>3. c.op \in Filing /\ o.category # None
    BY <1>2, <1>4, IdAssumption DEF insert_expense, Filed, Placed, Tidy, RowsHeld
  <2>4. /\ {"category", "item", "quantity", "unit"} \subseteq DOMAIN row
        /\ row.category = o.category /\ validate_item_line(row)
    <3>1. CASE o.item = None
      BY <3>1 DEF validate_item_line
    <3>2. CASE o.item # None
      BY <1>2, <3>2 DEF Sound, set_item, validate_item_line, measured
    <3> QED BY <3>1, <3>2
  <2> HIDE DEF row
  <2>5. Sound(Added(o, e, row))
    BY <1>2, <2>2, <2>3, <2>4, AddingSound
  <2> QED BY <1>2, <2>1, <2>5, InsertingSound, Unmoved
<1>5. CASE insert_category(r)
  <2> DEFINE row == NewBucket(c.owner, c.name)
  <2>1. PICK id \in Fresh(CategoryIds) : insert(r, id, row, advance(Added(o, id, row)))
    BY <1>5 DEF insert_category
  <2>2. id \in CategoryIds /\ id \notin DOMAIN o.now /\ id \notin ExpenseIds
    BY <1>3, <2>1, IdAssumption DEF Fresh, Ids
  <2>3. c.op \notin Filing /\ NameKeyed(row)
    BY <1>2, <1>5, BucketKeyed DEF insert_category, Routed, Filing
  <2> HIDE DEF row
  <2>4. Sound(Added(o, id, row))
    BY <1>2, <2>2, <2>3, AddingSound
  <2> QED BY <1>2, <2>1, <2>4, InsertingSound, Unmoved
<1>6. CASE insert_item(r)
  <2> DEFINE row == NewBucket(c.owner, c.name)
  <2>1. PICK id \in Fresh(ItemIds) : insert(r, id, row, advance(Added(o, id, row)))
    BY <1>6 DEF insert_item
  <2>2. id \notin DOMAIN o.now /\ id \notin ExpenseIds /\ id \notin CategoryIds
    BY <1>3, <2>1, IdAssumption DEF Fresh, Ids
  <2> HIDE DEF row
  <2>3. Sound(Added(o, id, row))
    BY <1>2, <2>2, AddingSound
  <2> QED BY <1>2, <2>1, <2>3, InsertingSound, Unmoved
<1> QED BY <1>4, <1>5, <1>6

\* Finding or making the item of a line (items.py:100-133): a line that is not
\* measured goes no further.
LEMMA ResolvingSound ==
    ASSUME SInv, KInv', NEW r \in Requests, resolve_item(r)
    PROVE  SInv'
<1> DEFINE o      == session[r]
           c      == session[r].cmd
           mine   == OwnedBy(c.owner, ItemIds)
           listed == rehydrate(o, mine)
           given  == rehydrate(o, {c.line.item})
           row    == NewBucket(c.owner, c.line.name)
<1>1. /\ o.pc = "resolve_item"
      /\ \/ End(r)
         \/ /\ measured(c.line)
            /\ \/ c.line.item \in mine /\ Continue(r, advance(WithItem(given, c.line.item)))
               \/ \E item \in mine : Continue(r, advance(WithItem(listed, item)))
               \/ \E item \in Fresh(ItemIds) :
                     insert(r, item, row, advance(WithItem(Added(listed, item, row), item)))
  BY DEF resolve_item, Proceed, Reusable
<1>2. /\ Sound(o) /\ Filed(o) /\ Tidy(o) /\ Placed(o) /\ Typed(o) /\ RowsHeld /\ RowsTyped
      /\ ItemLinesWhole /\ c \in Command /\ DOMAIN o = Fields /\ c.op \in Filing
  BY <1>1, StandingSound DEF Sound, Filed
<1>3. \A ids \in SUBSET mine :
         /\ Sound(rehydrate(o, ids)) /\ rehydrate(o, ids).cmd = c /\ rehydrate(o, ids).pc = o.pc
         /\ DOMAIN rehydrate(o, ids) = Fields
         /\ DOMAIN rehydrate(o, ids).now = DOMAIN o.now \cup ids
  <2>1. ASSUME NEW ids \in SUBSET mine
        PROVE  Sound(rehydrate(o, ids)) /\ DOMAIN rehydrate(o, ids).now = DOMAIN o.now \cup ids
    <3>1. ids \subseteq DOMAIN rows /\ ids \cap ExpenseIds = {}
      BY IdAssumption DEF OwnedBy
    <3>2. Sound(rehydrate(o, ids))
      BY <1>2, <3>1, LoadingSound
    <3>3. DOMAIN rehydrate(o, ids).now = DOMAIN o.now \cup ids
      BY DEF rehydrate, Complete, Tidy
    <3> QED BY <3>2, <3>3
  <2> QED BY <1>2, <2>1, Unmoved
<1>4. c.op = "update" => c.expense \in ExpenseIds \cap DOMAIN o.now
  BY <1>1, <1>2, IdAssumption DEF Placed, Tidy, RowsHeld, Command, Ids
<1>5. ASSUME NEW s, Sound(s), s.cmd = c, s.pc = o.pc, DOMAIN o.now \subseteq DOMAIN s.now,
             NEW item \in ItemIds, measured(c.line)
      PROVE  /\ Sound(WithItem(s, item))
             /\ WithItem(s, item).cmd = c /\ WithItem(s, item).pc = o.pc
  <2>1. DOMAIN s = Fields
    BY <1>5 DEF Sound
  <2>2. CASE c.op = "update"
    <3> DEFINE e == set_item(s.now[c.expense], item, c.line)
    <3>1. WithItem(s, item) = Edit(s, c.expense, e)
      BY <1>5, <2>2 DEF WithItem
    <3>2. c.expense \in ExpenseIds \cap DOMAIN s.now
      BY <1>4, <1>5, <2>2
    <3>3. /\ {"category", "item", "quantity", "unit"} \subseteq DOMAIN e
          /\ e.category = s.now[c.expense].category /\ validate_item_line(e)
      <4>1. WellFiled(s, c.expense)
        BY <1>5, <3>2 DEF Sound
      <4> QED BY <1>5, <4>1, EditedExpense DEF WellFiled
    <3> HIDE DEF e
    <3>4. Sound(Edit(s, c.expense, e))
      BY <1>5, <3>2, <3>3, EditingExpense
    <3> QED BY <1>5, <2>1, <3>1, <3>4, Unmoved
  <2>3. CASE c.op # "update"
    <3> DEFINE x == [s EXCEPT !.item = item]
    <3>1. WithItem(s, item) = x
      BY <1>5, <2>3 DEF WithItem
    <3>2. Sound(x) /\ x.cmd = c /\ x.pc = o.pc
      BY <1>5, <2>1, NotingSound, Unmoved
    <3> HIDE DEF x
    <3> QED BY <3>1, <3>2
  <2> QED BY <2>2, <2>3
<1>6. /\ Sound(listed) /\ listed.cmd = c /\ listed.pc = o.pc /\ DOMAIN listed = Fields
      /\ DOMAIN listed.now = DOMAIN o.now \cup mine
  BY <1>3
<1>7. ASSUME NEW item \in Fresh(ItemIds)
      PROVE  LET l == Added(listed, item, row)
             IN Sound(l) /\ l.cmd = c /\ l.pc = o.pc /\ DOMAIN o.now \subseteq DOMAIN l.now
  <2>1. /\ item \notin DOMAIN o.now /\ item \notin mine
        /\ item \notin CategoryIds /\ item \notin ExpenseIds
    <3>1. item \notin minted /\ item \notin o.new
      BY DEF Fresh
    <3>2. item \in ItemIds
      BY DEF Fresh
    <3> QED BY <1>2, <3>1, <3>2, IdAssumption DEF Tidy, RowsHeld, OwnedBy
  <2> HIDE DEF listed, row
  <2>2. Sound(Added(listed, item, row))
    BY <1>6, <2>1, AddingSound
  <2>3. DOMAIN listed.now \subseteq DOMAIN Added(listed, item, row).now
    BY <1>6 DEF Added, Edit, Override, Fields
  <2> QED BY <1>6, <2>2, <2>3, Unmoved
<1>8. mine \subseteq ItemIds
  BY DEF OwnedBy
<1>9. c.line.item \in mine => /\ Sound(given) /\ given.cmd = c /\ given.pc = o.pc
                              /\ DOMAIN o.now \subseteq DOMAIN given.now
  BY <1>3
<1> HIDE DEF listed, given, mine, row
<1>10. ASSUME measured(c.line), NEW item \in mine, Continue(r, advance(WithItem(listed, item)))
       PROVE  SInv'
  BY <1>5, <1>6, <1>8, <1>10, GoingOnSound
<1>11. ASSUME measured(c.line), NEW item \in Fresh(ItemIds),
              insert(r, item, row, advance(WithItem(Added(listed, item, row), item)))
       PROVE  SInv'
  <2>1. item \in ItemIds
    BY DEF Fresh
  <2> QED BY <1>5, <1>7, <1>11, <2>1, InsertingSound
<1>12. CASE measured(c.line) /\ c.line.item \in mine /\ Continue(r, advance(WithItem(given, c.line.item)))
  BY <1>5, <1>8, <1>9, <1>12, GoingOnSound
<1> QED BY <1>1, <1>10, <1>11, <1>12, EndingSound
-----------------------------------------------------------------------------
\* Request r commits, and something changes.
Commits(r) == session[r] # Idle /\ session'[r] = Idle /\ rows' # rows

\* No commit updates a row that another one changed since it was loaded: what a
\* version column, compared in the WHERE clause of every UPDATE, would enforce.
NothingOverwritten ==
    \A r \in Requests : Commits(r) =>
        \A id \in Dirty(session[r]) : rows[id] = session[r].seen[id]

\* No commit relies on a row that another one changed since it was loaded: what
\* comparing the version of every row in hand would enforce.
NothingStale ==
    \A r \in Requests : Commits(r) =>
        \A id \in DOMAIN session[r].seen :
            id \in DOMAIN rows /\ rows[id] = session[r].seen[id]

\* Requests that take turns.
OneAtATime == \A r, q \in Requests : session[r] # Idle /\ session[q] # Idle => r = q

\* What is written over what was loaded is the aggregate as the use case left it.
LEMMA UpdatingWhole ==
    ASSUME NEW id \in Ids, NEW s, rows[id] \in Row(id), s.now[id] \in Row(id),
           rows[id] = s.seen[id]
    PROVE  update_model(s, id) = s.now[id]
<1>1. update_model(s, id) = [c \in DOMAIN rows[id] |-> s.now[id][c]]
  BY DEF update_model
<1>2. \A R \in {CategoryRow, ItemRow, ExpenseRow} : \A x, y \in R : [c \in DOMAIN x |-> y[c]] = y
  <2>1. ASSUME NEW x \in ExpenseRow, NEW y \in ExpenseRow PROVE [c \in DOMAIN x |-> y[c]] = y
    BY DEF ExpenseRow
  <2>2. ASSUME NEW x \in CategoryRow, NEW y \in CategoryRow PROVE [c \in DOMAIN x |-> y[c]] = y
    BY DEF CategoryRow
  <2>3. CategoryRow = ItemRow
    BY DEF CategoryRow, ItemRow
  <2> QED BY <2>1, <2>2, <2>3
<1>3. Row(id) \in {CategoryRow, ItemRow, ExpenseRow}
  BY Rows DEF Ids
<1> QED BY <1>1, <1>2, <1>3

\* The rows a commit leaves, when it overwrites nothing (mappers.py:118-132).
LEMMA Leaving ==
    ASSUME SInv, [NothingOverwritten]_vars, NEW r \in Requests, commit(r), rows' # rows
    PROVE  LET s == session[r]
           IN /\ s.pc = "commit" /\ session'[r] = Idle
              /\ Sound(s) /\ Typed(s) /\ Tidy(s) /\ RowsTyped /\ RowsHeld
              /\ Constraints(rows')
              /\ Dirty(s) \subseteq DOMAIN s.seen \cap DOMAIN rows
              /\ \A id \in Dirty(s) : rows[id] = s.seen[id]
              /\ \A id \in DOMAIN rows' :
                    IF id \in s.new \cup Dirty(s) THEN id \in DOMAIN s.now /\ rows'[id] = s.now[id]
                    ELSE id \in DOMAIN rows /\ rows'[id] = rows[id]
<1> DEFINE s == session[r]
<1>1. /\ s.pc = "commit"
      /\ Dirty(s) \subseteq DOMAIN rows /\ Constraints(Synchronised(s))
      /\ rows' = Synchronised(s)
      /\ session' = [session EXCEPT ![r] = Idle]
  BY DEF commit, End
<1>2. /\ Sound(s) /\ Typed(s) /\ Tidy(s) /\ RowsTyped /\ RowsHeld
  BY <1>1, StandingSound
<1>3. session'[r] = Idle /\ session[r] # Idle
  BY <1>1 DEF Idle, SInv, KInv, TInv, IInv
<1>4. \A id \in Dirty(s) : rows[id] = s.seen[id]
  BY <1>3 DEF NothingOverwritten, Commits, vars
<1>5. Dirty(s) \subseteq DOMAIN s.seen \cap DOMAIN rows
  BY <1>1 DEF Dirty
<1>6. ASSUME NEW id \in DOMAIN rows'
      PROVE  IF id \in s.new \cup Dirty(s) THEN id \in DOMAIN s.now /\ rows'[id] = s.now[id]
             ELSE id \in DOMAIN rows /\ rows'[id] = rows[id]
  <2>1. CASE id \in s.new
    BY <1>1, <1>2, <2>1 DEF Synchronised, Tidy
  <2>2. CASE id \in Dirty(s) \ s.new
    <3>1. rows'[id] = update_model(s, id)
      BY <1>1, <2>2 DEF Synchronised
    <3>2. /\ id \in Ids /\ id \in DOMAIN s.now /\ rows[id] \in Row(id) /\ s.now[id] \in Row(id)
          /\ rows[id] = s.seen[id]
      BY <1>2, <1>4, <1>5, <2>2 DEF Tidy, RowsTyped, RowsHeld, Typed
    <3> QED BY <2>2, <3>1, <3>2, UpdatingWhole
  <2>3. CASE id \notin s.new \cup Dirty(s)
    BY <1>1, <2>3 DEF Synchronised
  <2> QED BY <2>1, <2>2, <2>3
<1> QED BY <1>1, <1>2, <1>3, <1>4, <1>5, <1>6

LEMMA CommittingSound ==
    ASSUME SInv, KInv', [NothingOverwritten]_vars, NEW r \in Requests, commit(r)
    PROVE  SInv'
<1> DEFINE s == session[r]
<1>1. End(r) \/ session' = [session EXCEPT ![r] = Idle]
  BY DEF commit
<1>2. CASE ~End(r)
  <2>1. ASSUME NEW q \in Requests PROVE (Sound(session[q]) /\ Filed(session[q]))'
    <3>1. session'[q] = (IF q = r THEN Idle ELSE session[q])
      BY <1>1, <1>2 DEF SInv, KInv, TInv, IInv
    <3>2. PICK x : x = session'[q] /\ Sound(x) /\ Filed(x)
      BY <3>1, IdleIsSound DEF SInv
    <3> QED BY <3>2 DEF Sound, Filed, WellFiled
  <2>2. (ItemLinesWhole /\ NameKeysFollowNames)'
    <3>1. CASE rows' = rows
      BY <3>1 DEF SInv, ItemLinesWhole, NameKeysFollowNames
    <3>2. CASE rows' # rows
      <4>1. /\ Sound(s)
            /\ \A id \in DOMAIN rows' :
                  IF id \in s.new \cup Dirty(s) THEN id \in DOMAIN s.now /\ rows'[id] = s.now[id]
                  ELSE id \in DOMAIN rows /\ rows'[id] = rows[id]
        BY <3>2, Leaving
      <4> HIDE DEF s
      <4>2. ItemLinesWhole'
        BY <4>1 DEF SInv, ItemLinesWhole, Sound, WellFiled
      <4>3. NameKeysFollowNames'
        BY <4>1 DEF SInv, NameKeysFollowNames, Sound, NameKeyed
      <4> QED BY <4>2, <4>3
    <3> QED BY <3>1, <3>2
  <2> QED BY <2>1, <2>2 DEF SInv
<1> QED BY <1>2, EndingSound

LEMMA SInvStep == SInv /\ [Next]_vars /\ [NothingOverwritten]_vars => SInv'
<1> SUFFICES ASSUME SInv, [Next]_vars, [NothingOverwritten]_vars PROVE SInv'
  OBVIOUS
<1>1. KInv'
  BY KInvStep DEF SInv
<1>2. CASE UNCHANGED vars
  <2>1. (ItemLinesWhole /\ NameKeysFollowNames)'
    BY <1>2 DEF vars, SInv, ItemLinesWhole, NameKeysFollowNames
  <2>2. ASSUME NEW q \in Requests PROVE (Sound(session[q]) /\ Filed(session[q]))'
    <3>1. PICK x : x = session'[q] /\ Sound(x) /\ Filed(x)
      BY <1>2 DEF vars, SInv
    <3> QED BY <3>1 DEF Sound, Filed, WellFiled
  <2> QED BY <1>1, <2>1, <2>2 DEF SInv
<1>3. ASSUME NEW r \in Requests, NEW c \in Commands, begin(r, c) PROVE SInv'
  BY <1>1, <1>3, BeginningSound
<1>4. ASSUME NEW r \in Requests, statement(r) PROVE SInv'
  BY <1>1, <1>4, ExpenseSound, CategoriesSound, ItemsSound, InsertsSound, ResolvingSound,
     CommittingSound
     DEF statement
<1>5. ASSUME NEW r \in Requests, crash(r) PROVE SInv'
  BY <1>1, <1>5, EndingSound DEF crash
<1> QED BY <1>2, <1>3, <1>4, <1>5 DEF Next

LEMMA SInvInit == Init => SInv
BY KInvInit, IdleIsSound DEF Init, SInv, ItemLinesWhole, NameKeysFollowNames, NoRows

\* A version column on every table would do for what one row says and for what
\* the database compares: as long as no commit updates a row that changed since
\* it was loaded, every item line is whole or absent (models.py:101-102), every
\* name_key holds the folded name, and no owner has two categories of one name
\* (models.py:12-13, policies.py:24).
THEOREM VersionsSuffice ==
    Spec /\ [][NothingOverwritten]_vars
      => [](ItemLinesWhole /\ NameKeysFollowNames /\ CategoryNamesUnique)
<1>1. SInv => ItemLinesWhole /\ NameKeysFollowNames /\ CategoryNamesUnique
  BY DEF SInv, KInv, NameKeysFollowNames, NamesUnique, CategoryNamesUnique
<1> QED BY <1>1, SInvInit, SInvStep, PTL DEF Spec
-----------------------------------------------------------------------------
\* What a commit updates, its session has loaded.
LEMMA UpdatesWhatItLoaded == [NothingStale]_vars => [NothingOverwritten]_vars
BY DEF NothingStale, NothingOverwritten, Dirty

\* A commit that relies on nothing stale files expenses as it decided to.
LEMMA FilingLive ==
    ASSUME SInv, [Next]_vars, [NothingStale]_vars, rows' # rows,
           NEW e \in ExpenseIds \cap DOMAIN rows',
           e \in DOMAIN rows => rows[e].category # rows'[e].category
    PROVE  ~rows'[rows'[e].category].is_archived
<1>1. PICK r \in Requests : commit(r)
  BY OnlyCommitsWrite
<1> DEFINE s == session[r]
           c == rows'[e].category
<1>2. /\ s.pc = "commit" /\ session'[r] = Idle
      /\ Sound(s) /\ Tidy(s) /\ Constraints(rows')
      /\ Dirty(s) \subseteq DOMAIN s.seen \cap DOMAIN rows
      /\ \A id \in Dirty(s) : rows[id] = s.seen[id]
      /\ \A id \in DOMAIN rows' :
            IF id \in s.new \cup Dirty(s) THEN id \in DOMAIN s.now /\ rows'[id] = s.now[id]
            ELSE id \in DOMAIN rows /\ rows'[id] = rows[id]
  BY <1>1, Leaving, UpdatesWhatItLoaded
<1>3. e \in s.new \cup Dirty(s) /\ e \in DOMAIN s.now /\ rows'[e] = s.now[e]
  BY <1>2
<1>4. c \in DOMAIN s.now /\ ~s.now[c].is_archived
  BY <1>2, <1>3 DEF Sound, WellFiled
<1>5. c \in DOMAIN rows'
  BY <1>2 DEF Constraints, ReferencesExist
<1>6. rows'[c] = s.now[c]
  <2>1. CASE c \in s.new \cup Dirty(s)
    BY <1>2, <1>5, <2>1
  <2>2. CASE c \notin s.new \cup Dirty(s)
    <3>1. c \in DOMAIN s.seen /\ rows'[c] = rows[c]
      BY <1>2, <1>4, <1>5, <2>2 DEF Tidy
    <3>2. session[r] # Idle
      BY <1>2 DEF Idle
    <3>3. rows[c] = s.seen[c]
      BY <1>2, <3>1, <3>2 DEF NothingStale, Commits, vars
    <3>4. c \notin s.gone
      BY <1>1, <1>5 DEF commit, End, Synchronised
    <3> QED BY <2>2, <3>1, <3>3, <3>4 DEF Dirty
  <2> QED BY <2>1, <2>2
<1> QED BY <1>4, <1>6

\* The rule on archived categories relates two rows, and the version of the one
\* that is written does not tell: it holds as long as no commit relies on a row
\* that changed since it was loaded, the category it looked at included
\* (policies.py:55, expenses.py:100-104).
THEOREM FreshReadsSuffice == Spec /\ [][NothingStale]_vars => FiledUnderLiveCategories
<1>1. SInv /\ [Next]_vars /\ [NothingStale]_vars
      => [\A e \in ExpenseIds \cap DOMAIN rows' :
            LET c == rows'[e].category
            IN (IF e \in DOMAIN rows THEN rows[e].category # c ELSE TRUE)
               => ~rows'[c].is_archived]_rows
  BY FilingLive
<1>2. SInv /\ [Next]_vars /\ [NothingStale]_vars => SInv'
  BY SInvStep, UpdatesWhatItLoaded
<1> QED BY <1>1, <1>2, SInvInit, PTL DEF Spec, FiledUnderLiveCategories
-----------------------------------------------------------------------------
\* What a session loaded is what the rows still say.
UpToDate(s) == /\ DOMAIN s = Fields
               /\ \A id \in DOMAIN s.seen : id \in DOMAIN rows /\ rows[id] = s.seen[id]

Current == \A r \in Requests : UpToDate(session[r])

LEMMA LoadingCurrent ==
    ASSUME NEW s, UpToDate(s), NEW ids, ids \subseteq DOMAIN rows
    PROVE  UpToDate(rehydrate(s, ids))
BY DEF UpToDate, rehydrate, Complete, Fields

\* What a use case does in memory loads nothing.
LEMMA WorkingCurrent ==
    ASSUME NEW s, UpToDate(s)
    PROVE  /\ UpToDate(advance(s))
           /\ \A id, row : UpToDate(Edit(s, id, row)) /\ UpToDate(Added(s, id, row))
           /\ \A id : /\ UpToDate(delete(s, id))
                     /\ UpToDate([s EXCEPT !.item = id]) /\ UpToDate([s EXCEPT !.category = id])
BY DEF UpToDate, advance, Edit, Added, delete, Fields

LEMMA IdleCurrent == UpToDate(Idle)
BY DEF UpToDate, Idle, NoRows, Fields

\* A request that does not commit leaves every session up to date.
LEMMA GoingOnCurrent ==
    ASSUME TInv, Current, NEW r \in Requests
    PROVE  /\ End(r) => Current'
           /\ \A s : UpToDate(s) /\ Continue(r, s) => Current'
           /\ \A id, row, s : UpToDate(s) /\ insert(r, id, row, s) => Current'
<1>1. ASSUME NEW s, UpToDate(s), Continue(r, s) PROVE Current'
  <2>1. ASSUME NEW q \in Requests PROVE UpToDate(session[q])'
    <3>1. PICK x : x = session'[q] /\ UpToDate(x) /\ rows' = rows
      BY <1>1 DEF Continue, Current, TInv, IInv
    <3> QED BY <3>1 DEF UpToDate
  <2> QED BY <2>1 DEF Current
<1>2. End(r) => Continue(r, Idle)
  BY DEF End, Continue
<1> QED BY <1>1, <1>2, IdleCurrent DEF insert

LEMMA ExpensesCurrent ==
    ASSUME TInv, Current, NEW r \in Requests, get_expense(r) \/ use_category(r) \/ insert_expense(r)
    PROVE  Current'
<1> DEFINE o == session[r]
           c == session[r].cmd
<1>1. UpToDate(o)
  BY DEF Current
<1>2. CASE get_expense(r)
  <2> DEFINE s == rehydrate(o, {c.expense})
             l == IF c.op = "delete" THEN delete(s, c.expense)
                  ELSE IF c.line = Clear THEN Edit(s, c.expense, clear_item(s.now[c.expense]))
                  ELSE s
  <2>1. End(r) \/ (c.expense \in DOMAIN rows /\ Continue(r, advance(l)))
    <3>1. Proceed(r, /\ c.expense \in OwnedBy(c.owner, ExpenseIds)
                     /\ validate_item_line(rows[c.expense]), l)
      BY <1>2 DEF get_expense
    <3> HIDE DEF l
    <3> QED BY <3>1 DEF Proceed, OwnedBy
  <2>2. c.expense \in DOMAIN rows => UpToDate(s)
    BY <1>1, LoadingCurrent
  <2> HIDE DEF s
  <2>3. c.expense \in DOMAIN rows => UpToDate(advance(l))
    BY <2>2, WorkingCurrent
  <2> HIDE DEF l
  <2> QED BY <2>1, <2>3, GoingOnCurrent
<1>3. CASE use_category(r)
  <2> DEFINE g == rehydrate(o, {c.category})
             s == [g EXCEPT !.category = c.category]
             l == IF c.op = "update"
                  THEN Edit(s, c.expense, recategorise(s.now[c.expense], c.category)) ELSE s
  <2>1. End(r) \/ (c.category \in DOMAIN rows /\ Continue(r, advance(l)))
    <3>1. Proceed(r, /\ c.category \in OwnedBy(c.owner, CategoryIds)
                     /\ ensure_category_usable(s.now[c.category]), l)
      BY <1>3 DEF use_category
    <3> HIDE DEF l
    <3> QED BY <3>1 DEF Proceed, OwnedBy
  <2>2. c.category \in DOMAIN rows => UpToDate(g)
    BY <1>1, LoadingCurrent
  <2> HIDE DEF g
  <2>3. c.category \in DOMAIN rows => UpToDate(s)
    BY <2>2, WorkingCurrent
  <2> HIDE DEF s
  <2>4. c.category \in DOMAIN rows => UpToDate(advance(l))
    BY <2>3, WorkingCurrent
  <2> HIDE DEF l
  <2> QED BY <2>1, <2>4, GoingOnCurrent
<1>4. CASE insert_expense(r)
  <2>1. PICK e, row : insert(r, e, row, advance(Added(o, e, row)))
    BY <1>4 DEF insert_expense
  <2>2. UpToDate(Added(o, e, row))
    BY <1>1, WorkingCurrent
  <2> QED BY <2>1, <2>2, WorkingCurrent, GoingOnCurrent
<1> QED BY <1>2, <1>3, <1>4

LEMMA BucketsCurrent ==
    ASSUME TInv, Current, NEW r \in Requests,
           \/ get_category(r) \/ list_categories(r) \/ insert_category(r) \/ count_for_category(r)
           \/ get_item(r) \/ list_items(r) \/ insert_item(r) \/ count_for_item(r)
    PROVE  Current'
<1> DEFINE o == session[r]
           c == session[r].cmd
<1>1. UpToDate(o)
  BY DEF Current
<1>2. ASSUME NEW ids, NEW l, Continue(r, advance(l)), ids \subseteq DOMAIN rows,
             l = rehydrate(o, ids) \/ \E id, row : l = Edit(rehydrate(o, ids), id, row)
      PROVE  Current'
  <2>1. UpToDate(rehydrate(o, ids))
    BY <1>1, <1>2, LoadingCurrent
  <2>2. UpToDate(advance(l))
    BY <1>2, <2>1, WorkingCurrent
  <2> QED BY <1>2, <2>2, GoingOnCurrent
<1>3. ASSUME NEW l, Continue(r, advance(l)),
             (\E id, row : l = Edit(o, id, row)) \/ (\E id : l = delete(o, id))
      PROVE  Current'
  <2>1. UpToDate(advance(l))
    BY <1>1, <1>3, WorkingCurrent
  <2> QED BY <1>3, <2>1, GoingOnCurrent
<1>4. ASSUME NEW id, NEW row, insert(r, id, row, advance(Added(o, id, row))) PROVE Current'
  <2>1. UpToDate(advance(Added(o, id, row)))
    <3>1. UpToDate(Added(o, id, row))
      BY <1>1, WorkingCurrent
    <3> QED BY <3>1, WorkingCurrent
  <2> QED BY <1>4, <2>1, GoingOnCurrent
<1>5. \A owner, table : OwnedBy(owner, table) \subseteq DOMAIN rows
  BY DEF OwnedBy
<1>6. CASE get_category(r)
  <2> DEFINE s == rehydrate(o, {c.category})
             row == s.now[c.category]
             l == CASE c.op = "archive_category" -> Edit(s, c.category, archive(row))
                    [] c.op = "restore_category" -> Edit(s, c.category, restore(row))
                    [] OTHER                     -> s
  <2>1. End(r) \/ ({c.category} \subseteq DOMAIN rows /\ Continue(r, advance(l)))
    <3>1. Proceed(r, /\ c.category \in OwnedBy(c.owner, CategoryIds)
                     /\ c.op = "archive_category" => ~row.is_archived, l)
      BY <1>6 DEF get_category
    <3> HIDE DEF l
    <3> QED BY <3>1 DEF Proceed, OwnedBy
  <2>2. l = s \/ \E id, x : l = Edit(s, id, x)
    OBVIOUS
  <2> HIDE DEF l
  <2> QED BY <1>2, <2>1, <2>2, GoingOnCurrent
<1>7. CASE get_item(r)
  <2> DEFINE s == rehydrate(o, {c.item})
             row == s.now[c.item]
             l == CASE c.op = "archive_item" -> Edit(s, c.item, archive(row))
                    [] c.op = "restore_item" -> Edit(s, c.item, restore(row))
                    [] OTHER                 -> s
  <2>1. End(r) \/ ({c.item} \subseteq DOMAIN rows /\ Continue(r, advance(l)))
    <3>1. Proceed(r, /\ c.item \in OwnedBy(c.owner, ItemIds)
                     /\ c.op = "archive_item" => ~row.is_archived, l)
      BY <1>7 DEF get_item
    <3> HIDE DEF l
    <3> QED BY <3>1 DEF Proceed, OwnedBy
  <2>2. l = s \/ \E id, x : l = Edit(s, id, x)
    OBVIOUS
  <2> HIDE DEF l
  <2> QED BY <1>2, <2>1, <2>2, GoingOnCurrent
<1>8. CASE list_categories(r)
  <2> DEFINE existing == OwnedBy(c.owner, CategoryIds)
             s == rehydrate(o, existing)
             l == IF c.op = "rename_category"
                  THEN Edit(s, c.category, rename(s.now[c.category], c.name)) ELSE s
  <2>1. End(r) \/ Continue(r, advance(l))
    BY <1>8 DEF list_categories, Proceed
  <2>2. l = s \/ \E id, x : l = Edit(s, id, x)
    OBVIOUS
  <2>3. existing \subseteq DOMAIN rows
    BY <1>5
  <2> HIDE DEF l, existing
  <2> QED BY <1>2, <2>1, <2>2, <2>3, GoingOnCurrent
<1>9. CASE list_items(r)
  <2> DEFINE existing == OwnedBy(c.owner, ItemIds)
  <2>1. End(r) \/ Continue(r, advance(rehydrate(o, existing)))
    BY <1>9 DEF list_items, Proceed
  <2>2. existing \subseteq DOMAIN rows
    BY <1>5
  <2> HIDE DEF existing
  <2> QED BY <1>2, <2>1, <2>2, GoingOnCurrent
<1>10. CASE insert_category(r) \/ insert_item(r)
  BY <1>4, <1>10 DEF insert_category, insert_item
<1>11. CASE count_for_category(r) \/ count_for_item(r)
  <2>1. \/ End(r)
        \/ \E id : Continue(r, advance(delete(o, id)))
        \/ \E id, row : Continue(r, advance(Edit(o, id, row)))
    BY <1>11 DEF count_for_category, count_for_item, Proceed
  <2> QED BY <1>3, <2>1, GoingOnCurrent
<1> QED BY <1>6, <1>7, <1>8, <1>9, <1>10, <1>11

LEMMA ResolvingCurrent ==
    ASSUME TInv, Current, NEW r \in Requests, resolve_item(r)
    PROVE  Current'
<1> DEFINE o      == session[r]
           c      == session[r].cmd
           mine   == OwnedBy(c.owner, ItemIds)
           listed == rehydrate(o, mine)
           given  == rehydrate(o, {c.line.item})
           row    == NewBucket(c.owner, c.line.name)
<1>1. \/ End(r)
      \/ c.line.item \in mine /\ Continue(r, advance(WithItem(given, c.line.item)))
      \/ \E item : Continue(r, advance(WithItem(listed, item)))
      \/ \E item : insert(r, item, row, advance(WithItem(Added(listed, item, row), item)))
  BY DEF resolve_item, Proceed
<1>2. mine \subseteq DOMAIN rows
  BY DEF OwnedBy
<1>3. UpToDate(listed) /\ (c.line.item \in mine => UpToDate(given))
  <2>1. UpToDate(o)
    BY DEF Current
  <2> QED BY <1>2, <2>1, LoadingCurrent
<1> HIDE DEF listed, given, mine, row
<1>4. ASSUME NEW s, UpToDate(s), NEW item PROVE UpToDate(advance(WithItem(s, item)))
  <2>1. UpToDate(WithItem(s, item))
    BY <1>4, WorkingCurrent DEF WithItem
  <2> QED BY <2>1, WorkingCurrent
<1>5. \A item : UpToDate(Added(listed, item, row))
  BY <1>3, WorkingCurrent
<1> QED BY <1>1, <1>3, <1>4, <1>5, GoingOnCurrent

\* Who takes turns relies on nothing stale: nobody else's session is open when
\* rows are written, and the writer's closes.
LEMMA CurrentStep == TInv /\ Current /\ OneAtATime /\ [Next]_vars => Current'
<1> SUFFICES ASSUME TInv, Current, OneAtATime, [Next]_vars PROVE Current'
  OBVIOUS
<1>1. CASE UNCHANGED vars
  BY <1>1 DEF vars, Current, UpToDate
<1>2. ASSUME NEW r \in Requests, NEW c \in Commands, begin(r, c) PROVE Current'
  <2> DEFINE s == [Idle EXCEPT !.cmd = c, !.pc = first(c)]
  <2>1. Continue(r, s)
    BY <1>2 DEF begin, Continue
  <2>2. UpToDate(s)
    BY DEF UpToDate, Idle, NoRows, Fields
  <2> HIDE DEF s
  <2> QED BY <2>1, <2>2, GoingOnCurrent
<1>3. ASSUME NEW r \in Requests, crash(r) PROVE Current'
  BY <1>3, GoingOnCurrent DEF crash
<1>4. ASSUME NEW r \in Requests, commit(r) PROVE Current'
  <2>1. CASE End(r)
    BY <2>1, GoingOnCurrent
  <2>2. CASE ~End(r)
    <3>1. /\ session[r].pc = "commit"
          /\ session' = [session EXCEPT ![r] = Idle]
      BY <1>4, <2>2 DEF commit
    <3>2. session[r] # Idle
      BY <3>1 DEF Idle
    <3>3. ASSUME NEW q \in Requests PROVE UpToDate(session[q])'
      <4>1. session'[q] = Idle
        BY <3>1, <3>2 DEF OneAtATime, TInv, IInv
      <4> QED BY <4>1 DEF UpToDate, Idle, NoRows, Fields
    <3> QED BY <3>3 DEF Current
  <2> QED BY <2>1, <2>2
<1>5. ASSUME NEW r \in Requests, statement(r) PROVE Current'
  BY <1>4, <1>5, ExpensesCurrent, BucketsCurrent, ResolvingCurrent DEF statement
<1> QED BY <1>1, <1>2, <1>3, <1>5 DEF Next

LEMMA CurrentIsFresh == Current => [NothingStale]_vars
BY DEF Current, UpToDate, NothingStale

LEMMA CurrentInit == Init => Current
BY IdleCurrent DEF Init, Current

\* Every rule overlapping requests break, requests that take turns keep, crashes
\* and all: whole item lines (models.py:101-102), names and their keys
\* (models.py:12-13, policies.py:24), live categories (policies.py:55).
THEOREM TurnsSuffice ==
    Spec /\ []OneAtATime
      => [](ItemLinesWhole /\ NameKeysFollowNames /\ CategoryNamesUnique) /\ FiledUnderLiveCategories
<1>1. Spec /\ []OneAtATime => [][NothingStale]_vars
  BY TInvInit, TInvStep, CurrentInit, CurrentStep, CurrentIsFresh, PTL DEF Spec
<1>2. [NothingStale]_vars => [NothingOverwritten]_vars
  BY UpdatesWhatItLoaded
<1> QED BY <1>1, <1>2, VersionsSuffice, FreshReadsSuffice, PTL
-----------------------------------------------------------------------------
(* One step of the book a request.  Draft says what a session holds when   *)
(* it has sent this much of its use case: what it commits is then what     *)
(* the book makes of the command.                                          *)

Removes == {"remove_category", "remove_item"}

OnCategories == {"rename_category", "archive_category", "restore_category", "remove_category"}

OnItems == {"archive_item", "restore_item", "remove_item"}

\* The category or item a command is about.
Target(c) == IF c.op \in OnItems THEN c.item ELSE c.category

\* Which use case is at which statement, and what it has not yet done there.
Underway(s) ==
    /\ s.pc \in {"get_expense", "get_category", "get_item"} => DOMAIN s.now = {}
    /\ s.pc \in {"use_category", "resolve_item"} => ItemIds \cap DOMAIN s.now = {}
    /\ s.pc \notin {"insert_expense", "commit"} => s.new = {}
    /\ s.pc # "commit" => s.gone = {}
    /\ s.pc = "get_expense" => s.cmd.op \in {"update", "delete"}
    /\ s.pc \in {"use_category", "resolve_item"} => s.cmd.op \in {"record", "update"}
    /\ s.pc = "get_category" => s.cmd.op \in OnCategories
    /\ s.pc = "get_item" => s.cmd.op \in OnItems

\* A category or an item of that name, added.
Opens(s, table) == /\ s.gone = {}
                   /\ \E id \in table : /\ s.new = {id} /\ id \in DOMAIN s.now
                                        /\ s.now[id] = NewBucket(s.cmd.owner, s.cmd.name)

\* The category or item that was named, changed or to be deleted.
Handles(s) ==
    LET c == s.cmd
        b == Target(c)
    IN /\ s.new = {} /\ b \in DOMAIN s.seen /\ b \in DOMAIN s.now
       /\ s.gone # {} => s.gone = {b} /\ c.op \in Removes
       /\ c.op = "rename_category" => s.now[b].name = c.name /\ ~s.now[b].is_archived
       /\ c.op \in {"archive_category", "archive_item"}
             => ~s.seen[b].is_archived /\ s.now[b].is_archived
       /\ c.op \in {"restore_category", "restore_item"} => ~s.now[b].is_archived
       /\ c.op \in Removes /\ s.gone = {} => ~s.seen[b].is_archived /\ s.now[b].is_archived

\* Item i is the one the line names: found, or added for want of one.
Takes(s, i) ==
    LET line  == s.cmd.line
        added == s.new \cap ItemIds
    IN /\ measured(line) /\ i \in ItemIds \cap DOMAIN s.now
       /\ \/ line.item = i /\ i \in DOMAIN s.seen /\ added = {}
          \/ /\ line.item = None /\ i \in DOMAIN s.seen /\ added = {}
             /\ KeyOf[s.seen[i].name] = KeyOf[line.name]
          \/ /\ line.item = None /\ added = {i}
             /\ s.now[i] = NewBucket(s.cmd.owner, line.name)

\* The expense that was asked for.
Filled(s) ==
    LET plain == [owner |-> s.cmd.owner, category |-> s.category, item |-> None,
                  quantity |-> None, unit |-> None]
    IN IF s.item = None THEN plain ELSE set_item(plain, s.item, s.cmd.line)

\* Its category and item, before it is inserted.
Chosen(s) == /\ s.category = s.cmd.category
             /\ IF has_item(s.cmd) THEN Takes(s, s.item)
                ELSE s.item = None /\ s.new \cap ItemIds = {}

Records(s) == /\ Chosen(s)
              /\ s.gone = {}
              /\ \E e \in ExpenseIds : /\ s.new \ ItemIds = {e} /\ e \in DOMAIN s.now
                                       /\ s.now[e] = Filled(s)

\* The expense in hand, its line dropped and its category changed as asked.
Cleared(s) == LET e == s.cmd.expense
              IN /\ e \in DOMAIN s.seen /\ e \in DOMAIN s.now
                 /\ s.cmd.line = Clear => /\ s.now[e].item = None /\ s.now[e].quantity = None
                                          /\ s.now[e].unit = None

Refiled(s) == s.cmd.category # None => /\ s.category = s.cmd.category
                                       /\ s.now[s.cmd.expense].category = s.cmd.category

Updates(s) ==
    LET c == s.cmd
        e == s.cmd.expense
    IN /\ Cleared(s) /\ Refiled(s) /\ s.gone = {}
       /\ IF has_item(c) THEN /\ Takes(s, s.now[e].item) /\ s.new \subseteq ItemIds
                              /\ s.now[e].quantity = c.line.quantity
                              /\ s.now[e].unit = c.line.unit
          ELSE s.new = {}

Draft(s) ==
    LET op == s.cmd.op
    IN /\ DOMAIN s = Fields
       /\ Underway(s)
       /\ op = "record" => /\ s.pc = "resolve_item" => s.category = s.cmd.category
                           /\ s.pc = "insert_expense" => Chosen(s) /\ s.new \subseteq ItemIds
       /\ op = "update" => /\ s.pc \in {"use_category", "resolve_item"} => Cleared(s)
                           /\ s.pc = "resolve_item" => Refiled(s)
       /\ s.pc \in {"count_for_category", "count_for_item"} =>
             LET b == Target(s.cmd)
             IN b \in DOMAIN s.seen /\ b \in DOMAIN s.now
                /\ s.now[b].is_archived = s.seen[b].is_archived
       /\ s.pc = "commit" =>
             /\ op = "create_category" => Opens(s, CategoryIds)
             /\ op = "create_item" => Opens(s, ItemIds)
             /\ op \in OnCategories \cup OnItems => Handles(s)
             /\ op = "record" => Records(s)
             /\ op = "update" => Updates(s)
             /\ op = "delete" => s.new = {} /\ s.gone = {s.cmd.expense}

FInv == AInv /\ \A r \in Requests : Draft(session[r])
-----------------------------------------------------------------------------
\* What loading rows leaves in a session (repository.py:60-70).
LEMMA LoadedHolds ==
    ASSUME NEW s, DOMAIN s = Fields, NEW ids
    PROVE  LET l == rehydrate(s, ids)
           IN /\ DOMAIN l = Fields /\ l.cmd = s.cmd /\ l.pc = s.pc /\ l.new = s.new
              /\ l.gone = s.gone /\ l.category = s.category /\ l.item = s.item
              /\ DOMAIN l.seen = DOMAIN s.seen \cup ids
              /\ DOMAIN l.now = DOMAIN s.now \cup ids
              /\ \A id \in DOMAIN s.seen : l.seen[id] = s.seen[id]
              /\ \A id \in DOMAIN s.now : l.now[id] = s.now[id]
              /\ \A id \in ids \ DOMAIN s.seen : l.seen[id] = rows[id]
              /\ \A id \in ids \ DOMAIN s.now : l.now[id] = to_domain(rows[id])
BY DEF rehydrate, Complete, Fields

\* What work in memory leaves in it.
LEMMA EditedHolds ==
    ASSUME NEW s, DOMAIN s = Fields, NEW id, NEW row
    PROVE  LET l == Edit(s, id, row)
           IN /\ DOMAIN l = Fields /\ l.cmd = s.cmd /\ l.pc = s.pc /\ l.new = s.new
              /\ l.gone = s.gone /\ l.category = s.category /\ l.item = s.item
              /\ l.seen = s.seen
              /\ DOMAIN l.now = DOMAIN s.now \cup {id} /\ l.now[id] = row
              /\ \A i \in DOMAIN s.now \ {id} : l.now[i] = s.now[i]
BY DEF Edit, Override, Fields

LEMMA AddedHolds ==
    ASSUME NEW s, DOMAIN s = Fields, NEW id, NEW row
    PROVE  LET l == Added(s, id, row)
           IN /\ DOMAIN l = Fields /\ l.cmd = s.cmd /\ l.pc = s.pc
              /\ l.new = s.new \cup {id}
              /\ l.gone = s.gone /\ l.category = s.category /\ l.item = s.item
              /\ l.seen = s.seen
              /\ DOMAIN l.now = DOMAIN s.now \cup {id} /\ l.now[id] = row
              /\ \A i \in DOMAIN s.now \ {id} : l.now[i] = s.now[i]
<1> DEFINE e == Edit(s, id, row)
<1>1. /\ DOMAIN e = Fields /\ e.cmd = s.cmd /\ e.pc = s.pc /\ e.new = s.new
      /\ e.gone = s.gone /\ e.category = s.category /\ e.item = s.item /\ e.seen = s.seen
      /\ DOMAIN e.now = DOMAIN s.now \cup {id} /\ e.now[id] = row
      /\ \A i \in DOMAIN s.now \ {id} : e.now[i] = s.now[i]
  BY EditedHolds
<1>2. Added(s, id, row) = [e EXCEPT !.new = @ \cup {id}]
  BY DEF Added
<1> HIDE DEF e
<1> QED BY <1>1, <1>2 DEF Fields

LEMMA NotedHolds ==
    ASSUME NEW s, DOMAIN s = Fields, NEW id
    PROVE  /\ LET l == delete(s, id)
              IN /\ DOMAIN l = Fields /\ l.cmd = s.cmd /\ l.pc = s.pc /\ l.seen = s.seen
                 /\ l.now = s.now /\ l.new = s.new /\ l.gone = s.gone \cup {id}
                 /\ l.category = s.category /\ l.item = s.item
           /\ LET l == [s EXCEPT !.category = id]
              IN /\ DOMAIN l = Fields /\ l.cmd = s.cmd /\ l.pc = s.pc /\ l.seen = s.seen
                 /\ l.now = s.now /\ l.new = s.new /\ l.gone = s.gone
                 /\ l.category = id /\ l.item = s.item
           /\ LET l == [s EXCEPT !.item = id]
              IN /\ DOMAIN l = Fields /\ l.cmd = s.cmd /\ l.pc = s.pc /\ l.seen = s.seen
                 /\ l.now = s.now /\ l.new = s.new /\ l.gone = s.gone
                 /\ l.category = s.category /\ l.item = id
BY DEF delete, Fields

LEMMA AdvancedHolds ==
    ASSUME NEW s, DOMAIN s = Fields
    PROVE  LET l == advance(s)
           IN /\ DOMAIN l = Fields /\ l.cmd = s.cmd /\ l.pc = next(s.cmd, s.pc)
              /\ l.seen = s.seen /\ l.now = s.now /\ l.new = s.new /\ l.gone = s.gone
              /\ l.category = s.category /\ l.item = s.item
BY DEF advance, Fields

\* A request goes on with a session that is under way, and the others stay.
LEMMA SteppingDraft ==
    ASSUME FInv, AInv', NEW r \in Requests, NEW s, Continue(r, s), Draft(s)
    PROVE  FInv'
<1>1. /\ session'[r] = s
      /\ \A q \in Requests \ {r} : session'[q] = session[q]
  BY DEF Continue, FInv, AInv, TInv, IInv
<1>2. ASSUME NEW q \in Requests PROVE Draft(session[q])'
  <2>1. PICK x : x = session'[q] /\ Draft(x)
    BY <1>1 DEF FInv
  <2> QED BY <2>1
<1> QED BY <1>2 DEF FInv

LEMMA IdleDraft == Draft(Idle)
BY DEF Draft, Underway, Idle, NoRows, Fields

LEMMA EndingDraft ==
    ASSUME FInv, AInv', NEW r \in Requests, End(r)
    PROVE  FInv'
<1>1. Continue(r, Idle)
  BY DEF End, Continue
<1> QED BY <1>1, IdleDraft, SteppingDraft

\* A request starts with nothing in hand.
LEMMA BeginningDraft ==
    ASSUME FInv, AInv', NEW r \in Requests, NEW c \in Commands, begin(r, c)
    PROVE  FInv'
<1> DEFINE s == [Idle EXCEPT !.cmd = c, !.pc = first(c)]
<1>1. Continue(r, s)
  BY DEF begin, Continue
<1>2. /\ DOMAIN s = Fields /\ s.seen = NoRows /\ s.now = NoRows /\ s.new = {} /\ s.gone = {}
      /\ s.pc = first(c) /\ s.cmd = c
  BY DEF Idle, Fields
<1>3. c.op \in Ops
  BY CommandAssumption DEF Command
<1>4. /\ first(c) \notin {"count_for_category", "count_for_item", "commit", "resolve_item",
                          "insert_expense"}
      /\ first(c) = "get_expense" => c.op \in {"update", "delete"}
      /\ first(c) = "use_category" => c.op = "record"
      /\ first(c) = "get_category" => c.op \in OnCategories
      /\ first(c) = "get_item" => c.op \in OnItems
  BY <1>3 DEF first, Ops, OnCategories, OnItems
<1> HIDE DEF s
<1>5. Underway(s)
  BY <1>2, <1>4 DEF Underway, NoRows
<1>6. Draft(s)
  BY <1>2, <1>4, <1>5 DEF Draft
<1> QED BY <1>1, <1>6, SteppingDraft

\* What a statement may rely on.
LEMMA StandingDraft ==
    ASSUME FInv, NEW r \in Requests, session[r].pc # "idle"
    PROVE  LET o == session[r]
           IN /\ Draft(o) /\ Underway(o) /\ DOMAIN o = Fields /\ Typed(o) /\ Tidy(o) /\ Placed(o)
              /\ Routed(o) /\ Counting(o) /\ RowsHeld /\ RowsTyped
              /\ o.cmd \in Commands /\ o.cmd \in Command
              /\ DOMAIN o.seen \subseteq DOMAIN o.now
BY StandingTyped DEF FInv, AInv, Draft, Tidy
-----------------------------------------------------------------------------
\* Loading an expense drops its line or marks it, as asked (expenses.py:122-146, 152-155).
LEMMA GettingExpenseDraft ==
    ASSUME FInv, AInv', NEW r \in Requests, get_expense(r)
    PROVE  FInv'
<1> DEFINE o == session[r]
           c == o.cmd
           e == c.expense
           s == rehydrate(o, {e})
           l == IF c.op = "delete" THEN delete(s, e)
                ELSE IF c.line = Clear THEN Edit(s, e, clear_item(s.now[e]))
                ELSE s
<1>1. /\ o.pc = "get_expense"
      /\ End(r) \/ (e \in OwnedBy(c.owner, ExpenseIds) /\ Continue(r, advance(l)))
  <2>1. Proceed(r, /\ e \in OwnedBy(c.owner, ExpenseIds)
                   /\ validate_item_line(rows[e]), l)
    BY DEF get_expense
  <2> HIDE DEF l
  <2> QED BY <2>1 DEF Proceed, get_expense
<1>2. /\ DOMAIN o = Fields /\ DOMAIN o.now = {} /\ DOMAIN o.seen = {} /\ o.new = {} /\ o.gone = {}
      /\ c.op \in {"update", "delete"} /\ RowsTyped /\ c \in Commands /\ c \in Command
  BY <1>1, StandingDraft DEF Underway
<1>3. CASE End(r)
  BY <1>3, EndingDraft
<1>4. CASE e \in OwnedBy(c.owner, ExpenseIds) /\ Continue(r, advance(l))
  <2>1. e \in ExpenseIds \cap DOMAIN rows
    BY <1>4 DEF OwnedBy
  <2>2. /\ DOMAIN s = Fields /\ s.cmd = c /\ s.pc = "get_expense" /\ s.new = {} /\ s.gone = {}
        /\ DOMAIN s.seen = {e} /\ DOMAIN s.now = {e} /\ s.now[e] = to_domain(rows[e])
    BY <1>1, <1>2, LoadedHolds
  <2>3. s.now[e] \in ExpenseRow
    <3>1. e \in Ids /\ rows[e] \in Row(e)
      BY <1>2, <2>1 DEF RowsTyped, Ids
    <3>2. to_domain(rows[e]) \in Row(e)
      BY <3>1, Mapping
    <3> QED BY <2>1, <2>2, <3>2, Rows
  <2> HIDE DEF s
  <2>4. /\ DOMAIN l = Fields /\ l.cmd = c /\ l.pc = "get_expense" /\ l.new = {}
        /\ DOMAIN l.seen = {e} /\ DOMAIN l.now = {e}
        /\ l.gone = (IF c.op = "delete" THEN {e} ELSE {})
    <3>1. CASE c.op = "delete"
      BY <2>2, <3>1, NotedHolds
    <3>2. CASE c.op # "delete" /\ c.line = Clear
      <4> DEFINE row == clear_item(s.now[e])
      <4>1. l = Edit(s, e, row)
        BY <3>2
      <4> HIDE DEF row, l
      <4> QED BY <2>2, <3>2, <4>1, EditedHolds
    <3>3. CASE c.op # "delete" /\ c.line # Clear
      BY <2>2, <3>3
    <3> QED BY <3>1, <3>2, <3>3
  <2>5. c.op # "delete" /\ c.line = Clear =>
           l.now[e].item = None /\ l.now[e].quantity = None /\ l.now[e].unit = None
    <3> HAVE c.op # "delete" /\ c.line = Clear
    <3> DEFINE row == clear_item(s.now[e])
    <3>1. row.item = None /\ row.quantity = None /\ row.unit = None
      BY <2>3 DEF clear_item, ExpenseRow
    <3>2. l = Edit(s, e, row)
      OBVIOUS
    <3> HIDE DEF row, l
    <3>3. l.now[e] = row
      BY <2>2, <3>2, EditedHolds
    <3> QED BY <3>1, <3>3
  <2> HIDE DEF l
  <2> DEFINE a == advance(l)
  <2>6. DOMAIN a = Fields /\ a.pc = next(c, "get_expense")
    BY <2>4, AdvancedHolds
  <2>7. /\ a.cmd = c /\ a.new = {} /\ DOMAIN a.seen = {e} /\ DOMAIN a.now = {e}
        /\ a.now = l.now /\ a.gone = l.gone
    BY <2>4, AdvancedHolds
  <2>8. /\ a.pc \in {"use_category", "resolve_item", "commit"}
        /\ a.pc = "use_category" => c.category # None
        /\ a.pc = "resolve_item" => has_item(c)
        /\ a.pc \in {"resolve_item", "commit"} => c.category = None
        /\ a.pc = "commit" => ~has_item(c)
    BY <2>6 DEF next
  <2>9. c.op = "delete" => a.pc = "commit"
    BY <1>2, <2>8, CommandAssumption DEF has_item
  <2> HIDE DEF a
  <2>10. Underway(a)
    BY <1>2, <2>1, <2>4, <2>7, <2>8, <2>9, IdAssumption DEF Underway
  <2>11. c.op = "update" => Cleared(a)
    BY <2>5, <2>7 DEF Cleared
  <2>12. c.op = "update" /\ a.pc = "resolve_item" => Refiled(a)
    BY <2>7, <2>8 DEF Refiled
  <2>13. c.op = "update" /\ a.pc = "commit" => Updates(a)
    BY <2>4, <2>7, <2>8, <2>11 DEF Updates, Refiled
  <2>14. c.op = "delete" => a.new = {} /\ a.gone = {e}
    BY <2>4, <2>7
  <2>15. DOMAIN a = Fields
    BY <2>6 DEF a
  <2>16. c.op \notin OnCategories \cup OnItems
    BY <1>2 DEF OnCategories, OnItems
  <2>17. Draft(a)
    BY <1>2, <2>7, <2>8, <2>10, <2>11, <2>12, <2>13, <2>14, <2>15, <2>16 DEF Draft
  <2> QED BY <1>4, <2>17, SteppingDraft DEF a
<1> QED BY <1>1, <1>3, <1>4

\* Looking at the category, and re-filing under it (expenses.py:96-100, 126-131).
LEMMA UsingCategoryDraft ==
    ASSUME FInv, AInv', NEW r \in Requests, use_category(r)
    PROVE  FInv'
<1> DEFINE o == session[r]
           c == o.cmd
           e == c.expense
           h == rehydrate(o, {c.category})
           s == [h EXCEPT !.category = c.category]
           l == IF c.op = "update" THEN Edit(s, e, recategorise(s.now[e], c.category)) ELSE s
<1>1. /\ o.pc = "use_category"
      /\ End(r) \/ (c.category \in OwnedBy(c.owner, CategoryIds) /\ Continue(r, advance(l)))
  <2>1. Proceed(r, /\ c.category \in OwnedBy(c.owner, CategoryIds)
                   /\ ensure_category_usable(s.now[c.category]), l)
    BY DEF use_category
  <2> HIDE DEF l
  <2> QED BY <2>1 DEF Proceed, use_category
<1>2. /\ DOMAIN o = Fields /\ ItemIds \cap DOMAIN o.now = {} /\ o.new = {} /\ o.gone = {}
      /\ c.op \in {"record", "update"} /\ c \in Command /\ Typed(o) /\ Tidy(o) /\ RowsHeld
      /\ c.op = "update" => Cleared(o)
  BY <1>1, StandingDraft DEF Underway, Draft
<1>3. CASE End(r)
  BY <1>3, EndingDraft
<1>4. CASE c.category \in OwnedBy(c.owner, CategoryIds) /\ Continue(r, advance(l))
  <2>1. c.category \in CategoryIds
    BY <1>4 DEF OwnedBy
  <2>2. /\ DOMAIN h = Fields /\ h.cmd = c /\ h.pc = "use_category" /\ h.new = {} /\ h.gone = {}
        /\ h.item = o.item
        /\ DOMAIN h.seen = DOMAIN o.seen \cup {c.category}
        /\ DOMAIN h.now = DOMAIN o.now \cup {c.category}
        /\ \A id \in DOMAIN o.now : h.now[id] = o.now[id]
    BY <1>1, <1>2, LoadedHolds
  <2> HIDE DEF h
  <2>3. /\ DOMAIN s = Fields /\ s.cmd = c /\ s.pc = "use_category" /\ s.new = {} /\ s.gone = {}
        /\ s.item = o.item /\ s.category = c.category /\ s.seen = h.seen /\ s.now = h.now
    BY <2>2, NotedHolds
  <2> HIDE DEF s
  <2>4. c.op = "update" => e \in ExpenseIds \cap DOMAIN o.now /\ e \in DOMAIN o.seen
                           /\ s.now[e] = o.now[e] /\ o.now[e] \in ExpenseRow
    <3> HAVE c.op = "update"
    <3>1. e \in DOMAIN o.now /\ e \in DOMAIN o.seen /\ e \in Ids
      BY <1>2 DEF Cleared, Tidy, RowsHeld
    <3>2. e \in ExpenseIds
      BY <1>2, <3>1, Rows DEF Command
    <3> QED BY <1>2, <2>2, <2>3, <3>1, <3>2, Rows DEF Typed
  <2> DEFINE row == recategorise(s.now[e], c.category)
  <2>5. c.op = "update" => /\ row.category = c.category /\ row.item = o.now[e].item
                           /\ row.quantity = o.now[e].quantity /\ row.unit = o.now[e].unit
    BY <2>4 DEF recategorise, ExpenseRow
  <2> HIDE DEF row
  <2>6. /\ DOMAIN l = Fields /\ l.cmd = c /\ l.pc = "use_category" /\ l.new = {} /\ l.gone = {}
        /\ l.item = o.item /\ l.category = c.category /\ l.seen = h.seen
        /\ DOMAIN l.now = DOMAIN o.now \cup {c.category}
        /\ c.op = "update" => l.now[e] = row
    BY <2>2, <2>3, <2>4, EditedHolds DEF row
  <2> HIDE DEF l
  <2> DEFINE a == advance(l)
  <2>7. /\ DOMAIN a = Fields /\ a.pc = next(c, "use_category")
        /\ a.cmd = c /\ a.new = {} /\ a.gone = {} /\ a.item = o.item /\ a.category = c.category
        /\ a.seen = h.seen /\ a.now = l.now
    BY <2>6, AdvancedHolds
  <2>8. /\ a.pc \in {"resolve_item", "insert_expense", "commit"}
        /\ a.pc \in {"insert_expense", "commit"} => ~has_item(c)
        /\ a.pc = "insert_expense" => c.op = "record"
        /\ a.pc = "commit" => c.op = "update"
    BY <1>2, <2>7 DEF next
  <2> HIDE DEF a
  <2>9. Underway(a)
    BY <1>2, <2>1, <2>6, <2>7, <2>8, IdAssumption DEF Underway
  <2>10. a.pc = "insert_expense" => Chosen(a) /\ a.new \subseteq ItemIds
    BY <1>2, <2>7, <2>8 DEF Chosen, Typed
  <2>11. c.op = "update" => Cleared(a) /\ Refiled(a)
    <3> HAVE c.op = "update"
    <3>1. e \in DOMAIN a.seen /\ e \in DOMAIN a.now /\ a.now[e] = row
      BY <2>2, <2>4, <2>6, <2>7
    <3> QED BY <1>2, <2>5, <2>7, <3>1 DEF Cleared, Refiled
  <2>12. a.pc = "commit" => Updates(a)
    BY <2>7, <2>8, <2>11 DEF Updates
  <2>13. c.op \notin OnCategories \cup OnItems
    BY <1>2 DEF OnCategories, OnItems
  <2>14. Draft(a)
    BY <1>2, <2>7, <2>8, <2>9, <2>10, <2>11, <2>12, <2>13 DEF Draft
  <2> QED BY <1>4, <2>14, SteppingDraft DEF a
<1> QED BY <1>1, <1>3, <1>4

\* Finding or making the item, and measuring the expense (items.py:100-133).
LEMMA ResolvingDraft ==
    ASSUME FInv, AInv', NEW r \in Requests, resolve_item(r)
    PROVE  FInv'
<1> DEFINE o      == session[r]
           c      == o.cmd
           e      == c.expense
           mine   == OwnedBy(c.owner, ItemIds)
           listed == rehydrate(o, mine)
           given  == rehydrate(o, {c.line.item})
           row    == NewBucket(c.owner, c.line.name)
<1>1. /\ o.pc = "resolve_item"
      /\ \/ End(r)
         \/ /\ measured(c.line)
            /\ \/ c.line.item \in mine /\ Continue(r, advance(WithItem(given, c.line.item)))
               \/ \E i \in Reusable(c.owner, c.line.name) :
                     c.line.item = None /\ Continue(r, advance(WithItem(listed, i)))
               \/ \E i \in Fresh(ItemIds) :
                     /\ c.line.item = None
                     /\ Continue(r, advance(WithItem(Added(listed, i, row), i)))
  BY DEF resolve_item, Proceed, insert
<1>2. /\ Draft(o) /\ DOMAIN o = Fields /\ ItemIds \cap DOMAIN o.now = {} /\ o.new = {}
      /\ o.gone = {} /\ c.op \in {"record", "update"} /\ c \in Command /\ has_item(c)
      /\ Typed(o) /\ Tidy(o) /\ RowsHeld /\ DOMAIN o.seen \subseteq DOMAIN o.now
      /\ DOMAIN o.now \subseteq Ids
  <2>1. /\ Draft(o) /\ DOMAIN o = Fields /\ Underway(o) /\ c \in Command /\ Routed(o)
        /\ Typed(o) /\ Tidy(o) /\ RowsHeld /\ DOMAIN o.seen \subseteq DOMAIN o.now
    BY <1>1, StandingDraft
  <2> QED BY <1>1, <2>1 DEF Underway, Routed, Tidy, RowsHeld
<1>3. c.op = "update" => /\ e \in ExpenseIds /\ e \in DOMAIN o.seen /\ o.now[e] \in ExpenseRow
                         /\ Cleared(o) /\ Refiled(o)
  <2> HAVE c.op = "update"
  <2>1. Cleared(o) /\ Refiled(o)
    BY <1>1, <1>2 DEF Draft
  <2>2. e \in DOMAIN o.seen /\ e \in DOMAIN o.now /\ e \in Ids
    BY <1>2, <2>1 DEF Cleared
  <2>3. e \in ExpenseIds
    BY <2>2, <1>2, Rows DEF Command
  <2> QED BY <1>2, <2>1, <2>2, <2>3, Rows DEF Typed
<1>4. ASSUME NEW y, NEW i, Continue(r, advance(WithItem(y, i))),
             DOMAIN y = Fields, y.cmd = c, y.pc = "resolve_item", y.gone = {},
             y.category = o.category, y.new \subseteq ItemIds,
             DOMAIN o.seen \subseteq DOMAIN y.seen, DOMAIN o.now \subseteq DOMAIN y.now,
             \A id \in DOMAIN o.now : y.now[id] = o.now[id],
             Takes(y, i)
      PROVE  FInv'
  <2> DEFINE l == WithItem(y, i)
             a == advance(l)
             edited == set_item(y.now[e], i, c.line)
  <2>1. i \in ItemIds \cap DOMAIN y.now
    BY <1>4 DEF Takes
  <2>2. c.op = "update" => /\ e \in DOMAIN y.now /\ y.now[e] = o.now[e] /\ e # i
                           /\ edited.item = i /\ edited.category = o.now[e].category
                           /\ edited.quantity = c.line.quantity /\ edited.unit = c.line.unit
    <3> HAVE c.op = "update"
    <3>1. e \in DOMAIN y.now /\ y.now[e] = o.now[e] /\ e # i
      BY <1>2, <1>3, <1>4, <2>1, IdAssumption
    <3> QED BY <1>3, <3>1 DEF set_item, ExpenseRow
  <2> HIDE DEF edited
  <2>3. /\ DOMAIN l = Fields /\ l.cmd = c /\ l.pc = "resolve_item" /\ l.gone = {}
        /\ l.category = o.category /\ l.new = y.new /\ l.seen = y.seen
        /\ c.op = "record" => l.item = i /\ l.now = y.now
        /\ c.op = "update" => /\ DOMAIN l.now = DOMAIN y.now /\ l.now[e] = edited
                              /\ l.now[i] = y.now[i]
    <3>1. CASE c.op = "record"
      <4>1. l = [y EXCEPT !.item = i]
        BY <1>4, <3>1 DEF WithItem
      <4> HIDE DEF l
      <4> QED BY <1>4, <3>1, <4>1, NotedHolds
    <3>2. CASE c.op = "update"
      <4>1. l = Edit(y, e, edited)
        BY <1>4, <3>2 DEF WithItem, edited
      <4> HIDE DEF l
      <4>2. /\ DOMAIN l = Fields /\ l.cmd = y.cmd /\ l.pc = y.pc /\ l.new = y.new
            /\ l.gone = y.gone /\ l.category = y.category /\ l.seen = y.seen
            /\ DOMAIN l.now = DOMAIN y.now \cup {e} /\ l.now[e] = edited
            /\ \A id \in DOMAIN y.now \ {e} : l.now[id] = y.now[id]
        BY <1>4, <4>1, EditedHolds
      <4> QED BY <1>4, <2>1, <2>2, <3>2, <4>2
    <3> QED BY <1>2, <3>1, <3>2
  <2> HIDE DEF l
  <2>4. /\ DOMAIN a = Fields /\ a.cmd = c /\ a.pc = next(c, "resolve_item") /\ a.gone = {}
        /\ a.category = o.category /\ a.new = y.new /\ a.seen = y.seen /\ a.now = l.now
        /\ a.item = l.item
    BY <2>3, AdvancedHolds
  <2>5. /\ c.op = "record" => a.pc = "insert_expense"
        /\ c.op = "update" => a.pc = "commit"
    BY <2>4 DEF next
  <2> HIDE DEF a
  <2>6. Takes(a, i)
    <3>1. i \in DOMAIN a.now /\ a.now[i] = y.now[i]
      BY <1>2, <2>1, <2>3, <2>4
    <3> QED BY <1>4, <2>4, <3>1 DEF Takes
  <2>7. c.op = "record" => Chosen(a)
    BY <1>1, <1>2, <2>3, <2>4, <2>6 DEF Chosen, Draft
  <2>8. c.op = "update" => Updates(a)
    <3> HAVE c.op = "update"
    <3>1. a.now[e] = edited /\ e \in DOMAIN a.seen /\ e \in DOMAIN a.now
      BY <1>3, <1>4, <2>2, <2>3, <2>4
    <3>2. Cleared(a)
      BY <1>2, <2>4, <3>1 DEF Cleared, has_item
    <3>3. Refiled(a)
      BY <1>3, <2>2, <2>4, <3>1 DEF Refiled
    <3> QED BY <1>2, <1>4, <2>2, <2>4, <2>6, <3>1, <3>2, <3>3 DEF Updates
  <2>9. Underway(a)
    BY <1>2, <2>4, <2>5 DEF Underway
  <2>10. c.op \notin OnCategories \cup OnItems
    BY <1>2 DEF OnCategories, OnItems
  <2>11. Draft(a)
    BY <1>2, <1>4, <2>4, <2>5, <2>7, <2>8, <2>9, <2>10 DEF Draft
  <2>12. Continue(r, a)
    BY <1>4 DEF a, l
  <2> QED BY <2>11, <2>12, SteppingDraft
<1>5. mine \subseteq ItemIds /\ mine \cap DOMAIN o.now = {} /\ mine \cap DOMAIN o.seen = {}
  BY <1>2 DEF OwnedBy
<1>6. ASSUME measured(c.line), c.line.item \in mine,
             Continue(r, advance(WithItem(given, c.line.item)))
      PROVE  FInv'
  <2> DEFINE i == c.line.item
  <2>1. /\ DOMAIN given = Fields /\ given.cmd = c /\ given.pc = "resolve_item" /\ given.gone = {}
        /\ given.category = o.category /\ given.new = {}
        /\ DOMAIN given.seen = DOMAIN o.seen \cup {i} /\ DOMAIN given.now = DOMAIN o.now \cup {i}
        /\ \A id \in DOMAIN o.now : given.now[id] = o.now[id]
    BY <1>1, <1>2, LoadedHolds
  <2> HIDE DEF given
  <2>2. Takes(given, i)
    BY <1>5, <1>6, <2>1 DEF Takes
  <2> QED BY <1>4, <1>6, <2>1, <2>2
<1>7. /\ DOMAIN listed = Fields /\ listed.cmd = c /\ listed.pc = "resolve_item"
      /\ listed.gone = {} /\ listed.category = o.category /\ listed.new = {}
      /\ DOMAIN listed.seen = DOMAIN o.seen \cup mine
      /\ DOMAIN listed.now = DOMAIN o.now \cup mine
      /\ \A id \in DOMAIN o.now : listed.now[id] = o.now[id]
      /\ \A id \in mine : listed.seen[id] = rows[id]
  BY <1>1, <1>2, <1>5, LoadedHolds
<1> HIDE DEF given, listed
<1>8. ASSUME measured(c.line), NEW i \in Reusable(c.owner, c.line.name), c.line.item = None,
             Continue(r, advance(WithItem(listed, i)))
      PROVE  FInv'
  <2>1. i \in mine /\ KeyOf[rows[i].name] = KeyOf[c.line.name]
    BY DEF Reusable
  <2> HIDE DEF mine
  <2>2. Takes(listed, i)
    BY <1>5, <1>7, <1>8, <2>1 DEF Takes
  <2> QED BY <1>4, <1>7, <1>8, <2>2
<1>9. ASSUME measured(c.line), NEW i \in Fresh(ItemIds), c.line.item = None,
             Continue(r, advance(WithItem(Added(listed, i, row), i)))
      PROVE  FInv'
  <2> DEFINE y == Added(listed, i, row)
  <2>1. i \in ItemIds /\ i \notin DOMAIN o.now /\ i \notin mine
    <3>1. i \in ItemIds /\ i \notin minted
      BY DEF Fresh
    <3> QED BY <1>2, <3>1 DEF OwnedBy, RowsHeld
  <2> HIDE DEF row, mine
  <2>2. /\ DOMAIN y = Fields /\ y.cmd = c /\ y.pc = "resolve_item" /\ y.gone = {}
        /\ y.category = o.category /\ y.new = {i} /\ y.seen = listed.seen
        /\ DOMAIN y.now = DOMAIN listed.now \cup {i} /\ y.now[i] = row
        /\ \A id \in DOMAIN listed.now \ {i} : y.now[id] = listed.now[id]
    BY <1>7, AddedHolds
  <2> HIDE DEF y
  <2>3. Takes(y, i)
    BY <1>9, <2>1, <2>2 DEF Takes, row
  <2>4. \A id \in DOMAIN o.now : y.now[id] = o.now[id]
    BY <1>7, <2>1, <2>2
  <2>5. Continue(r, advance(WithItem(y, i)))
    BY <1>9 DEF y
  <2> QED BY <1>4, <1>7, <2>1, <2>2, <2>3, <2>4, <2>5
<1> HIDE DEF row, mine
<1> QED BY <1>1, <1>6, <1>8, <1>9, EndingDraft

\* The new expense is the one that was asked for (expenses.py:106-118).
LEMMA InsertingExpenseDraft ==
    ASSUME FInv, AInv', NEW r \in Requests, insert_expense(r)
    PROVE  FInv'
<1> DEFINE o == session[r]
           c == o.cmd
           row == Filled(o)
<1>1. PICK e \in Fresh(ExpenseIds) :
         o.pc = "insert_expense" /\ (End(r) \/ Continue(r, advance(Added(o, e, row))))
  BY DEF insert_expense, insert, Filled
<1>2. /\ DOMAIN o = Fields /\ Chosen(o) /\ o.new \subseteq ItemIds /\ o.gone = {}
      /\ c.op = "record" /\ e \in ExpenseIds
  BY <1>1, StandingDraft DEF Draft, Underway, Placed, Fresh
<1>3. CASE Continue(r, advance(Added(o, e, row)))
  <2> DEFINE l == Added(o, e, row)
             a == advance(l)
  <2> HIDE DEF row
  <2>1. /\ DOMAIN l = Fields /\ l.cmd = c /\ l.pc = o.pc /\ l.new = o.new \cup {e} /\ l.gone = {}
        /\ l.category = o.category /\ l.item = o.item /\ l.seen = o.seen
        /\ DOMAIN l.now = DOMAIN o.now \cup {e} /\ l.now[e] = row
        /\ \A i \in DOMAIN o.now \ {e} : l.now[i] = o.now[i]
    BY <1>2, AddedHolds
  <2> HIDE DEF l
  <2>2. /\ DOMAIN a = Fields /\ a.cmd = c /\ a.pc = next(c, "insert_expense")
        /\ a.new = o.new \cup {e} /\ a.gone = {}
        /\ a.category = o.category /\ a.item = o.item /\ a.seen = o.seen /\ a.now = l.now
    BY <1>1, <2>1, AdvancedHolds
  <2>3. a.pc = "commit"
    BY <2>2 DEF next
  <2> HIDE DEF a
  <2>4. a.new \cap ItemIds = o.new /\ a.new \ ItemIds = {e}
    BY <1>2, <2>2, IdAssumption
  <2>5. Chosen(a)
    <3>1. CASE has_item(c)
      <4>1. Takes(o, o.item)
        BY <1>2, <3>1 DEF Chosen
      <4>2. o.item # e /\ o.item \in DOMAIN o.now
        BY <1>2, <4>1, IdAssumption DEF Takes
      <4>3. Takes(a, o.item)
        BY <1>2, <2>1, <2>2, <2>4, <4>1, <4>2 DEF Takes
      <4> QED BY <1>2, <2>2, <3>1, <4>3 DEF Chosen
    <3>2. CASE ~has_item(c)
      BY <1>2, <2>2, <2>4, <3>2 DEF Chosen
    <3> QED BY <3>1, <3>2
  <2>6. Records(a)
    <3>1. a.now[e] = Filled(a) /\ e \in DOMAIN a.now
      BY <2>1, <2>2 DEF row, Filled
    <3> QED BY <1>2, <2>2, <2>4, <2>5, <3>1 DEF Records
  <2>7. c.op \notin OnCategories \cup OnItems
    BY <1>2 DEF OnCategories, OnItems
  <2>8. Underway(a) /\ Draft(a)
    BY <1>2, <2>2, <2>3, <2>6, <2>7 DEF Draft, Underway
  <2>9. Continue(r, a)
    BY <1>3 DEF a, l
  <2> QED BY <2>8, <2>9, SteppingDraft
<1> HIDE DEF row
<1> QED BY <1>1, <1>3, EndingDraft

\* What a category or an item in hand says of itself.
LEMMA BucketEdits ==
    ASSUME NEW row \in CategoryRow
    PROVE  /\ archive(row).is_archived = TRUE
           /\ restore(row).is_archived = FALSE
           /\ to_domain(row).is_archived = row.is_archived
BY DEF CategoryRow, archive, restore, to_domain

\* Loading the category or item that is named (categories.py:72-107, items.py:62-79).
LEMMA GettingDraft ==
    ASSUME FInv, AInv', NEW r \in Requests, get_category(r) \/ get_item(r)
    PROVE  FInv'
<1> DEFINE o == session[r]
           c == o.cmd
           b == Target(c)
           s == rehydrate(o, {b})
           l == CASE c.op \in {"archive_category", "archive_item"} -> Edit(s, b, archive(s.now[b]))
                  [] c.op \in {"restore_category", "restore_item"} -> Edit(s, b, restore(s.now[b]))
                  [] OTHER -> s
<1>1. /\ o.pc \in {"get_category", "get_item"}
      /\ o.pc = "get_category" => c.op \in OnCategories
      /\ o.pc = "get_item" => c.op \in OnItems
      /\ DOMAIN o = Fields /\ DOMAIN o.now = {} /\ DOMAIN o.seen = {}
      /\ o.new = {} /\ o.gone = {} /\ RowsTyped
  <2>1. o.pc \in {"get_category", "get_item"}
    BY DEF get_category, get_item
  <2>2. Underway(o) /\ DOMAIN o = Fields /\ RowsTyped /\ DOMAIN o.seen \subseteq DOMAIN o.now
    BY <2>1, StandingDraft
  <2> QED BY <2>1, <2>2 DEF Underway
<1>2. \/ End(r)
      \/ /\ b \in DOMAIN rows /\ b \in CategoryIds \cup ItemIds /\ Continue(r, advance(l))
         /\ c.op \in {"archive_category", "archive_item"} => ~s.now[b].is_archived
  <2>1. CASE get_category(r)
    <3>1. c.op \in OnCategories /\ b = c.category
      BY <1>1, <2>1 DEF get_category, Target, OnCategories, OnItems
    <3>2. Proceed(r, /\ c.category \in OwnedBy(c.owner, CategoryIds)
                     /\ c.op = "archive_category" => ~s.now[c.category].is_archived,
                  CASE c.op = "archive_category" -> Edit(s, b, archive(s.now[b]))
                    [] c.op = "restore_category" -> Edit(s, b, restore(s.now[b]))
                    [] OTHER                     -> s)
      BY <2>1, <3>1 DEF get_category
    <3>3. l = CASE c.op = "archive_category" -> Edit(s, b, archive(s.now[b]))
                [] c.op = "restore_category" -> Edit(s, b, restore(s.now[b]))
                [] OTHER                     -> s
      BY <3>1 DEF OnCategories
    <3> HIDE DEF l, s, b
    <3> QED BY <3>1, <3>2, <3>3 DEF Proceed, OwnedBy, OnCategories
  <2>2. CASE get_item(r)
    <3>1. c.op \in OnItems /\ b = c.item
      BY <1>1, <2>2 DEF get_item, Target, OnCategories, OnItems
    <3>2. Proceed(r, /\ c.item \in OwnedBy(c.owner, ItemIds)
                     /\ c.op = "archive_item" => ~s.now[c.item].is_archived,
                  CASE c.op = "archive_item" -> Edit(s, b, archive(s.now[b]))
                    [] c.op = "restore_item" -> Edit(s, b, restore(s.now[b]))
                    [] OTHER                 -> s)
      BY <2>2, <3>1 DEF get_item
    <3>3. l = CASE c.op = "archive_item" -> Edit(s, b, archive(s.now[b]))
                [] c.op = "restore_item" -> Edit(s, b, restore(s.now[b]))
                [] OTHER                 -> s
      BY <3>1 DEF OnItems
    <3> HIDE DEF l, s, b
    <3> QED BY <3>1, <3>2, <3>3 DEF Proceed, OwnedBy, OnItems
  <2> QED BY <2>1, <2>2
<1>3. CASE ~End(r)
  <2>1. /\ DOMAIN s = Fields /\ s.cmd = c /\ s.pc = o.pc /\ s.new = {} /\ s.gone = {}
        /\ DOMAIN s.seen = {b} /\ DOMAIN s.now = {b}
        /\ s.seen[b] = rows[b] /\ s.now[b] = to_domain(rows[b])
    BY <1>1, LoadedHolds
  <2>2. rows[b] \in CategoryRow /\ s.now[b] \in CategoryRow
    <3>1. b \in Ids /\ rows[b] \in Row(b) /\ Row(b) = CategoryRow
      BY <1>1, <1>2, <1>3, Rows DEF RowsTyped, Ids, CategoryRow, ItemRow
    <3>2. to_domain(rows[b]) \in Row(b)
      BY <3>1, Mapping
    <3> QED BY <2>1, <3>1, <3>2
  <2> HIDE DEF s, b
  <2>3. s.now[b].is_archived = s.seen[b].is_archived
    <3>1. to_domain(rows[b]).is_archived = rows[b].is_archived
      BY <2>2, BucketEdits
    <3> QED BY <2>1, <3>1
  <2>4. /\ DOMAIN l = Fields /\ l.cmd = c /\ l.pc = o.pc /\ l.new = {} /\ l.gone = {}
        /\ l.seen = s.seen /\ DOMAIN l.now = {b}
        /\ IF c.op \in {"archive_category", "archive_item"} THEN l.now[b].is_archived = TRUE
           ELSE IF c.op \in {"restore_category", "restore_item"} THEN l.now[b].is_archived = FALSE
           ELSE l.now[b] = s.now[b]
    <3>1. CASE c.op \in {"archive_category", "archive_item"}
      <4> DEFINE row == archive(s.now[b])
      <4>1. l = Edit(s, b, row) /\ row.is_archived = TRUE
        BY <2>2, <3>1, BucketEdits
      <4> HIDE DEF l, row
      <4> QED BY <2>1, <3>1, <4>1, EditedHolds
    <3>2. CASE c.op \in {"restore_category", "restore_item"}
      <4> DEFINE row == restore(s.now[b])
      <4>1. l = Edit(s, b, row) /\ row.is_archived = FALSE
        BY <2>2, <3>2, BucketEdits
      <4> HIDE DEF l, row
      <4> QED BY <2>1, <3>2, <4>1, EditedHolds
    <3>3. CASE c.op \notin {"archive_category", "archive_item", "restore_category", "restore_item"}
      BY <2>1, <3>3
    <3> QED BY <3>1, <3>2, <3>3
  <2> HIDE DEF l
  <2> DEFINE a == advance(l)
  <2>5. /\ DOMAIN a = Fields /\ a.cmd = c /\ a.pc = next(c, o.pc) /\ a.new = {} /\ a.gone = {}
        /\ a.seen = s.seen /\ a.now = l.now
    BY <2>4, AdvancedHolds
  <2>6. /\ a.pc \in {"list_categories", "count_for_category", "count_for_item", "commit"}
        /\ a.pc \in {"count_for_category", "count_for_item"} => c.op \in Removes
        /\ a.pc = "commit" => c.op \notin Removes \cup {"rename_category"}
    BY <1>1, <2>5 DEF next, Removes, OnCategories, OnItems
  <2> HIDE DEF a
  <2>7. c.op \in OnCategories \cup OnItems /\ c.op \notin {"record", "update", "delete",
                                                          "create_category", "create_item"}
    BY <1>1 DEF OnCategories, OnItems
  <2>8. a.pc = "commit" => Handles(a)
    <3> HAVE a.pc = "commit"
    <3>1. c.op \in {"archive_category", "archive_item", "restore_category", "restore_item"}
      BY <2>6, <2>7 DEF Removes, OnCategories, OnItems
    <3>2. /\ c.op \in {"archive_category", "archive_item"}
                => ~a.seen[b].is_archived /\ a.now[b].is_archived
          /\ c.op \in {"restore_category", "restore_item"} => ~a.now[b].is_archived
      BY <1>2, <1>3, <2>3, <2>4, <2>5, <3>1
    <3>3. a.new = {} /\ a.gone = {} /\ b \in DOMAIN a.seen /\ b \in DOMAIN a.now
      BY <2>1, <2>4, <2>5
    <3> QED BY <2>5, <3>1, <3>2, <3>3 DEF Handles, Removes, b
  <2>9. a.pc \in {"count_for_category", "count_for_item"} =>
           b \in DOMAIN a.seen /\ b \in DOMAIN a.now /\ a.now[b].is_archived = a.seen[b].is_archived
    BY <2>1, <2>3, <2>4, <2>5, <2>6 DEF Removes
  <2>10. Underway(a)
    BY <2>5, <2>6 DEF Underway
  <2>11. Draft(a)
    BY <2>5, <2>6, <2>7, <2>8, <2>9, <2>10 DEF Draft, b
  <2>12. Continue(r, a)
    BY <1>2, <1>3 DEF a
  <2> QED BY <2>11, <2>12, SteppingDraft
<1> QED BY <1>3, EndingDraft

\* Looking for the name, and taking it (categories.py:57-59, 76-79, items.py:48-49).
LEMMA ListingDraft ==
    ASSUME FInv, AInv', NEW r \in Requests, list_categories(r) \/ list_items(r)
    PROVE  FInv'
<1> DEFINE o == session[r]
           c == o.cmd
           b == c.category
<1>1. /\ o.pc \in {"list_categories", "list_items"}
      /\ DOMAIN o = Fields /\ o.new = {} /\ o.gone = {}
      /\ o.pc = "list_categories" => c.op \in {"create_category", "rename_category"}
      /\ o.pc = "list_items" => c.op = "create_item"
      /\ Typed(o) /\ Tidy(o) /\ Placed(o) /\ RowsHeld /\ c \in Command
  <2>1. o.pc \in {"list_categories", "list_items"}
    BY DEF list_categories, list_items
  <2> QED BY <2>1, StandingDraft DEF Underway, Routed
<1>2. PICK s : /\ DOMAIN s = Fields /\ s.cmd = c /\ s.pc = o.pc /\ s.new = {} /\ s.gone = {}
               /\ DOMAIN o.seen \subseteq DOMAIN s.seen /\ DOMAIN o.now \subseteq DOMAIN s.now
               /\ \A id \in DOMAIN o.now : s.now[id] = o.now[id]
               /\ \/ End(r)
                  \/ c.op # "rename_category" /\ Continue(r, advance(s))
                  \/ /\ c.op = "rename_category" /\ ~s.now[b].is_archived
                     /\ Continue(r, advance(Edit(s, b, rename(s.now[b], c.name))))
  <2>1. CASE list_categories(r)
    <3> DEFINE s == rehydrate(o, OwnedBy(c.owner, CategoryIds))
    <3>1. \/ End(r)
          \/ c.op # "rename_category" /\ Continue(r, advance(s))
          \/ /\ c.op = "rename_category" /\ ~s.now[b].is_archived
             /\ Continue(r, advance(Edit(s, b, rename(s.now[b], c.name))))
      BY <2>1 DEF list_categories, Proceed
    <3>2. /\ DOMAIN s = Fields /\ s.cmd = c /\ s.pc = o.pc /\ s.new = {} /\ s.gone = {}
          /\ DOMAIN o.seen \subseteq DOMAIN s.seen /\ DOMAIN o.now \subseteq DOMAIN s.now
          /\ \A id \in DOMAIN o.now : s.now[id] = o.now[id]
      BY <1>1, LoadedHolds
    <3> HIDE DEF s
    <3> QED BY <3>1, <3>2
  <2>2. CASE list_items(r)
    <3> DEFINE s == rehydrate(o, OwnedBy(c.owner, ItemIds))
    <3>1. End(r) \/ Continue(r, advance(s))
      BY <2>2 DEF list_items, Proceed
    <3>2. /\ DOMAIN s = Fields /\ s.cmd = c /\ s.pc = o.pc /\ s.new = {} /\ s.gone = {}
          /\ DOMAIN o.seen \subseteq DOMAIN s.seen /\ DOMAIN o.now \subseteq DOMAIN s.now
          /\ \A id \in DOMAIN o.now : s.now[id] = o.now[id]
      BY <1>1, LoadedHolds
    <3>3. c.op # "rename_category"
      BY <1>1, <2>2 DEF list_items
    <3> HIDE DEF s
    <3> QED BY <3>1, <3>2, <3>3
  <2> QED BY <2>1, <2>2
<1>3. CASE c.op # "rename_category" /\ Continue(r, advance(s))
  <2> DEFINE a == advance(s)
  <2>1. /\ DOMAIN a = Fields /\ a.cmd = c /\ a.pc = next(c, o.pc) /\ a.new = {} /\ a.gone = {}
    BY <1>2, AdvancedHolds
  <2>2. a.pc \in {"insert_category", "insert_item"} /\ c.op \in {"create_category", "create_item"}
    BY <1>1, <1>3, <2>1 DEF next
  <2> HIDE DEF a
  <2>3. Underway(a)
    BY <2>1, <2>2 DEF Underway
  <2>4. Draft(a)
    BY <2>1, <2>2, <2>3 DEF Draft
  <2> QED BY <1>3, <2>4, SteppingDraft DEF a
<1>4. CASE /\ c.op = "rename_category" /\ ~s.now[b].is_archived
           /\ Continue(r, advance(Edit(s, b, rename(s.now[b], c.name))))
  <2> DEFINE row == rename(s.now[b], c.name)
             l == Edit(s, b, row)
             a == advance(l)
  <2>1. o.pc = "list_categories" /\ b \in DOMAIN o.seen /\ b \in DOMAIN o.now
    BY <1>1, <1>4 DEF Placed, Tidy
  <2>2. s.now[b] \in CategoryRow
    <3>1. b \in CategoryIds
      BY <1>1, <2>1, Rows DEF Tidy, RowsHeld, Command
    <3> QED BY <1>1, <1>2, <2>1, <3>1, Rows DEF Typed
  <2>3. row.name = c.name /\ row.is_archived = s.now[b].is_archived
    BY <2>2 DEF rename, CategoryRow
  <2> HIDE DEF row
  <2>4. /\ DOMAIN l = Fields /\ l.cmd = c /\ l.pc = o.pc /\ l.new = {} /\ l.gone = {}
        /\ l.seen = s.seen /\ b \in DOMAIN l.now /\ l.now[b] = row
    BY <1>2, EditedHolds
  <2> HIDE DEF l
  <2>5. /\ DOMAIN a = Fields /\ a.cmd = c /\ a.pc = next(c, o.pc) /\ a.new = {} /\ a.gone = {}
        /\ a.seen = s.seen /\ a.now = l.now
    BY <2>4, AdvancedHolds
  <2>6. a.pc = "commit"
    BY <1>4, <2>1, <2>5 DEF next
  <2> HIDE DEF a
  <2>7. Target(c) = b
    BY <1>4 DEF Target, OnItems
  <2>8. Handles(a)
    BY <1>2, <1>4, <2>1, <2>3, <2>4, <2>5, <2>7 DEF Handles, Removes
  <2>9. Underway(a) /\ Draft(a)
    BY <1>4, <2>5, <2>6, <2>8 DEF Draft, Underway
  <2>10. Continue(r, a)
    BY <1>4 DEF a, l, row
  <2> QED BY <2>9, <2>10, SteppingDraft
<1> QED BY <1>2, <1>3, <1>4, EndingDraft

\* The new category or item is the one that was asked for (categories.py:57-69,
\* items.py:48-59).
LEMMA InsertingBucketDraft ==
    ASSUME FInv, AInv', NEW r \in Requests, insert_category(r) \/ insert_item(r)
    PROVE  FInv'
<1> DEFINE o == session[r]
           c == o.cmd
           row == NewBucket(c.owner, c.name)
<1>1. o.pc \in {"insert_category", "insert_item"}
  BY DEF insert_category, insert_item
<1>2. /\ DOMAIN o = Fields /\ o.new = {} /\ o.gone = {}
      /\ o.pc = "insert_category" => c.op = "create_category"
      /\ o.pc = "insert_item" => c.op = "create_item"
  BY <1>1, StandingDraft DEF Underway, Routed
<1>3. PICK id : /\ o.pc = "insert_category" => id \in CategoryIds
                /\ o.pc = "insert_item" => id \in ItemIds
                /\ End(r) \/ Continue(r, advance(Added(o, id, row)))
  BY DEF insert_category, insert_item, insert, Fresh
<1>4. CASE Continue(r, advance(Added(o, id, row)))
  <2> DEFINE l == Added(o, id, row)
             a == advance(l)
  <2> HIDE DEF row
  <2>1. /\ DOMAIN l = Fields /\ l.cmd = c /\ l.pc = o.pc /\ l.new = {id} /\ l.gone = {}
        /\ id \in DOMAIN l.now /\ l.now[id] = row
    BY <1>2, AddedHolds
  <2> HIDE DEF l
  <2>2. /\ DOMAIN a = Fields /\ a.cmd = c /\ a.pc = next(c, o.pc) /\ a.new = {id} /\ a.gone = {}
        /\ a.now = l.now
    BY <2>1, AdvancedHolds
  <2>3. a.pc = "commit"
    BY <1>1, <2>2 DEF next
  <2> HIDE DEF a
  <2>4. /\ c.op = "create_category" => Opens(a, CategoryIds)
        /\ c.op = "create_item" => Opens(a, ItemIds)
    BY <1>1, <1>2, <1>3, <2>1, <2>2 DEF Opens, row
  <2>5. c.op \in {"create_category", "create_item"}
    BY <1>1, <1>2
  <2>6. c.op \notin OnCategories \cup OnItems
    BY <2>5 DEF OnCategories, OnItems
  <2>7. Underway(a) /\ Draft(a)
    BY <2>2, <2>3, <2>4, <2>5, <2>6 DEF Draft, Underway
  <2>8. Continue(r, a)
    BY <1>4 DEF a, l
  <2> QED BY <2>7, <2>8, SteppingDraft
<1> HIDE DEF row
<1> QED BY <1>3, <1>4, EndingDraft

\* In use, it is archived; otherwise it is marked (categories.py:114-126, items.py:80-86).
LEMMA CountingDraft ==
    ASSUME FInv, AInv', NEW r \in Requests, count_for_category(r) \/ count_for_item(r)
    PROVE  FInv'
<1> DEFINE o == session[r]
           c == o.cmd
           b == Target(c)
<1>1. o.pc \in {"count_for_category", "count_for_item"}
  BY DEF count_for_category, count_for_item
<1>2. /\ Draft(o) /\ DOMAIN o = Fields /\ o.new = {} /\ o.gone = {} /\ c.op \in Removes
      /\ o.pc = "count_for_category" => b = c.category /\ b \in CategoryIds
      /\ o.pc = "count_for_item" => b = c.item /\ b \in ItemIds
      /\ b \in DOMAIN o.seen /\ b \in DOMAIN o.now
      /\ o.now[b].is_archived = o.seen[b].is_archived
      /\ o.now[b] \in CategoryRow
  <2>1. /\ Draft(o) /\ DOMAIN o = Fields /\ Underway(o) /\ Counting(o) /\ Typed(o) /\ Tidy(o)
        /\ RowsHeld /\ c \in Command
    BY <1>1, StandingDraft
  <2>2. /\ o.new = {} /\ o.gone = {} /\ c.op \in Removes
        /\ o.pc = "count_for_category" => b = c.category
        /\ o.pc = "count_for_item" => b = c.item
    BY <1>1, <2>1 DEF Underway, Counting, Removes, Target, OnItems
  <2>3. /\ b \in DOMAIN o.seen /\ b \in DOMAIN o.now
        /\ o.now[b].is_archived = o.seen[b].is_archived
    BY <1>1, <2>1 DEF Draft
  <2>4. b \in Ids
    BY <2>1, <2>3 DEF Tidy, RowsHeld
  <2>5. /\ o.pc = "count_for_category" => b \in CategoryIds
        /\ o.pc = "count_for_item" => b \in ItemIds
    BY <2>1, <2>2, <2>4, Rows DEF Command
  <2>6. o.now[b] \in CategoryRow
    BY <1>1, <2>1, <2>3, <2>5, Rows DEF Typed, CategoryRow, ItemRow
  <2> QED BY <2>1, <2>2, <2>3, <2>5, <2>6
<1>3. PICK l : \/ End(r)
               \/ /\ Continue(r, advance(l))
                  /\ \/ l = delete(o, b)
                     \/ ~o.now[b].is_archived /\ l = Edit(o, b, archive(o.now[b]))
  <2> HIDE DEF b
  <2>1. CASE count_for_category(r)
    <3>1. b = c.category
      BY <1>2, <2>1 DEF count_for_category
    <3> QED BY <2>1, <3>1 DEF count_for_category, Proceed
  <2>2. CASE count_for_item(r)
    <3>1. b = c.item
      BY <1>2, <2>2 DEF count_for_item
    <3> QED BY <2>2, <3>1 DEF count_for_item, Proceed
  <2> QED BY <2>1, <2>2
<1>4. CASE ~End(r)
  <2> DEFINE row == archive(o.now[b])
             a == advance(l)
  <2>1. row.is_archived = TRUE
    BY <1>2, BucketEdits
  <2> HIDE DEF row, b
  <2>2. /\ DOMAIN l = Fields /\ l.cmd = c /\ l.pc = o.pc /\ l.new = {} /\ l.seen = o.seen
        /\ DOMAIN l.now = DOMAIN o.now
        /\ \/ l.gone = {b}
           \/ l.gone = {} /\ l.now[b].is_archived = TRUE /\ ~o.now[b].is_archived
    <3>1. CASE l = delete(o, b)
      BY <1>2, <3>1, NotedHolds
    <3>2. CASE ~o.now[b].is_archived /\ l = Edit(o, b, row)
      <4>1. /\ DOMAIN l = Fields /\ l.cmd = o.cmd /\ l.pc = o.pc /\ l.new = o.new
            /\ l.seen = o.seen /\ l.gone = o.gone
            /\ DOMAIN l.now = DOMAIN o.now \cup {b} /\ l.now[b] = row
        BY <1>2, <3>2, EditedHolds
      <4>2. DOMAIN l.now = DOMAIN o.now
        BY <1>2, <4>1
      <4> QED BY <1>2, <2>1, <3>2, <4>1, <4>2
    <3> QED BY <1>3, <1>4, <3>1, <3>2 DEF row
  <2>3. /\ DOMAIN a = Fields /\ a.cmd = c /\ a.pc = next(c, o.pc) /\ a.new = {} /\ a.gone = l.gone
        /\ a.seen = o.seen /\ a.now = l.now
    BY <2>2, AdvancedHolds
  <2>4. a.pc = "commit"
    BY <1>1, <2>3 DEF next
  <2> HIDE DEF a
  <2>5. Handles(a)
    BY <1>2, <2>2, <2>3 DEF Handles, b, Removes
  <2>6. Underway(a) /\ Draft(a)
    BY <1>2, <2>3, <2>4, <2>5 DEF Draft, Underway, Removes
  <2>7. Continue(r, a)
    BY <1>3, <1>4 DEF a
  <2> QED BY <2>6, <2>7, SteppingDraft
<1> QED BY <1>4, EndingDraft

\* A commit closes its session, whatever it writes.
LEMMA CommittingDraft ==
    ASSUME FInv, AInv', NEW r \in Requests, commit(r)
    PROVE  FInv'
<1>1. End(r) \/ session' = [session EXCEPT ![r] = Idle]
  BY DEF commit
<1>2. CASE session' = [session EXCEPT ![r] = Idle]
  <2>1. ASSUME NEW q \in Requests PROVE Draft(session[q])'
    <3>1. session'[q] = (IF q = r THEN Idle ELSE session[q])
      BY <1>2 DEF FInv, AInv, TInv, IInv
    <3>2. PICK x : x = session'[q] /\ Draft(x)
      BY <3>1, IdleDraft DEF FInv
    <3> QED BY <3>2
  <2> QED BY <2>1 DEF FInv
<1> QED BY <1>1, <1>2, EndingDraft

LEMMA FInvStep == FInv /\ [Next]_vars => FInv'
<1> SUFFICES ASSUME FInv, [Next]_vars PROVE FInv'
  OBVIOUS
<1>1. AInv'
  BY AInvStep DEF FInv
<1>2. CASE UNCHANGED vars
  <2>1. ASSUME NEW q \in Requests PROVE Draft(session[q])'
    <3>1. PICK x : x = session'[q] /\ Draft(x)
      BY <1>2 DEF vars, FInv
    <3> QED BY <3>1
  <2> QED BY <1>1, <2>1 DEF FInv
<1>3. ASSUME NEW r \in Requests, NEW c \in Commands, begin(r, c) PROVE FInv'
  BY <1>1, <1>3, BeginningDraft
<1>4. ASSUME NEW r \in Requests, statement(r) PROVE FInv'
  BY <1>1, <1>4, GettingExpenseDraft, UsingCategoryDraft, ResolvingDraft, InsertingExpenseDraft,
     GettingDraft, ListingDraft, InsertingBucketDraft, CountingDraft, CommittingDraft
     DEF statement
<1>5. ASSUME NEW r \in Requests, crash(r) PROVE FInv'
  BY <1>1, <1>5, EndingDraft DEF crash
<1> QED BY <1>2, <1>3, <1>4, <1>5 DEF Next

LEMMA FInvInit == Init => FInv
BY AInvInit, IdleDraft DEF Init, FInv
-----------------------------------------------------------------------------
\* What the commit of session s, which relies on nothing stale, makes of the rows.
Outcome(s) ==
    /\ s.cmd \in Commands /\ s.cmd \in Command
    /\ DOMAIN rows \subseteq minted /\ minted \subseteq Ids
    /\ DOMAIN s.seen \subseteq DOMAIN rows
    /\ s.new \subseteq Ids \ minted
    /\ s.gone \subseteq DOMAIN s.seen
    /\ DOMAIN s.now = DOMAIN s.seen \cup s.new
    /\ \A id \in DOMAIN s.seen : s.seen[id] = rows[id] /\ rows[id].owner = s.cmd.owner
    /\ DOMAIN rows' = (DOMAIN rows \cup s.new) \ s.gone
    /\ \A id \in DOMAIN s.now \ s.gone : rows'[id] = s.now[id]
    /\ \A id \in DOMAIN rows \ s.gone : \A column \in DOMAIN rows[id] \ {"key"} :
          rows'[id][column] # rows[id][column] => column \in Asked(s.cmd, id)
    /\ \A id \in DOMAIN rows : rows[id] \in Row(id)
    /\ \A id \in DOMAIN rows' : rows'[id] \in Row(id)
    /\ Constraints(rows')
    /\ \A b \in (CategoryIds \cup ItemIds) \cap DOMAIN rows' : rows'[b].key = KeyOf[rows'[b].name]
    /\ minted' = minted \cup s.new

\* The tables, after it.
EntriesAfter(table) == [id \in table \cap DOMAIN rows' |-> Entry(rows'[id])]

LEMMA After ==
    /\ Entries(CategoryIds)' = EntriesAfter(CategoryIds)
    /\ Entries(ItemIds)' = EntriesAfter(ItemIds)
    /\ Entries(ExpenseIds)' = EntriesAfter(ExpenseIds)
BY DEF Entries, EntriesAfter

\* What the book says of a category or an item, and of an expense.
LEMMA BucketEntry ==
    ASSUME NEW row \in CategoryRow
    PROVE  Entry(row) = [owner |-> row.owner, name |-> row.name, is_archived |-> row.is_archived]
<1>1. DOMAIN row \ {"key"} = {"owner", "name", "is_archived"}
  BY DEF CategoryRow
<1> QED BY <1>1 DEF Entry

LEMMA ExpenseEntry ==
    ASSUME NEW row \in ExpenseRow
    PROVE  Entry(row) = row
BY DEF Entry, ExpenseRow

\* What a command is not about (commands.py:71-150: every use case has its own fields).
LEMMA AskedOnly ==
    ASSUME NEW c \in Commands, NEW id \in Ids
    PROVE  /\ c.op \in OnCategories \cup OnItems /\ id # Target(c) => Asked(c, id) = {}
           /\ c.op \in OnCategories \cup OnItems /\ id = Target(c) =>
                 Asked(c, id) = IF c.op = "rename_category" THEN {"name"} ELSE {"is_archived"}
           /\ c.op \notin OnCategories \cup OnItems /\ id # c.expense => Asked(c, id) = {}
           /\ c.op \notin OnCategories \cup OnItems \cup {"update", "delete"} => Asked(c, id) = {}
<1>1. /\ c \in Command /\ id # None
      /\ c.expense # None => c.op \in {"update", "delete"}
      /\ c.category # None => c.op \in {"record", "update"} \cup OnCategories
      /\ c.item # None => c.op \in OnItems
  BY CommandAssumption, IdAssumption DEF OnCategories, OnItems
<1>2. CASE c.op \in OnCategories
  <2>1. c.expense # id /\ c.item # id /\ Target(c) = c.category
    BY <1>1, <1>2 DEF OnCategories, OnItems, Target
  <2> QED BY <1>2, <2>1 DEF Asked, OnCategories
<1>3. CASE c.op \in OnItems
  <2>1. c.expense # id /\ c.category # id /\ Target(c) = c.item
    BY <1>1, <1>3 DEF OnCategories, OnItems, Target
  <2> QED BY <1>3, <2>1 DEF Asked, OnItems
<1>4. CASE c.op \notin OnCategories \cup OnItems
  <2>1. id # c.expense => Asked(c, id) = {}
    BY <1>4 DEF Asked, OnCategories, OnItems
  <2>2. c.op \notin {"update", "delete"} => id # c.expense
    BY <1>1
  <2> QED BY <1>4, <2>1, <2>2
<1> QED BY <1>2, <1>3, <1>4
-----------------------------------------------------------------------------
\* A row nobody asked to change says what it said.
LEMMA EntryKept ==
    ASSUME NEW s, Outcome(s), NEW id \in DOMAIN rows \ s.gone, Asked(s.cmd, id) = {}
    PROVE  id \in DOMAIN rows' /\ Entry(rows'[id]) = Entry(rows[id])
<1>1. id \in DOMAIN rows' /\ rows[id] \in Row(id) /\ rows'[id] \in Row(id) /\ id \in Ids
  BY DEF Outcome
<1>2. \A column \in DOMAIN rows[id] \ {"key"} : rows'[id][column] = rows[id][column]
  BY DEF Outcome
<1>3. DOMAIN rows'[id] = DOMAIN rows[id]
  <2>1. CASE Row(id) = CategoryRow
    BY <1>1, <2>1 DEF CategoryRow
  <2>2. CASE Row(id) = ExpenseRow
    BY <1>1, <2>2 DEF ExpenseRow
  <2>3. ItemRow = CategoryRow
    BY DEF ItemRow, CategoryRow
  <2> QED BY <1>1, <2>1, <2>2, <2>3, Rows DEF Ids
<1> QED BY <1>1, <1>2, <1>3 DEF Entry

\* A table that is not asked about stays.
LEMMA TableKept ==
    ASSUME NEW s, Outcome(s), NEW table, table \subseteq Ids, s.new \cap table = {},
           s.gone \cap table = {}, \A id \in table : Asked(s.cmd, id) = {}
    PROVE  EntriesAfter(table) = Entries(table)
<1>1. table \cap DOMAIN rows' = table \cap DOMAIN rows
  BY DEF Outcome
<1>2. \A id \in table \cap DOMAIN rows : Entry(rows'[id]) = Entry(rows[id])
  BY EntryKept
<1> QED BY <1>1, <1>2 DEF Entries, EntriesAfter

\* One row of a table changes.
LEMMA RowChanged ==
    ASSUME NEW s, Outcome(s), NEW table, table \subseteq Ids, s.new \cap table = {},
           s.gone \cap table = {}, NEW b \in table \cap DOMAIN s.seen,
           \A id \in table \ {b} : Asked(s.cmd, id) = {}
    PROVE  EntriesAfter(table) = [Entries(table) EXCEPT ![b] = Entry(s.now[b])]
<1>1. table \cap DOMAIN rows' = table \cap DOMAIN rows
  BY DEF Outcome
<1>2. \A id \in (table \cap DOMAIN rows) \ {b} : Entry(rows'[id]) = Entry(rows[id])
  BY EntryKept
<1>3. rows'[b] = s.now[b]
  BY DEF Outcome
<1> QED BY <1>1, <1>2, <1>3 DEF Entries, EntriesAfter

\* A row is added to it.
LEMMA RowAdded ==
    ASSUME NEW s, Outcome(s), NEW table, table \subseteq Ids, NEW b, s.new \cap table = {b},
           s.gone \cap table = {}, \A id \in table : Asked(s.cmd, id) = {}
    PROVE  EntriesAfter(table) = Book!With(Entries(table), b, Entry(s.now[b]))
<1>1. /\ table \cap DOMAIN rows' = (table \cap DOMAIN rows) \cup {b} /\ b \notin DOMAIN rows
      /\ rows'[b] = s.now[b]
  BY DEF Outcome
<1>2. \A id \in table \cap DOMAIN rows : Entry(rows'[id]) = Entry(rows[id])
  BY EntryKept
<1> QED BY <1>1, <1>2 DEF Entries, EntriesAfter, Book!With

\* A row of it goes.
LEMMA RowGone ==
    ASSUME NEW s, Outcome(s), NEW table, table \subseteq Ids, NEW b, s.new \cap table = {},
           s.gone = {b}, \A id \in table \ {b} : Asked(s.cmd, id) = {}
    PROVE  EntriesAfter(table) = Book!Without(Entries(table), b)
<1>1. table \cap DOMAIN rows' = (table \cap DOMAIN rows) \ {b}
  BY DEF Outcome
<1>2. \A id \in (table \cap DOMAIN rows) \ {b} : Entry(rows'[id]) = Entry(rows[id])
  BY EntryKept
<1> QED BY <1>1, <1>2 DEF Entries, EntriesAfter, Book!Without

\* What the database compares is what the book compares: nobody else had the
\* name that the commit leaves with b.
LEMMA NameWasFree ==
    ASSUME NEW s, Outcome(s), NEW table \in {CategoryIds, ItemIds}, s.gone \cap table = {},
           NEW b \in table \cap DOMAIN rows', \A id \in table \ {b} : Asked(s.cmd, id) = {},
           NEW name, KeyOf[rows'[b].name] = KeyOf[name]
    PROVE  Book!Named(Entries(table), rows'[b].owner, name) \subseteq {b} \cap DOMAIN rows
<1> SUFFICES ASSUME NEW j \in Book!Named(Entries(table), rows'[b].owner, name), j # b
             PROVE  FALSE
  BY DEF Book!Named, Book!Mine, Entries
<1>1. /\ j \in table \cap DOMAIN rows
      /\ Entry(rows[j]).owner = rows'[b].owner
      /\ KeyOf[Entry(rows[j]).name] = KeyOf[name]
  BY DEF Book!Named, Book!Mine, Entries
<1>2. j \in DOMAIN rows' /\ Entry(rows'[j]) = Entry(rows[j])
  BY <1>1, EntryKept
<1>3. rows'[j] \in CategoryRow
  <2>1. Row(j) = CategoryRow
    BY <1>1, Rows DEF CategoryRow, ItemRow
  <2>2. rows'[j] \in Row(j)
    BY <1>2 DEF Outcome
  <2> QED BY <2>1, <2>2
<1>4. Entry(rows'[j]).owner = rows'[j].owner /\ Entry(rows'[j]).name = rows'[j].name
  BY <1>3, BucketEntry
<1>5. rows'[j].key = rows'[b].key
  BY <1>1, <1>2, <1>4 DEF Outcome
<1>6. j \in table \cap DOMAIN rows' /\ rows'[j].owner = rows'[b].owner
  BY <1>1, <1>2, <1>4
<1>7. \A x, y \in table \cap DOMAIN rows' :
         rows'[x].owner = rows'[y].owner /\ rows'[x].key = rows'[y].key => x = y
  BY DEF Outcome, Constraints, NamesUnique
<1> QED BY <1>5, <1>6, <1>7
-----------------------------------------------------------------------------
\* A new category and a new item (categories.py:57-69, items.py:48-59).
LEMMA CreatedWhole ==
    ASSUME NEW s, Outcome(s), NEW table \in {CategoryIds, ItemIds},
           s.cmd.op \in {"create_category", "create_item"}, Opens(s, table)
    PROVE  /\ \E id \in table \ minted : EntriesAfter(table)
                 = Book!With(Entries(table), id, Book!Opened(s.cmd.owner, s.cmd.name))
           /\ Book!Named(Entries(table), s.cmd.owner, s.cmd.name) = {}
           /\ \A other \in {CategoryIds, ItemIds, ExpenseIds} \ {table} :
                 EntriesAfter(other) = Entries(other)
<1> DEFINE c == s.cmd
<1>1. PICK id \in table : /\ s.gone = {} /\ s.new = {id} /\ id \in DOMAIN s.now
                          /\ s.now[id] = NewBucket(c.owner, c.name)
  BY DEF Opens
<1>2. \A i \in Ids : Asked(c, i) = {}
  BY AskedOnly DEF Outcome, OnCategories, OnItems
<1>3. /\ table \subseteq Ids /\ id \in Ids /\ id \notin minted /\ id \notin DOMAIN rows
      /\ id \in DOMAIN rows' /\ rows'[id] = s.now[id] /\ rows'[id] \in CategoryRow
      /\ \A other \in {CategoryIds, ItemIds, ExpenseIds} \ {table} :
            other \subseteq Ids /\ id \notin other
  <2>1. rows'[id] \in Row(id) /\ Row(id) = CategoryRow
    BY <1>1, Rows DEF Outcome, CategoryRow, ItemRow
  <2> QED BY <1>1, <2>1, IdAssumption DEF Outcome, Ids
<1>4. Entry(s.now[id]) = Book!Opened(c.owner, c.name)
  <2>1. Entry(s.now[id]) = [owner |-> s.now[id].owner, name |-> s.now[id].name,
                            is_archived |-> s.now[id].is_archived]
    BY <1>3, BucketEntry
  <2> QED BY <1>1, <2>1 DEF NewBucket, Book!Opened
<1>5. s.now[id].owner = c.owner /\ s.now[id].name = c.name
  BY <1>1 DEF NewBucket
<1> HIDE DEF c
<1>6. EntriesAfter(table) = Book!With(Entries(table), id, Book!Opened(c.owner, c.name))
  BY <1>1, <1>2, <1>3, <1>4, RowAdded DEF c
<1>7. Book!Named(Entries(table), c.owner, c.name) \subseteq {id} \cap DOMAIN rows
  <2>1. Book!Named(Entries(table), rows'[id].owner, c.name) \subseteq {id} \cap DOMAIN rows
    BY <1>1, <1>2, <1>3, <1>5, NameWasFree DEF c
  <2> QED BY <1>3, <1>5, <2>1
<1>8. \A other \in {CategoryIds, ItemIds, ExpenseIds} \ {table} :
         EntriesAfter(other) = Entries(other)
  BY <1>1, <1>2, <1>3, TableKept DEF c
<1> QED BY <1>3, <1>6, <1>7, <1>8 DEF c

LEMMA Creating ==
    ASSUME NEW s, Outcome(s)
    PROVE  /\ s.cmd.op = "create_category" /\ Opens(s, CategoryIds) => Book!create_category(s.cmd)
           /\ s.cmd.op = "create_item" /\ Opens(s, ItemIds) => Book!create_item(s.cmd)
<1>2. ASSUME s.cmd.op = "create_category", Opens(s, CategoryIds)
      PROVE  Book!create_category(s.cmd)
  <2>1. CategoryIds # ItemIds /\ CategoryIds # ExpenseIds
    BY <1>2, IdAssumption DEF Opens
  <2> QED BY <1>2, <2>1, CreatedWhole, After DEF Book!create_category
<1>3. ASSUME s.cmd.op = "create_item", Opens(s, ItemIds)
      PROVE  Book!create_item(s.cmd)
  <2>1. CategoryIds # ItemIds /\ ItemIds # ExpenseIds
    BY <1>3, IdAssumption DEF Opens
  <2> QED BY <1>3, <2>1, CreatedWhole, After DEF Book!create_item
<1> QED BY <1>2, <1>3
-----------------------------------------------------------------------------
\* What a category or item says after one column of it changed.
LEMMA EntryChanged ==
    ASSUME NEW row \in CategoryRow, NEW other \in CategoryRow, NEW column,
           column \in {"name", "is_archived"},
           \A col \in DOMAIN row \ {"key"} : other[col] # row[col] => col = column
    PROVE  Entry(other) = IF column = "name" THEN [Entry(row) EXCEPT !.name = other.name]
                          ELSE [Entry(row) EXCEPT !.is_archived = other.is_archived]
<1>1. /\ Entry(row) = [owner |-> row.owner, name |-> row.name, is_archived |-> row.is_archived]
      /\ Entry(other) = [owner |-> other.owner, name |-> other.name,
                         is_archived |-> other.is_archived]
  BY BucketEntry
<1>2. other.owner = row.owner /\ (column # "name" => other.name = row.name)
      /\ (column # "is_archived" => other.is_archived = row.is_archived)
  BY DEF CategoryRow
<1> QED BY <1>1, <1>2

\* The category or item that was named, of the owner who asks.
LEMMA HandledWhole ==
    ASSUME NEW s, Outcome(s), NEW table \in {CategoryIds, ItemIds},
           s.cmd.op \in OnCategories \cup OnItems,
           table = IF s.cmd.op \in OnItems THEN ItemIds ELSE CategoryIds, Handles(s)
    PROVE  LET c == s.cmd
               b == Target(c)
           IN /\ b \in Book!Mine(Entries(table), c.owner) /\ b \in table /\ b \in DOMAIN rows
              /\ rows[b] \in CategoryRow
              /\ Entries(table)[b].is_archived = rows[b].is_archived
              /\ s.seen[b] = rows[b]
              /\ \A other \in {CategoryIds, ItemIds, ExpenseIds} \ {table} :
                    EntriesAfter(other) = Entries(other)
              /\ s.gone = {} =>
                   /\ s.now[b] \in CategoryRow /\ rows'[b] = s.now[b]
                   /\ c.op # "rename_category" =>
                         EntriesAfter(table)
                            = [Entries(table) EXCEPT ![b].is_archived = s.now[b].is_archived]
                   /\ c.op = "rename_category" =>
                         /\ EntriesAfter(table) = [Entries(table) EXCEPT ![b].name = s.now[b].name]
                         /\ s.now[b].is_archived = rows[b].is_archived
                         /\ Book!Named(Entries(table), c.owner, s.now[b].name) \subseteq {b}
              /\ s.gone # {} => EntriesAfter(table) = Book!Without(Entries(table), b)
<1> DEFINE c == s.cmd
           b == Target(c)
<1>1. /\ s.new = {} /\ b \in DOMAIN s.seen /\ b \in DOMAIN s.now
      /\ s.gone # {} => s.gone = {b}
  BY DEF Handles
<1>2. b \in DOMAIN rows /\ b \in Ids /\ s.seen[b] = rows[b] /\ rows[b].owner = c.owner
      /\ c \in Commands /\ c \in Command
  BY <1>1 DEF Outcome
<1>3. b \in table /\ table \subseteq Ids
      /\ \A other \in {CategoryIds, ItemIds, ExpenseIds} \ {table} : other \subseteq Ids /\ b \notin other
  BY <1>2, IdAssumption DEF Target, Command, Ids
<1>4. rows[b] \in CategoryRow /\ Row(b) = CategoryRow
  <2>1. b \in CategoryIds \/ b \in ItemIds
    BY <1>3
  <2> HIDE DEF b, c
  <2>2. Row(b) = CategoryRow
    BY <2>1, Rows DEF CategoryRow, ItemRow
  <2> QED BY <1>2, <2>2 DEF Outcome
<1>5. /\ \A id \in Ids \ {b} : Asked(c, id) = {}
      /\ Asked(c, b) = IF c.op = "rename_category" THEN {"name"} ELSE {"is_archived"}
  BY <1>2, AskedOnly
<1>6. Entry(rows[b]) = [owner |-> rows[b].owner, name |-> rows[b].name,
                        is_archived |-> rows[b].is_archived]
  BY <1>4, BucketEntry
<1> HIDE DEF b, c
<1>7. /\ b \in DOMAIN Entries(table) /\ Entries(table)[b] = Entry(rows[b])
  BY <1>2, <1>3 DEF Entries
<1>8. \A other \in {CategoryIds, ItemIds, ExpenseIds} \ {table} :
         EntriesAfter(other) = Entries(other)
  BY <1>1, <1>3, <1>5, TableKept DEF c
<1>9. ASSUME s.gone = {}
      PROVE  /\ s.now[b] \in CategoryRow /\ rows'[b] = s.now[b]
             /\ c.op # "rename_category" =>
                   EntriesAfter(table)
                      = [Entries(table) EXCEPT ![b].is_archived = s.now[b].is_archived]
             /\ c.op = "rename_category" =>
                   /\ EntriesAfter(table) = [Entries(table) EXCEPT ![b].name = s.now[b].name]
                   /\ s.now[b].is_archived = rows[b].is_archived
                   /\ Book!Named(Entries(table), c.owner, s.now[b].name) \subseteq {b}
  <2>1. b \in DOMAIN rows' /\ rows'[b] = s.now[b] /\ rows'[b] \in CategoryRow
    BY <1>1, <1>2, <1>4, <1>9 DEF Outcome
  <2>2. \A col \in DOMAIN rows[b] \ {"key"} : s.now[b][col] # rows[b][col] =>
           col = IF c.op = "rename_category" THEN "name" ELSE "is_archived"
    BY <1>2, <1>5, <1>9, <2>1 DEF Outcome, c
  <2>3. EntriesAfter(table) = [Entries(table) EXCEPT ![b] = Entry(s.now[b])]
    BY <1>1, <1>3, <1>5, <1>9, RowChanged DEF c
  <2>4. CASE c.op # "rename_category"
    <3>1. Entry(s.now[b]) = [Entry(rows[b]) EXCEPT !.is_archived = s.now[b].is_archived]
      BY <1>4, <2>1, <2>2, <2>4, EntryChanged
    <3> QED BY <1>7, <2>1, <2>3, <2>4, <3>1
  <2>5. CASE c.op = "rename_category"
    <3>1. Entry(s.now[b]) = [Entry(rows[b]) EXCEPT !.name = s.now[b].name]
      BY <1>4, <2>1, <2>2, <2>5, EntryChanged
    <3>2. s.now[b].is_archived = rows[b].is_archived /\ s.now[b].owner = rows[b].owner
      BY <1>4, <2>2, <2>5 DEF CategoryRow
    <3>3. Book!Named(Entries(table), rows'[b].owner, s.now[b].name) \subseteq {b} \cap DOMAIN rows
      <4> DEFINE name == s.now[b].name
    <4>1. KeyOf[rows'[b].name] = KeyOf[name]
      BY <2>1
    <4>2. s.gone \cap table = {} /\ b \in table \cap DOMAIN rows'
          /\ \A id \in table \ {b} : Asked(s.cmd, id) = {}
      BY <1>3, <1>5, <1>9, <2>1 DEF c
    <4> HIDE DEF name
    <4>3. Book!Named(Entries(table), rows'[b].owner, name) \subseteq {b} \cap DOMAIN rows
      BY <4>1, <4>2, NameWasFree
    <4> QED BY <4>3 DEF name
    <3>4. rows'[b].owner = c.owner
      BY <1>2, <2>1, <3>2
    <3> QED BY <1>7, <2>1, <2>3, <2>5, <3>1, <3>2, <3>3, <3>4
  <2> QED BY <2>4, <2>5
<1>10. s.gone # {} => EntriesAfter(table) = Book!Without(Entries(table), b)
  BY <1>1, <1>3, <1>5, RowGone DEF c
<1>11. b \in Book!Mine(Entries(table), c.owner)
  BY <1>2, <1>6, <1>7 DEF Book!Mine
<1> QED BY <1>2, <1>3, <1>4, <1>6, <1>7, <1>8, <1>9, <1>10, <1>11 DEF b, c
-----------------------------------------------------------------------------
\* What is counted is what the book counts.
LEMMA Counted ==
    ASSUME NEW s, Outcome(s), NEW owner, NEW column, NEW id
    PROVE  Book!InUse(owner, column, id) <=> InUse(owner, column, id)
<1>1. \A e \in ExpenseIds \cap DOMAIN rows : Entry(rows[e]) = rows[e]
  BY ExpenseEntry, Rows DEF Outcome
<1>2. /\ DOMAIN Entries(ExpenseIds) = ExpenseIds \cap DOMAIN rows
      /\ \A e \in ExpenseIds \cap DOMAIN rows : Entries(ExpenseIds)[e] = rows[e]
  BY <1>1 DEF Entries
<1>3. Book!Mine(Entries(ExpenseIds), owner) = OwnedBy(owner, ExpenseIds)
  BY <1>2 DEF Book!Mine, OwnedBy
<1>4. OwnedBy(owner, ExpenseIds) \subseteq ExpenseIds \cap DOMAIN rows
  BY DEF OwnedBy
<1> QED BY <1>2, <1>3, <1>4 DEF Book!InUse, InUse

\* What a commit deletes, no expense is about: the foreign keys would refuse it.
LEMMA GoneIsUnused ==
    ASSUME NEW s, Outcome(s), s.cmd.op \in Removes, NEW id \in Ids, s.gone = {id}, NEW owner,
           id \notin ExpenseIds
    PROVE  ~InUse(owner, "category", id) /\ ~InUse(owner, "item", id)
<1>1. SUFFICES ASSUME NEW e \in ExpenseIds \cap DOMAIN rows,
                      rows[e].category = id \/ rows[e].item = id
               PROVE  FALSE
  BY DEF InUse, OwnedBy
<1>2. e \notin s.gone /\ e \in Ids
  BY DEF Ids
<1>3. Asked(s.cmd, e) = {}
  <2>1. s.cmd \in Commands /\ s.cmd.op \in OnCategories \cup OnItems /\ s.cmd \in Command
    BY DEF Outcome, Removes, OnCategories, OnItems
  <2>2. e # Target(s.cmd)
    <3>1. Target(s.cmd) \in CategoryIds \cup ItemIds \cup {None}
      BY <2>1 DEF Target, Command
    <3>2. e \notin CategoryIds \cup ItemIds \cup {None}
      BY Rows, IdAssumption, <1>2
    <3> QED BY <3>1, <3>2
  <2> QED BY <1>2, <2>1, <2>2, AskedOnly
<1>4. e \in DOMAIN rows' /\ rows[e] \in ExpenseRow
  BY <1>2, Rows DEF Outcome
<1>5. rows'[e].category = rows[e].category /\ rows'[e].item = rows[e].item
  BY <1>2, <1>3, <1>4 DEF Outcome, ExpenseRow
<1>6. id \in DOMAIN rows'
  BY <1>1, <1>4, <1>5, Rows DEF Outcome, Constraints, ReferencesExist
<1> QED BY <1>6 DEF Outcome

\* The use cases on a category (categories.py:72-126).
LEMMA HandlingCategory ==
    ASSUME NEW s, Outcome(s), s.cmd.op \in OnCategories, Handles(s),
           s.cmd.op \in Removes /\ s.gone = {} => InUse(s.cmd.owner, "category", s.cmd.category)
    PROVE  /\ s.cmd.op = "rename_category" => Book!rename_category(s.cmd)
           /\ s.cmd.op = "archive_category" => Book!archive_category(s.cmd)
           /\ s.cmd.op = "restore_category" => Book!restore_category(s.cmd)
           /\ s.cmd.op = "remove_category" => Book!remove_category(s.cmd)
<1> DEFINE c == s.cmd
           b == s.cmd.category
           cats == Entries(CategoryIds)
<1>1. Target(c) = b /\ c.op \notin OnItems
  BY DEF Target, OnCategories, OnItems
<1>2. /\ b \in Book!Mine(cats, c.owner) /\ b \in CategoryIds /\ b \in DOMAIN rows
      /\ rows[b] \in CategoryRow /\ cats[b].is_archived = rows[b].is_archived
      /\ s.seen[b] = rows[b]
      /\ \A other \in {CategoryIds, ItemIds, ExpenseIds} \ {CategoryIds} :
            EntriesAfter(other) = Entries(other)
      /\ s.gone = {} =>
           /\ s.now[b] \in CategoryRow
           /\ c.op # "rename_category" =>
                 EntriesAfter(CategoryIds) = [cats EXCEPT ![b].is_archived = s.now[b].is_archived]
           /\ c.op = "rename_category" =>
                 /\ EntriesAfter(CategoryIds) = [cats EXCEPT ![b].name = s.now[b].name]
                 /\ s.now[b].is_archived = rows[b].is_archived
                 /\ Book!Named(cats, c.owner, s.now[b].name) \subseteq {b}
      /\ s.gone # {} => EntriesAfter(CategoryIds) = Book!Without(cats, b)
  <2>1. CategoryIds = IF c.op \in OnItems THEN ItemIds ELSE CategoryIds
    BY <1>1
  <2> DEFINE t == Target(c)
             table == CategoryIds
  <2>2. /\ table \in {CategoryIds, ItemIds} /\ c.op \in OnCategories \cup OnItems
        /\ table = IF c.op \in OnItems THEN ItemIds ELSE CategoryIds
    BY <2>1
  <2> HIDE DEF table
  <2>3. /\ t \in Book!Mine(Entries(table), c.owner) /\ t \in table /\ t \in DOMAIN rows
        /\ rows[t] \in CategoryRow /\ Entries(table)[t].is_archived = rows[t].is_archived
        /\ s.seen[t] = rows[t]
        /\ \A other \in {CategoryIds, ItemIds, ExpenseIds} \ {table} :
              EntriesAfter(other) = Entries(other)
        /\ s.gone = {} =>
             /\ s.now[t] \in CategoryRow
             /\ c.op # "rename_category" => EntriesAfter(table)
                   = [Entries(table) EXCEPT ![t].is_archived = s.now[t].is_archived]
             /\ c.op = "rename_category" =>
                   /\ EntriesAfter(table) = [Entries(table) EXCEPT ![t].name = s.now[t].name]
                   /\ s.now[t].is_archived = rows[t].is_archived
                   /\ Book!Named(Entries(table), c.owner, s.now[t].name) \subseteq {t}
        /\ s.gone # {} => EntriesAfter(table) = Book!Without(Entries(table), t)
    BY <2>2, HandledWhole
  <2> QED BY <1>1, <2>3 DEF table
<1>3. /\ s.gone # {} => s.gone = {b} /\ c.op \in Removes
      /\ c.op = "rename_category" => s.now[b].name = c.name /\ ~s.now[b].is_archived
      /\ c.op = "archive_category" => ~s.seen[b].is_archived /\ s.now[b].is_archived
      /\ c.op = "restore_category" => ~s.now[b].is_archived
      /\ c.op = "remove_category" /\ s.gone = {} => ~s.seen[b].is_archived /\ s.now[b].is_archived
  BY <1>1 DEF Handles, Removes
<1>4. UNCHANGED <<Entries(ItemIds), Entries(ExpenseIds)>>
  <2>1. CategoryIds # ItemIds /\ CategoryIds # ExpenseIds
    BY <1>2, IdAssumption
  <2> QED BY <1>2, <2>1, After
<1>5. s.gone = {} => s.now[b].is_archived \in BOOLEAN
  BY <1>2 DEF CategoryRow
<1>6. Entries(CategoryIds)' = EntriesAfter(CategoryIds)
  BY After
<1> HIDE DEF cats, c, b
<1>7. ASSUME c.op = "rename_category" PROVE Book!rename_category(c)
  <2>1. s.gone = {}
    BY <1>3, <1>7 DEF Removes
  <2>2. Book!Live(cats, c.owner, b) /\ Book!Named(cats, c.owner, c.name) \subseteq {b}
    BY <1>2, <1>3, <1>7, <2>1 DEF Book!Live
  <2>3. Entries(CategoryIds)' = [cats EXCEPT ![b].name = c.name]
    BY <1>2, <1>3, <1>6, <1>7, <2>1
  <2> QED BY <1>4, <2>2, <2>3 DEF Book!rename_category, cats, b, c
<1>8. ASSUME c.op = "archive_category" PROVE Book!archive_category(c)
  <2>1. s.gone = {} /\ s.now[b].is_archived = TRUE
    BY <1>3, <1>5, <1>8 DEF Removes
  <2>2. Book!Live(cats, c.owner, b)
    BY <1>2, <1>3, <1>8 DEF Book!Live
  <2>3. Entries(CategoryIds)' = [cats EXCEPT ![b].is_archived = TRUE]
    BY <1>2, <1>6, <1>8, <2>1
  <2> QED BY <1>4, <2>2, <2>3 DEF Book!archive_category, cats, b, c
<1>9. ASSUME c.op = "restore_category" PROVE Book!restore_category(c)
  <2>1. s.gone = {} /\ s.now[b].is_archived = FALSE
    BY <1>3, <1>5, <1>9 DEF Removes
  <2>2. Entries(CategoryIds)' = [cats EXCEPT ![b].is_archived = FALSE]
    BY <1>2, <1>6, <1>9, <2>1
  <2> QED BY <1>2, <1>4, <2>2 DEF Book!restore_category, cats, b, c
<1>10. ASSUME c.op = "remove_category" PROVE Book!remove_category(c)
  <2>1. Book!InUse(c.owner, "category", b) <=> s.gone = {}
    <3>1. Book!InUse(c.owner, "category", b) <=> InUse(c.owner, "category", b)
      BY Counted
    <3>2. s.gone = {} => InUse(c.owner, "category", b)
      BY <1>10 DEF Removes, c, b
    <3>3. s.gone = {b} => ~InUse(c.owner, "category", b)
      <4>1. b \in Ids /\ b \notin ExpenseIds /\ s.cmd.op \in Removes
        BY <1>2, <1>10, IdAssumption DEF Ids, Removes, c
      <4> QED BY <4>1, GoneIsUnused
    <3> QED BY <1>3, <3>1, <3>2, <3>3
  <2>2. s.gone = {} => ~cats[b].is_archived /\ s.now[b].is_archived = TRUE
    BY <1>2, <1>3, <1>5, <1>10
  <2>3. Entries(CategoryIds)' = Book!Removed(cats, b, Book!InUse(c.owner, "category", b))
    BY <1>2, <1>6, <1>10, <2>1, <2>2 DEF Book!Removed
  <2> QED BY <1>2, <1>4, <2>1, <2>2, <2>3 DEF Book!remove_category, cats, b, c
<1> QED BY <1>7, <1>8, <1>9, <1>10 DEF c

\* The use cases on an item (items.py:62-86).
LEMMA HandlingItem ==
    ASSUME NEW s, Outcome(s), s.cmd.op \in OnItems, Handles(s),
           s.cmd.op \in Removes /\ s.gone = {} => InUse(s.cmd.owner, "item", s.cmd.item)
    PROVE  /\ s.cmd.op = "archive_item" => Book!archive_item(s.cmd)
           /\ s.cmd.op = "restore_item" => Book!restore_item(s.cmd)
           /\ s.cmd.op = "remove_item" => Book!remove_item(s.cmd)
<1> DEFINE c == s.cmd
           b == s.cmd.item
           table == Entries(ItemIds)
<1>1. Target(c) = b /\ c.op # "rename_category"
  BY DEF Target, OnItems
<1>2. /\ b \in Book!Mine(table, c.owner) /\ b \in ItemIds /\ b \in DOMAIN rows
      /\ rows[b] \in CategoryRow /\ table[b].is_archived = rows[b].is_archived
      /\ s.seen[b] = rows[b]
      /\ \A other \in {CategoryIds, ItemIds, ExpenseIds} \ {ItemIds} :
            EntriesAfter(other) = Entries(other)
      /\ s.gone = {} =>
           /\ s.now[b] \in CategoryRow
           /\ EntriesAfter(ItemIds) = [table EXCEPT ![b].is_archived = s.now[b].is_archived]
      /\ s.gone # {} => EntriesAfter(ItemIds) = Book!Without(table, b)
  BY <1>1, HandledWhole
<1>3. /\ s.gone # {} => s.gone = {b} /\ c.op \in Removes
      /\ c.op = "archive_item" => ~s.seen[b].is_archived /\ s.now[b].is_archived
      /\ c.op = "restore_item" => ~s.now[b].is_archived
      /\ c.op = "remove_item" /\ s.gone = {} => ~s.seen[b].is_archived /\ s.now[b].is_archived
  BY <1>1 DEF Handles, Removes
<1>4. UNCHANGED <<Entries(CategoryIds), Entries(ExpenseIds)>>
  <2>1. CategoryIds # ItemIds /\ ItemIds # ExpenseIds
    BY <1>2, IdAssumption
  <2> QED BY <1>2, <2>1, After
<1>5. s.gone = {} => s.now[b].is_archived \in BOOLEAN
  BY <1>2 DEF CategoryRow
<1>6. Entries(ItemIds)' = EntriesAfter(ItemIds)
  BY After
<1> HIDE DEF table, c, b
<1>7. ASSUME c.op = "archive_item" PROVE Book!archive_item(c)
  <2>1. s.gone = {} /\ s.now[b].is_archived = TRUE
    BY <1>3, <1>5, <1>7 DEF Removes
  <2>2. Book!Live(table, c.owner, b)
    BY <1>2, <1>3, <1>7 DEF Book!Live
  <2>3. Entries(ItemIds)' = [table EXCEPT ![b].is_archived = TRUE]
    BY <1>2, <1>6, <1>7, <2>1
  <2> QED BY <1>4, <2>2, <2>3 DEF Book!archive_item, table, b, c
<1>8. ASSUME c.op = "restore_item" PROVE Book!restore_item(c)
  <2>1. s.gone = {} /\ s.now[b].is_archived = FALSE
    BY <1>3, <1>5, <1>8 DEF Removes
  <2>2. Entries(ItemIds)' = [table EXCEPT ![b].is_archived = FALSE]
    BY <1>2, <1>6, <1>8, <2>1
  <2> QED BY <1>2, <1>4, <2>2 DEF Book!restore_item, table, b, c
<1>9. ASSUME c.op = "remove_item" PROVE Book!remove_item(c)
  <2>1. Book!InUse(c.owner, "item", b) <=> s.gone = {}
    <3>1. Book!InUse(c.owner, "item", b) <=> InUse(c.owner, "item", b)
      BY Counted
    <3>2. s.gone = {} => InUse(c.owner, "item", b)
      BY <1>9 DEF Removes, c, b
    <3>3. s.gone = {b} => ~InUse(c.owner, "item", b)
      <4>1. b \in Ids /\ b \notin ExpenseIds /\ s.cmd.op \in Removes
        BY <1>2, <1>9, IdAssumption DEF Ids, Removes, c
      <4> QED BY <4>1, GoneIsUnused
    <3> QED BY <1>3, <3>1, <3>2, <3>3
  <2>2. s.gone = {} => ~table[b].is_archived /\ s.now[b].is_archived = TRUE
    BY <1>2, <1>3, <1>5, <1>9
  <2>3. Entries(ItemIds)' = Book!Removed(table, b, Book!InUse(c.owner, "item", b))
    BY <1>2, <1>6, <1>9, <2>1, <2>2 DEF Book!Removed
  <2> QED BY <1>2, <1>4, <2>1, <2>2, <2>3 DEF Book!remove_item, table, b, c
<1> QED BY <1>7, <1>8, <1>9 DEF c
-----------------------------------------------------------------------------
\* The item of a line is the one the book resolves it to (items.py:100-133).
LEMMA ResolvedAs ==
    ASSUME NEW s, Outcome(s), s.gone = {}, \A id \in ItemIds : Asked(s.cmd, id) = {},
           NEW i, IF has_item(s.cmd) THEN Takes(s, i) ELSE i = None /\ s.new \cap ItemIds = {}
    PROVE  Book!Resolved(s.cmd, i) /\ i \in ItemIds \cup {None} /\ (i # None <=> has_item(s.cmd))
<1> DEFINE c == s.cmd
           items == Entries(ItemIds)
<1>1. ItemIds \subseteq Ids /\ None \notin ItemIds
  BY IdAssumption DEF Ids
<1>2. s.new \cap ItemIds = {} => UNCHANGED Entries(ItemIds)
  BY <1>1, TableKept, After
<1>3. CASE ~has_item(c)
  BY <1>1, <1>2, <1>3 DEF Book!Resolved, has_item
<1>4. CASE has_item(c)
  <2>1. /\ measured(c.line) /\ i \in ItemIds \cap DOMAIN s.now /\ c.line \notin {None, Clear}
        /\ \/ c.line.item = i /\ i \in DOMAIN s.seen /\ s.new \cap ItemIds = {}
           \/ /\ c.line.item = None /\ i \in DOMAIN s.seen /\ s.new \cap ItemIds = {}
              /\ KeyOf[s.seen[i].name] = KeyOf[c.line.name]
           \/ /\ c.line.item = None /\ s.new \cap ItemIds = {i}
              /\ s.now[i] = NewBucket(c.owner, c.line.name)
    BY <1>4 DEF Takes, has_item
  <2>2. i \in DOMAIN s.seen => /\ i \in Book!Mine(items, c.owner)
                               /\ items[i].name = s.seen[i].name
    <3> HAVE i \in DOMAIN s.seen
    <3>1. i \in DOMAIN rows /\ rows[i] = s.seen[i] /\ rows[i].owner = c.owner
          /\ rows[i] \in CategoryRow
      BY <2>1, Rows DEF Outcome, CategoryRow, ItemRow
    <3>2. items[i] = [owner |-> rows[i].owner, name |-> rows[i].name,
                      is_archived |-> rows[i].is_archived] /\ i \in DOMAIN items
      BY <2>1, <3>1, BucketEntry DEF Entries
    <3> QED BY <3>1, <3>2 DEF Book!Mine
  <2>3. CASE c.line.item = i /\ i \in DOMAIN s.seen /\ s.new \cap ItemIds = {}
    BY <1>1, <1>2, <1>4, <2>1, <2>2, <2>3 DEF Book!Resolved, measured
  <2>4. CASE /\ c.line.item = None /\ i \in DOMAIN s.seen /\ s.new \cap ItemIds = {}
             /\ KeyOf[s.seen[i].name] = KeyOf[c.line.name]
    <3>1. i \in Book!Named(items, c.owner, c.line.name)
      BY <2>2, <2>4 DEF Book!Named
    <3> QED BY <1>1, <1>2, <1>4, <2>1, <2>4, <3>1 DEF Book!Resolved, measured
  <2>5. CASE /\ c.line.item = None /\ s.new \cap ItemIds = {i}
             /\ s.now[i] = NewBucket(c.owner, c.line.name)
    <3>1. /\ i \in DOMAIN rows' /\ rows'[i] = s.now[i] /\ rows'[i] \in CategoryRow
          /\ i \notin minted /\ i \notin DOMAIN rows
      <4>1. i \in ItemIds /\ i \in Ids /\ i \notin minted /\ i \notin DOMAIN rows
            /\ i \in DOMAIN s.now \ s.gone /\ i \in DOMAIN rows'
        BY <2>1, <2>5 DEF Outcome
      <4>2. rows'[i] = s.now[i] /\ rows'[i] \in Row(i)
        BY <4>1 DEF Outcome
      <4>3. Row(i) = CategoryRow
        BY <4>1, Rows DEF CategoryRow, ItemRow
      <4> QED BY <4>1, <4>2, <4>3
    <3>2. s.now[i].owner = c.owner /\ s.now[i].name = c.line.name
          /\ s.now[i].is_archived = FALSE
      BY <2>5 DEF NewBucket
    <3>3. Entry(s.now[i]) = Book!Opened(c.owner, c.line.name)
      BY <3>1, <3>2, BucketEntry DEF Book!Opened
    <3>4. EntriesAfter(ItemIds) = Book!With(items, i, Book!Opened(c.owner, c.line.name))
      BY <1>1, <2>5, <3>3, RowAdded
    <3>5. Book!Named(items, c.owner, c.line.name) = {}
      <4> DEFINE name == c.line.name
      <4>1. KeyOf[rows'[i].name] = KeyOf[name] /\ rows'[i].owner = c.owner
        BY <3>1, <3>2
      <4> HIDE DEF name
      <4>2. Book!Named(Entries(ItemIds), rows'[i].owner, name) \subseteq {i} \cap DOMAIN rows
        BY <2>1, <3>1, <4>1, NameWasFree
      <4> QED BY <3>1, <4>1, <4>2 DEF name
    <3>6. Entries(ItemIds)' = Book!With(items, i, Book!Opened(c.owner, c.line.name))
      BY <3>4, After
    <3>7. /\ i \in ItemIds \ minted /\ c.line \notin {None, Clear} /\ c.line.item = None
          /\ c.line.quantity \notin {None, 0} /\ c.line.unit # None
      BY <2>1, <2>5, <3>1 DEF measured
    <3> HIDE DEF items, c
    <3>8. Book!Resolved(c, i)
      BY <3>5, <3>6, <3>7 DEF Book!Resolved, items
    <3>9. i # None
      BY <1>1, <3>7
    <3> QED BY <1>4, <3>7, <3>8, <3>9 DEF c
  <2> QED BY <1>1, <1>4, <2>1, <2>3, <2>4, <2>5
<1> QED BY <1>3, <1>4

\* The category that was looked at is live as the book then is (expenses.py:97-100, 128-130).
LEMMA LookedAt ==
    ASSUME NEW s, Outcome(s), Sound(s), s.gone = {}, s.new \cap CategoryIds = {},
           s.category \in CategoryIds, Asked(s.cmd, s.category) = {}
    PROVE  Book!Live(Entries(CategoryIds), s.cmd.owner, s.category)
<1> DEFINE b == s.category
<1>1. b \in DOMAIN s.now /\ ~s.now[b].is_archived /\ b \in DOMAIN s.seen
  BY IdAssumption DEF Sound, Outcome, Ids
<1>2. b \in DOMAIN rows /\ rows[b].owner = s.cmd.owner /\ rows[b] \in CategoryRow
  BY <1>1, Rows DEF Outcome
<1>3. rows'[b] = s.now[b] /\ rows'[b].is_archived = rows[b].is_archived
  BY <1>1, <1>2 DEF Outcome, CategoryRow
<1>4. /\ b \in DOMAIN Entries(CategoryIds)
      /\ Entries(CategoryIds)[b] = [owner |-> rows[b].owner, name |-> rows[b].name,
                                    is_archived |-> rows[b].is_archived]
  BY <1>2, BucketEntry DEF Entries
<1> QED BY <1>1, <1>2, <1>3, <1>4 DEF Book!Live, Book!Mine
-----------------------------------------------------------------------------
\* A new expense is the book's record (expenses.py:96-118).
LEMMA Recording ==
    ASSUME NEW s, Outcome(s), Sound(s), s.cmd.op = "record", Records(s)
    PROVE  Book!record(s.cmd)
<1> DEFINE c == s.cmd
           i == s.item
<1>1. PICK e \in ExpenseIds : s.new \ ItemIds = {e} /\ e \in DOMAIN s.now /\ s.now[e] = Filled(s)
  BY DEF Records
<1>2. /\ s.gone = {} /\ s.category = c.category
      /\ IF has_item(c) THEN Takes(s, i) ELSE i = None /\ s.new \cap ItemIds = {}
  BY DEF Records, Chosen
<1>3. \A id \in Ids : Asked(c, id) = {}
  BY AskedOnly DEF Outcome, OnCategories, OnItems
<1>4. /\ s.new \cap CategoryIds = {} /\ s.new \cap ExpenseIds = {e} /\ e \in ExpenseIds \ minted
      /\ CategoryIds \subseteq Ids /\ ItemIds \subseteq Ids /\ ExpenseIds \subseteq Ids
  BY <1>1, IdAssumption DEF Outcome, Ids
<1>5. Book!Resolved(c, i) /\ i \in ItemIds \cup {None} /\ (i # None <=> has_item(c))
  BY <1>2, <1>3, <1>4, ResolvedAs
<1>6. s.now[e] \in ExpenseRow
  BY <1>1, <1>2, <1>4, Rows DEF Outcome
<1>7. s.now[e] = [owner |-> c.owner, category |-> c.category, item |-> i,
                  quantity |-> Book!Measured(c, i, "quantity"), unit |-> Book!Measured(c, i, "unit")]
  BY <1>1, <1>2 DEF Filled, set_item, Book!Measured
<1>8. s.category \in CategoryIds
  BY <1>2, <1>6, <1>7 DEF ExpenseRow
<1>9. Book!Live(Entries(CategoryIds), c.owner, c.category)
  BY <1>2, <1>3, <1>4, <1>8, LookedAt
<1>10. EntriesAfter(ExpenseIds) = Book!With(Entries(ExpenseIds), e, s.now[e])
  <2>1. Entry(s.now[e]) = s.now[e]
    BY <1>6, ExpenseEntry
  <2> QED BY <1>2, <1>3, <1>4, <2>1, RowAdded
<1>11. UNCHANGED Entries(CategoryIds)
  BY <1>2, <1>3, <1>4, TableKept, After
<1> HIDE DEF c, i
<1> QED BY <1>4, <1>5, <1>7, <1>9, <1>10, <1>11, After DEF Book!record, c

\* An expense changed is the book's update (expenses.py:122-146).
LEMMA Updating ==
    ASSUME NEW s, Outcome(s), Sound(s), s.cmd.op = "update", Updates(s)
    PROVE  Book!update(s.cmd)
<1> DEFINE c == s.cmd
           e == c.expense
           i == IF has_item(c) THEN s.now[e].item ELSE None
           row == rows[e]
           new == s.now[e]
<1>1. /\ s.gone = {} /\ s.new \subseteq ItemIds
      /\ IF has_item(c) THEN Takes(s, i) ELSE i = None /\ s.new \cap ItemIds = {}
      /\ e \in DOMAIN s.seen /\ e \in DOMAIN s.now
      /\ c.category # None => s.category = c.category /\ new.category = c.category
      /\ c.line = Clear => new.item = None /\ new.quantity = None /\ new.unit = None
      /\ has_item(c) => new.quantity = c.line.quantity /\ new.unit = c.line.unit /\ new.item = i
  BY DEF Updates, Cleared, Refiled
<1>2. /\ c \in Commands /\ c \in Command /\ e \in DOMAIN rows /\ e \in Ids /\ row.owner = c.owner
  BY <1>1 DEF Outcome
<1>3. e \in ExpenseIds /\ CategoryIds \subseteq Ids /\ ItemIds \subseteq Ids /\ ExpenseIds \subseteq Ids
      /\ e \notin CategoryIds \cup ItemIds
  BY <1>2, IdAssumption DEF Command, Ids
<1>4. \A id \in Ids \ {e} : Asked(c, id) = {}
  BY <1>2, AskedOnly DEF OnCategories, OnItems
<1>5. Asked(c, e) = (IF c.category = None THEN {} ELSE {"category"})
                    \cup (IF c.line = None THEN {} ELSE {"item", "quantity", "unit"})
  BY DEF Asked
<1>6. /\ row \in ExpenseRow /\ new \in ExpenseRow /\ rows'[e] = new
      /\ \A column \in {"owner", "category", "item", "quantity", "unit"} :
            new[column] # row[column] => column \in Asked(c, e)
  <2>1. e \in DOMAIN rows' /\ rows'[e] = new
    BY <1>1, <1>2 DEF Outcome
  <2>2. row \in ExpenseRow /\ rows'[e] \in ExpenseRow
    BY <1>2, <1>3, <2>1, Rows DEF Outcome
  <2> QED BY <1>1, <1>2, <2>1, <2>2 DEF Outcome, ExpenseRow
<1>7. Book!Resolved(c, i) /\ i \in ItemIds \cup {None} /\ (i # None <=> has_item(c))
  BY <1>1, <1>3, <1>4, ResolvedAs
<1>8. c.category # None => Book!Live(Entries(CategoryIds), c.owner, c.category)
  <2> HAVE c.category # None
  <2>1. s.category \in CategoryIds /\ s.category = c.category
    BY <1>1, <1>2 DEF Command
  <2>2. Asked(c, s.category) = {} /\ s.new \cap CategoryIds = {}
    BY <1>1, <1>3, <1>4, <2>1, IdAssumption
  <2> QED BY <1>1, <2>1, <2>2, LookedAt
<1>9. /\ Entries(ExpenseIds)[e] = row /\ e \in DOMAIN Entries(ExpenseIds)
      /\ e \in Book!Mine(Entries(ExpenseIds), c.owner)
  BY <1>2, <1>3, <1>6, ExpenseEntry DEF Entries, Book!Mine
<1>10. EntriesAfter(ExpenseIds) = [Entries(ExpenseIds) EXCEPT ![e] = new]
  <2>1. Entry(new) = new /\ s.new \cap ExpenseIds = {}
    BY <1>1, <1>6, ExpenseEntry, IdAssumption
  <2> QED BY <1>1, <1>3, <1>4, <2>1, RowChanged
<1>11. UNCHANGED Entries(CategoryIds)
  <2>1. s.new \cap CategoryIds = {}
    BY <1>1, IdAssumption
  <2> QED BY <1>1, <1>3, <1>4, <2>1, TableKept, After
<1>12. ~has_item(c) <=> c.line \in {None, Clear}
  BY DEF has_item
<1> HIDE DEF i, new, row, e, c
<1>13. new = [row EXCEPT !.category = IF c.category = None THEN row.category ELSE c.category,
                         !.item     = IF c.line = None THEN row.item ELSE i,
                         !.quantity = IF c.line = None THEN row.quantity
                                      ELSE Book!Measured(c, i, "quantity"),
                         !.unit     = IF c.line = None THEN row.unit
                                      ELSE Book!Measured(c, i, "unit")]
  <2>1. new.owner = row.owner
    BY <1>5, <1>6
  <2>2. new.category = IF c.category = None THEN row.category ELSE c.category
    BY <1>1, <1>5, <1>6
  <2>3. CASE c.line = None
    <3>1. new.item = row.item /\ new.quantity = row.quantity /\ new.unit = row.unit
      BY <1>5, <1>6, <2>3
    <3> QED BY <1>6, <2>1, <2>2, <2>3, <3>1 DEF ExpenseRow
  <2>4. CASE c.line # None
    <3>1. /\ new.item = i /\ new.quantity = Book!Measured(c, i, "quantity")
          /\ new.unit = Book!Measured(c, i, "unit")
      BY <1>1, <1>7, <1>12, <2>4 DEF Book!Measured, i
    <3> QED BY <1>6, <2>1, <2>2, <2>4, <3>1 DEF ExpenseRow
  <2> QED BY <2>3, <2>4
<1>14. Entries(ExpenseIds)' = [Entries(ExpenseIds) EXCEPT ![e] = [row EXCEPT
          !.category = IF c.category = None THEN row.category ELSE c.category,
          !.item     = IF c.line = None THEN row.item ELSE i,
          !.quantity = IF c.line = None THEN row.quantity ELSE Book!Measured(c, i, "quantity"),
          !.unit     = IF c.line = None THEN row.unit ELSE Book!Measured(c, i, "unit")]]
  BY <1>10, <1>13, After
<1>15. Entries(ExpenseIds)[e] = row
  BY <1>9
<1> QED BY <1>7, <1>8, <1>9, <1>11, <1>14, <1>15 DEF Book!update, c, e

\* An expense goes (expenses.py:152-156).
LEMMA Deleting ==
    ASSUME NEW s, Outcome(s), s.cmd.op = "delete", s.new = {}, s.gone = {s.cmd.expense}
    PROVE  Book!delete(s.cmd)
<1> DEFINE c == s.cmd
           e == c.expense
<1>1. /\ c \in Commands /\ c \in Command /\ e \in DOMAIN rows /\ e \in Ids
      /\ rows[e].owner = c.owner
  BY DEF Outcome
<1>2. e \in ExpenseIds /\ CategoryIds \subseteq Ids /\ ItemIds \subseteq Ids /\ ExpenseIds \subseteq Ids
      /\ e \notin CategoryIds \cup ItemIds
  BY <1>1, IdAssumption DEF Command, Ids
<1>3. \A id \in Ids \ {e} : Asked(c, id) = {}
  BY <1>1, AskedOnly DEF OnCategories, OnItems
<1>4. e \in Book!Mine(Entries(ExpenseIds), c.owner)
  <2>1. Entries(ExpenseIds)[e] = rows[e] /\ e \in DOMAIN Entries(ExpenseIds)
    BY <1>1, <1>2, ExpenseEntry, Rows DEF Entries, Outcome
  <2> QED BY <1>1, <2>1 DEF Book!Mine
<1>5. EntriesAfter(ExpenseIds) = Book!Without(Entries(ExpenseIds), e)
  BY <1>2, <1>3, RowGone
<1>6. UNCHANGED <<Entries(CategoryIds), Entries(ItemIds)>>
  <2>1. EntriesAfter(CategoryIds) = Entries(CategoryIds)
    BY <1>2, <1>3, TableKept
  <2>2. EntriesAfter(ItemIds) = Entries(ItemIds)
    BY <1>2, <1>3, TableKept
  <2> QED BY <2>1, <2>2, After
<1> QED BY <1>4, <1>5, <1>6, After DEF Book!delete
-----------------------------------------------------------------------------
\* No commit archives what no expense is about any longer, though it was in use
\* when it was counted (categories.py:114-122, items.py:80-83).
NothingMiscounted ==
    \A r \in Requests : Commits(r) =>
        LET s == session[r]
        IN /\ s.cmd.op = "remove_category" =>
                 s.cmd.category \in s.gone \/ InUse(s.cmd.owner, "category", s.cmd.category)
           /\ s.cmd.op = "remove_item" =>
                 s.cmd.item \in s.gone \/ InUse(s.cmd.owner, "item", s.cmd.item)

\* A commit that relies on nothing stale leaves its aggregates and the rest.
LEMMA FreshCommit ==
    ASSUME SInv, SInv', FInv, [NothingStale]_vars, NEW r \in Requests, commit(r), rows' # rows
    PROVE  LET s == session[r]
           IN Outcome(s) /\ Sound(s) /\ Draft(s) /\ s.pc = "commit" /\ s # Idle /\ session'[r] = Idle
<1> DEFINE s == session[r]
<1>1. /\ s.pc = "commit" /\ session'[r] = Idle
      /\ Sound(s) /\ Typed(s) /\ Tidy(s) /\ RowsTyped /\ RowsHeld /\ Constraints(rows')
      /\ \A id \in DOMAIN rows' :
            IF id \in s.new \cup Dirty(s) THEN id \in DOMAIN s.now /\ rows'[id] = s.now[id]
            ELSE id \in DOMAIN rows /\ rows'[id] = rows[id]
  BY Leaving, UpdatesWhatItLoaded
<1>2. s # Idle
  BY <1>1 DEF Idle
<1>3. \A id \in DOMAIN s.seen : id \in DOMAIN rows /\ rows[id] = s.seen[id]
  BY <1>1, <1>2 DEF NothingStale, Commits, vars
<1>4. rows' = Synchronised(s) /\ minted' = minted \cup s.new
  BY DEF commit, End
<1>5. DOMAIN rows' = (DOMAIN rows \cup s.new) \ s.gone
  BY <1>4 DEF Synchronised
<1>6. AnswersOnly(s.cmd)
  BY CommitAnswers DEF FInv
<1>7. s.cmd \in Commands /\ s.cmd \in Command
  BY <1>1, StandingTyped DEF FInv, AInv
<1>8. Draft(s)
  BY DEF FInv
<1>9. /\ \A id \in DOMAIN rows' : rows'[id] \in Row(id)
      /\ \A b \in (CategoryIds \cup ItemIds) \cap DOMAIN rows' : rows'[b].key = KeyOf[rows'[b].name]
  BY DEF SInv, KInv, TInv, RowsTyped, RowsKeyed, NameKeyed, NameKeysFollowNames, Row
<1> HIDE DEF s
<1>10. \A id \in DOMAIN s.seen : s.seen[id] = rows[id] /\ rows[id].owner = s.cmd.owner
  BY <1>1, <1>3 DEF Tidy
<1>11. ASSUME NEW id \in DOMAIN s.now \ s.gone PROVE rows'[id] = s.now[id]
  <2>1. id \in DOMAIN rows'
    BY <1>1, <1>3, <1>5, <1>11 DEF Tidy
  <2>2. CASE id \in s.new \cup Dirty(s)
    BY <1>1, <2>1, <2>2
  <2>3. CASE id \notin s.new \cup Dirty(s)
    <3>1. id \in DOMAIN s.seen /\ rows'[id] = rows[id]
      BY <1>1, <1>11, <2>1, <2>3 DEF Tidy
    <3> QED BY <1>3, <1>11, <2>3, <3>1 DEF Dirty
  <2> QED BY <2>2, <2>3
<1>12. \A id \in DOMAIN rows \ s.gone : \A column \in DOMAIN rows[id] \ {"key"} :
          rows'[id][column] # rows[id][column] => column \in Asked(s.cmd, id)
  BY <1>5, <1>6 DEF AnswersOnly
<1>13. Outcome(s)
  <2>1. /\ DOMAIN rows \subseteq minted /\ minted \subseteq Ids /\ DOMAIN s.seen \subseteq DOMAIN rows
        /\ s.new \subseteq Ids \ minted /\ s.gone \subseteq DOMAIN s.seen
        /\ DOMAIN s.now = DOMAIN s.seen \cup s.new
        /\ \A id \in DOMAIN rows : rows[id] \in Row(id)
    BY <1>1, <1>3 DEF Tidy, Typed, RowsHeld, RowsTyped
  <2> QED BY <1>1, <1>4, <1>5, <1>7, <1>9, <1>10, <1>11, <1>12, <2>1 DEF Outcome
<1> QED BY <1>1, <1>2, <1>8, <1>13 DEF s

\* What it leaves is what the book makes of its command.
LEMMA CommitIsDone ==
    ASSUME SInv, SInv', FInv, [NothingStale]_vars, [NothingMiscounted]_vars,
           NEW r \in Requests, commit(r), rows' # rows
    PROVE  Book!Do(session[r].cmd)
<1> DEFINE s == session[r]
           c == session[r].cmd
<1>1. Outcome(s) /\ Sound(s) /\ Draft(s) /\ s.pc = "commit" /\ Commits(r)
  BY FreshCommit DEF Commits
<1>2. /\ c.op = "remove_category" => c.category \in s.gone \/ InUse(c.owner, "category", c.category)
      /\ c.op = "remove_item" => c.item \in s.gone \/ InUse(c.owner, "item", c.item)
  BY <1>1 DEF NothingMiscounted, Commits, vars
<1>3. c.op \in Ops
  BY <1>1 DEF Outcome, Command
<1> HIDE DEF s
<1>4. /\ s.cmd.op = "create_category" => Opens(s, CategoryIds)
      /\ s.cmd.op = "create_item" => Opens(s, ItemIds)
      /\ s.cmd.op \in OnCategories \cup OnItems => Handles(s)
      /\ s.cmd.op = "record" => Records(s)
      /\ s.cmd.op = "update" => Updates(s)
      /\ s.cmd.op = "delete" => s.new = {} /\ s.gone = {s.cmd.expense}
  BY <1>1 DEF Draft
<1>5. s.cmd.op \in {"create_category", "create_item"} =>
         /\ s.cmd.op = "create_category" => Book!create_category(s.cmd)
         /\ s.cmd.op = "create_item" => Book!create_item(s.cmd)
  BY <1>1, <1>4, Creating
<1>6. s.cmd.op \in OnCategories =>
         /\ s.cmd.op = "rename_category" => Book!rename_category(s.cmd)
         /\ s.cmd.op = "archive_category" => Book!archive_category(s.cmd)
         /\ s.cmd.op = "restore_category" => Book!restore_category(s.cmd)
         /\ s.cmd.op = "remove_category" => Book!remove_category(s.cmd)
  <2> HAVE s.cmd.op \in OnCategories
  <2>1. s.cmd.op \in Removes /\ s.gone = {} => InUse(s.cmd.owner, "category", s.cmd.category)
    BY <1>2 DEF Removes, OnCategories, s
  <2> QED BY <1>1, <1>4, <2>1, HandlingCategory
<1>7. s.cmd.op \in OnItems =>
         /\ s.cmd.op = "archive_item" => Book!archive_item(s.cmd)
         /\ s.cmd.op = "restore_item" => Book!restore_item(s.cmd)
         /\ s.cmd.op = "remove_item" => Book!remove_item(s.cmd)
  <2> HAVE s.cmd.op \in OnItems
  <2>1. s.cmd.op \in Removes /\ s.gone = {} => InUse(s.cmd.owner, "item", s.cmd.item)
    BY <1>2 DEF Removes, OnItems, s
  <2> QED BY <1>1, <1>4, <2>1, HandlingItem
<1>8. /\ s.cmd.op = "record" => Book!record(s.cmd)
      /\ s.cmd.op = "update" => Book!update(s.cmd)
      /\ s.cmd.op = "delete" => Book!delete(s.cmd)
  BY <1>1, <1>4, Recording, Updating, Deleting
<1>9. minted' = minted \cup DOMAIN Entries(CategoryIds)' \cup DOMAIN Entries(ItemIds)'
                       \cup DOMAIN Entries(ExpenseIds)'
  <2>1. /\ DOMAIN Entries(CategoryIds)' = CategoryIds \cap DOMAIN rows'
        /\ DOMAIN Entries(ItemIds)' = ItemIds \cap DOMAIN rows'
        /\ DOMAIN Entries(ExpenseIds)' = ExpenseIds \cap DOMAIN rows'
    BY DEF Entries
  <2> QED BY <1>1, <2>1 DEF Outcome, Ids
<1>10. /\ s.cmd.op = "create_category" => Book!create_category(s.cmd)
       /\ s.cmd.op = "create_item" => Book!create_item(s.cmd)
       /\ s.cmd.op = "rename_category" => Book!rename_category(s.cmd)
       /\ s.cmd.op = "archive_category" => Book!archive_category(s.cmd)
       /\ s.cmd.op = "restore_category" => Book!restore_category(s.cmd)
       /\ s.cmd.op = "remove_category" => Book!remove_category(s.cmd)
       /\ s.cmd.op = "archive_item" => Book!archive_item(s.cmd)
       /\ s.cmd.op = "restore_item" => Book!restore_item(s.cmd)
       /\ s.cmd.op = "remove_item" => Book!remove_item(s.cmd)
  BY <1>5, <1>6, <1>7 DEF OnCategories, OnItems
<1>11. \/ s.cmd.op = "create_category"  /\ Book!create_category(s.cmd)
       \/ s.cmd.op = "rename_category"  /\ Book!rename_category(s.cmd)
       \/ s.cmd.op = "archive_category" /\ Book!archive_category(s.cmd)
       \/ s.cmd.op = "restore_category" /\ Book!restore_category(s.cmd)
       \/ s.cmd.op = "remove_category"  /\ Book!remove_category(s.cmd)
       \/ s.cmd.op = "create_item"      /\ Book!create_item(s.cmd)
       \/ s.cmd.op = "archive_item"     /\ Book!archive_item(s.cmd)
       \/ s.cmd.op = "restore_item"     /\ Book!restore_item(s.cmd)
       \/ s.cmd.op = "remove_item"      /\ Book!remove_item(s.cmd)
       \/ s.cmd.op = "record"           /\ Book!record(s.cmd)
       \/ s.cmd.op = "update"           /\ Book!update(s.cmd)
       \/ s.cmd.op = "delete"           /\ Book!delete(s.cmd)
  BY <1>3, <1>8, <1>10 DEF Ops, s
<1> QED BY <1>9, <1>11 DEF Book!Do, s
-----------------------------------------------------------------------------
\* The session of s, worked on.
SameRequest(l, s) == DOMAIN l = Fields /\ l.cmd = s.cmd /\ l.pc = s.pc

\* Statements before the commit do not change what was asked for, and come in
\* the order of its use case.
LEMMA GoesOnAsking ==
    ASSUME FInv, NEW r \in Requests, statement(r), ~commit(r)
    PROVE  \/ End(r)
           \/ \E s : /\ Continue(r, s) /\ s.cmd = session[r].cmd
                     /\ s.pc = next(session[r].cmd, session[r].pc)
<1> DEFINE o == session[r]
           c == session[r].cmd
           l == rehydrate(o, {c.expense})
<1> SUFFICES End(r) \/ \E x : Continue(r, x) /\ x.cmd = c /\ x.pc = next(c, o.pc)
  OBVIOUS
<1>1. SameRequest(o, o)
  BY DEF FInv, Draft, SameRequest
<1>2. ASSUME NEW s, SameRequest(s, o)
      PROVE  /\ \A ids : SameRequest(rehydrate(s, ids), o)
             /\ \A id, row : SameRequest(Edit(s, id, row), o) /\ SameRequest(Added(s, id, row), o)
             /\ \A id : /\ SameRequest(delete(s, id), o)
                        /\ SameRequest([s EXCEPT !.category = id], o)
                        /\ SameRequest([s EXCEPT !.item = id], o)
             /\ advance(s).cmd = c /\ advance(s).pc = next(c, o.pc)
  BY <1>2, LoadedHolds, EditedHolds, AddedHolds, NotedHolds, AdvancedHolds DEF SameRequest
<1>3. ASSUME NEW s, SameRequest(s, o), NEW ok, Proceed(r, ok, s)
      PROVE  End(r) \/ \E x : Continue(r, x) /\ x.cmd = c /\ x.pc = next(c, o.pc)
  BY <1>2, <1>3 DEF Proceed
<1>4. ASSUME NEW s, SameRequest(s, o), NEW id, NEW row, insert(r, id, row, advance(s))
      PROVE  End(r) \/ \E x : Continue(r, x) /\ x.cmd = c /\ x.pc = next(c, o.pc)
  BY <1>2, <1>4 DEF insert
<1> HIDE DEF o
<1>5. CASE get_expense(r)
  <2> DEFINE g == IF c.op = "delete" THEN delete(l, c.expense)
                  ELSE IF c.line = Clear THEN Edit(l, c.expense, clear_item(l.now[c.expense]))
                  ELSE l
  <2>1. Proceed(r, /\ c.expense \in OwnedBy(c.owner, ExpenseIds)
                   /\ validate_item_line(rows[c.expense]), g)
    BY <1>5 DEF get_expense, o
  <2>2. SameRequest(g, o)
    BY <1>1, <1>2
  <2> HIDE DEF g
  <2> QED BY <1>3, <2>1, <2>2
<1>6. CASE use_category(r)
  <2> DEFINE k == rehydrate(o, {c.category})
             s == [k EXCEPT !.category = c.category]
             g == IF c.op = "update"
                  THEN Edit(s, c.expense, recategorise(s.now[c.expense], c.category)) ELSE s
  <2>1. Proceed(r, /\ c.category \in OwnedBy(c.owner, CategoryIds)
                   /\ ensure_category_usable(s.now[c.category]), g)
    BY <1>6 DEF use_category, o
  <2>2. SameRequest(k, o)
    BY <1>1, <1>2
  <2> HIDE DEF k
  <2>3. SameRequest(s, o)
    BY <1>2, <2>2
  <2> HIDE DEF s
  <2>4. SameRequest(g, o)
    BY <1>2, <2>3
  <2> HIDE DEF g
  <2> QED BY <1>3, <2>1, <2>4
<1>7. CASE resolve_item(r)
  <2> DEFINE listed == rehydrate(o, OwnedBy(c.owner, ItemIds))
             given  == rehydrate(o, {c.line.item})
             row    == NewBucket(c.owner, c.line.name)
  <2>1. \/ End(r)
        \/ Continue(r, advance(WithItem(given, c.line.item)))
        \/ \E item : Continue(r, advance(WithItem(listed, item)))
        \/ \E item : insert(r, item, row, advance(WithItem(Added(listed, item, row), item)))
    BY <1>7 DEF resolve_item, Proceed, o
  <2>2. SameRequest(listed, o) /\ SameRequest(given, o)
    BY <1>1, <1>2
  <2> HIDE DEF listed, given, row
  <2>3. ASSUME NEW s, SameRequest(s, o), NEW item
        PROVE  SameRequest(WithItem(s, item), o)
    BY <1>2, <2>3 DEF WithItem
  <2>4. CASE Continue(r, advance(WithItem(given, c.line.item)))
    BY <1>2, <2>2, <2>3, <2>4
  <2>5. ASSUME NEW item, Continue(r, advance(WithItem(listed, item)))
        PROVE  \E x : Continue(r, x) /\ x.cmd = c /\ x.pc = next(c, o.pc)
    BY <1>2, <2>2, <2>3, <2>5
  <2>6. ASSUME NEW item, insert(r, item, row, advance(WithItem(Added(listed, item, row), item)))
        PROVE  End(r) \/ \E x : Continue(r, x) /\ x.cmd = c /\ x.pc = next(c, o.pc)
    <3>1. SameRequest(Added(listed, item, row), o)
      BY <1>2, <2>2
    <3> QED BY <1>4, <2>3, <2>6, <3>1
  <2> QED BY <2>1, <2>4, <2>5, <2>6
<1>8. CASE insert_expense(r) \/ insert_category(r) \/ insert_item(r)
  <2>1. PICK id, row : insert(r, id, row, advance(Added(o, id, row)))
    BY <1>8 DEF insert_expense, insert_category, insert_item, o
  <2>2. SameRequest(Added(o, id, row), o)
    BY <1>1, <1>2
  <2> QED BY <1>4, <2>1, <2>2
<1>9. CASE get_category(r) \/ get_item(r)
  <2>1. PICK id, ok, g : /\ Proceed(r, ok, g)
                         /\ \/ g = rehydrate(o, {id})
                            \/ \E row : g = Edit(rehydrate(o, {id}), id, row)
    <3>1. CASE get_category(r)
      <4> DEFINE s == rehydrate(o, {c.category})
                 row == s.now[c.category]
                 ok == /\ c.category \in OwnedBy(c.owner, CategoryIds)
                       /\ c.op = "archive_category" => ~row.is_archived
                 g == CASE c.op = "archive_category" -> Edit(s, c.category, archive(row))
                        [] c.op = "restore_category" -> Edit(s, c.category, restore(row))
                        [] OTHER                     -> s
      <4>1. Proceed(r, ok, g)
        BY <3>1 DEF get_category, o
      <4>2. g = s \/ \E x : g = Edit(s, c.category, x)
        OBVIOUS
      <4> HIDE DEF g, ok
      <4> QED BY <4>1, <4>2
    <3>2. CASE get_item(r)
      <4> DEFINE s == rehydrate(o, {c.item})
                 row == s.now[c.item]
                 ok == /\ c.item \in OwnedBy(c.owner, ItemIds)
                       /\ c.op = "archive_item" => ~row.is_archived
                 g == CASE c.op = "archive_item" -> Edit(s, c.item, archive(row))
                        [] c.op = "restore_item" -> Edit(s, c.item, restore(row))
                        [] OTHER                 -> s
      <4>1. Proceed(r, ok, g)
        BY <3>2 DEF get_item, o
      <4>2. g = s \/ \E x : g = Edit(s, c.item, x)
        OBVIOUS
      <4> HIDE DEF g, ok
      <4> QED BY <4>1, <4>2
    <3> QED BY <1>9, <3>1, <3>2
  <2>2. SameRequest(g, o)
    <3>1. SameRequest(rehydrate(o, {id}), o)
      BY <1>1, <1>2
    <3> DEFINE k == rehydrate(o, {id})
    <3> HIDE DEF k
    <3>2. g = k \/ \E row : g = Edit(k, id, row)
      BY <2>1 DEF k
    <3>3. SameRequest(k, o)
      BY <3>1 DEF k
    <3>4. \A row : SameRequest(Edit(k, id, row), o)
      BY <1>2, <3>3
    <3> QED BY <3>2, <3>3, <3>4
  <2> QED BY <1>3, <2>1, <2>2
<1>10. CASE list_categories(r)
  <2> DEFINE existing == OwnedBy(c.owner, CategoryIds)
             s == rehydrate(o, existing)
             g == IF c.op = "rename_category"
                  THEN Edit(s, c.category, rename(s.now[c.category], c.name)) ELSE s
  <2>1. PICK ok : Proceed(r, ok, g)
    BY <1>10 DEF list_categories, o
  <2>2. SameRequest(g, o)
    BY <1>1, <1>2
  <2> HIDE DEF g
  <2> QED BY <1>3, <2>1, <2>2
<1>11. CASE list_items(r)
  <2> DEFINE s == rehydrate(o, OwnedBy(c.owner, ItemIds))
  <2>1. PICK ok : Proceed(r, ok, s)
    BY <1>11 DEF list_items, o
  <2>2. SameRequest(s, o)
    BY <1>1, <1>2
  <2> HIDE DEF s
  <2> QED BY <1>3, <2>1, <2>2
<1>12. CASE count_for_category(r) \/ count_for_item(r)
  <2>1. PICK id, ok, in_use :
           Proceed(r, ok, IF in_use THEN Edit(o, id, archive(o.now[id])) ELSE delete(o, id))
    BY <1>12 DEF count_for_category, count_for_item, o
  <2> DEFINE g == IF in_use THEN Edit(o, id, archive(o.now[id])) ELSE delete(o, id)
  <2>2. SameRequest(g, o)
    BY <1>1, <1>2
  <2> HIDE DEF g
  <2> QED BY <1>3, <2>1, <2>2 DEF g
<1> QED BY <1>5, <1>6, <1>7, <1>8, <1>9, <1>10, <1>11, <1>12 DEF statement
-----------------------------------------------------------------------------
\* The book is what the rows and the ids are; what is asked, what the sessions are.
LEMMA SameBook == UNCHANGED <<rows, minted>> => UNCHANGED Book!book
BY DEF Book!book, Entries

\* A request whose session is closed with the book as it was has been answered.
LEMMA AnsweredWithNothing ==
    ASSUME IInv, NEW r \in Requests, session' = [session EXCEPT ![r] = Idle], UNCHANGED Book!book
    PROVE  [Book!Next]_(Book!vars)
<1> DEFINE asked == [q \in Requests |-> session[q].cmd]
<1>1. DOMAIN session = Requests
  BY DEF IInv
<1>2. asked' = [asked EXCEPT ![r] = None]
  BY <1>1 DEF Idle
<1>3. asked[r] = None => asked' = asked
  BY <1>2
<1>4. asked[r] # None => Book!answer(r)
  BY <1>2 DEF Book!answer
<1> QED BY <1>3, <1>4 DEF Book!Next, Book!vars

\* A step of the requests is one of the book, or none.
LEMMA BookStep ==
    ASSUME SInv, SInv', FInv, [Next]_vars, [NothingStale]_vars, [NothingMiscounted]_vars
    PROVE  [Book!Next]_(Book!vars)
<1> DEFINE asked == [q \in Requests |-> session[q].cmd]
<1>1. IInv /\ DOMAIN session = Requests
  BY DEF SInv, KInv, TInv, IInv
<1>2. ASSUME NEW r \in Requests, End(r) PROVE [Book!Next]_(Book!vars)
  BY <1>1, <1>2, SameBook, AnsweredWithNothing DEF End
<1>3. ASSUME NEW r \in Requests, NEW s, Continue(r, s), s.cmd = session[r].cmd
      PROVE  [Book!Next]_(Book!vars)
  <2>1. asked' = asked
    BY <1>1, <1>3 DEF Continue
  <2> QED BY <1>3, <2>1, SameBook DEF Continue, Book!vars
<1>4. ASSUME NEW r \in Requests, NEW c \in Commands, begin(r, c) PROVE [Book!Next]_(Book!vars)
  <2>1. asked[r] = None
    BY <1>4 DEF begin, Idle
  <2>2. asked' = [asked EXCEPT ![r] = c]
    <3>1. \A q \in Requests : session'[q].cmd = IF q = r THEN c ELSE session[q].cmd
      BY <1>1, <1>4 DEF begin, Idle
    <3> QED BY <3>1
  <2>3. UNCHANGED Book!book
    BY <1>4, SameBook DEF begin
  <2> QED BY <2>1, <2>2, <2>3 DEF Book!ask, Book!Next
<1>5. ASSUME NEW r \in Requests, commit(r) PROVE [Book!Next]_(Book!vars)
  <2>1. CASE ~End(r) /\ rows' = rows
    <3>1. /\ session[r].pc = "commit"
          /\ rows' = Synchronised(session[r]) /\ minted' = minted \cup session[r].new
          /\ session' = [session EXCEPT ![r] = Idle]
      BY <1>5, <2>1 DEF commit
    <3>2. Tidy(session[r]) /\ Typed(session[r]) /\ RowsHeld
      BY <3>1, StandingTyped DEF SInv, KInv
    <3>3. session[r].new = {}
      <4> DEFINE s == session[r]
      <4>1. DOMAIN rows = (DOMAIN rows \cup s.new) \ s.gone
        BY <2>1, <3>1 DEF Synchronised
      <4> HIDE DEF s
      <4>2. s.gone \cap s.new = {} /\ s.new \cap DOMAIN rows = {}
        BY <3>2 DEF Tidy, Typed, RowsHeld, s
      <4>3. s.new = {}
        BY <4>1, <4>2
      <4> QED BY <4>3 DEF s
    <3>4. UNCHANGED <<rows, minted>>
      BY <2>1, <3>1, <3>3
    <3> QED BY <1>1, <3>1, <3>4, SameBook, AnsweredWithNothing
  <2>2. CASE rows' # rows
    <3>1. Book!Do(session[r].cmd)
      BY <1>5, <2>2, CommitIsDone
    <3>2. session[r].pc = "commit" /\ session' = [session EXCEPT ![r] = Idle]
      BY <1>5, <2>2 DEF commit, End
    <3>3. asked[r] # None /\ asked[r] = session[r].cmd
      BY <3>2, StandingTyped DEF SInv, KInv
    <3>4. asked' = [asked EXCEPT ![r] = None]
      BY <1>1, <3>2 DEF Idle
    <3>5. Book!answer(r)
      BY <3>1, <3>3, <3>4 DEF Book!answer
    <3> QED BY <3>5 DEF Book!Next
  <2> QED BY <1>2, <2>1, <2>2
<1>6. ASSUME NEW r \in Requests, statement(r) PROVE [Book!Next]_(Book!vars)
  BY <1>2, <1>3, <1>5, <1>6, GoesOnAsking
<1>7. CASE UNCHANGED vars
  <2>1. asked' = asked
    BY <1>7 DEF vars
  <2> QED BY <1>7, <2>1, SameBook DEF vars, Book!vars
<1> QED BY <1>2, <1>4, <1>6, <1>7 DEF Next, crash

\* Nothing is filed, and nobody has asked.
LEMMA BookInit == Init => Book!Init
<1> SUFFICES ASSUME Init PROVE Book!Init
  OBVIOUS
<1>1. \A table : Entries(table) = [id \in {} |-> None]
  BY DEF Init, Entries, NoRows
<1>2. [r \in Requests |-> session[r].cmd] = [r \in Requests |-> None]
  BY DEF Init, Idle
<1> QED BY <1>1, <1>2 DEF Init, Book!Init, Book!Empty

\* Requests that overlap are each carried out in one step, at the commit, or not
\* at all, as long as no commit relies on a row that another one changed since it
\* was loaded and none archives what nothing is filed under any longer.  The
\* second is not a case of the first: a COUNT loads no row whose version could be
\* compared (repositories.py:145-165).
THEOREM FreshRequestsAreWhole ==
    Spec /\ [][NothingStale]_vars /\ [][NothingMiscounted]_vars => CarriedOutWhole
<1>1. SInv /\ FInv /\ [Next]_vars /\ [NothingStale]_vars => SInv' /\ FInv'
  BY SInvStep, FInvStep, UpdatesWhatItLoaded
<1>2. SInv /\ SInv' /\ FInv /\ [Next]_vars /\ [NothingStale]_vars /\ [NothingMiscounted]_vars
      => [Book!Next]_(Book!vars)
  BY BookStep
<1> QED BY <1>1, <1>2, SInvInit, FInvInit, BookInit, PTL DEF Spec, CarriedOutWhole, Book!Spec
-----------------------------------------------------------------------------
\* What is archived as in use still is.
Recounted(s) ==
    s.pc = "commit" =>
        /\ s.cmd.op = "remove_category" =>
              s.cmd.category \in s.gone \/ InUse(s.cmd.owner, "category", s.cmd.category)
        /\ s.cmd.op = "remove_item" =>
              s.cmd.item \in s.gone \/ InUse(s.cmd.owner, "item", s.cmd.item)

Settled == \A r \in Requests : Recounted(session[r])

LEMMA IdleRecounted == Recounted(Idle)
BY DEF Recounted, Idle

\* A use case that removes something counts last (categories.py:104-126, items.py:76-86).
LEMMA CountedLast ==
    ASSUME FInv, NEW r \in Requests, statement(r), ~commit(r), ~End(r)
    PROVE  \E s : Continue(r, s) /\ Recounted(s)
<1> DEFINE o == session[r]
           c == session[r].cmd
<1>1. o.pc # "idle" /\ Draft(o) /\ Counting(o) /\ Placed(o) /\ Routed(o)
  <2>1. o.pc # "idle"
    BY DEF statement, get_expense, use_category, resolve_item, insert_expense, get_category,
           list_categories, insert_category, count_for_category, get_item, list_items,
           insert_item, count_for_item
  <2> QED BY <2>1, StandingTyped DEF FInv, AInv
<1>2. PICK x : Continue(r, x) /\ x.cmd = c /\ x.pc = next(c, o.pc)
  BY GoesOnAsking
<1>3. CASE count_for_category(r)
  <2> DEFINE id == c.category
             in_use == InUse(c.owner, "category", id)
  <2>1. /\ o.pc = "count_for_category" /\ c.op = "remove_category"
        /\ \/ in_use /\ Continue(r, advance(Edit(o, id, archive(o.now[id]))))
           \/ Continue(r, advance(delete(o, id)))
    BY <1>1, <1>3 DEF count_for_category, Proceed, Counting
  <2> HIDE DEF in_use, o
  <2>2. CASE in_use /\ Continue(r, advance(Edit(o, id, archive(o.now[id]))))
    <3> DEFINE l == Edit(o, id, archive(o.now[id]))
    <3>1. DOMAIN l = Fields /\ l.cmd = o.cmd
      BY <1>1, EditedHolds DEF Draft
    <3> HIDE DEF l
    <3>2. advance(l).cmd = c
      BY <3>1, AdvancedHolds DEF o
    <3>3. Recounted(advance(l))
      BY <2>1, <2>2, <3>2 DEF Recounted, in_use
    <3> QED BY <2>2, <3>3 DEF l
  <2>3. CASE Continue(r, advance(delete(o, id)))
    <3> DEFINE l == delete(o, id)
    <3>1. DOMAIN l = Fields /\ l.cmd = o.cmd /\ id \in l.gone
      BY <1>1, NotedHolds DEF Draft
    <3> HIDE DEF l
    <3>2. advance(l).cmd = c /\ id \in advance(l).gone
      BY <3>1, AdvancedHolds DEF o
    <3>3. Recounted(advance(l))
      BY <2>1, <3>2 DEF Recounted
    <3> QED BY <2>3, <3>3 DEF l
  <2> QED BY <2>1, <2>2, <2>3
<1>4. CASE count_for_item(r)
  <2> DEFINE id == c.item
             in_use == InUse(c.owner, "item", id)
  <2>1. /\ o.pc = "count_for_item" /\ c.op = "remove_item"
        /\ \/ in_use /\ Continue(r, advance(Edit(o, id, archive(o.now[id]))))
           \/ Continue(r, advance(delete(o, id)))
    BY <1>1, <1>4 DEF count_for_item, Proceed, Counting
  <2> HIDE DEF in_use, o
  <2>2. CASE in_use /\ Continue(r, advance(Edit(o, id, archive(o.now[id]))))
    <3> DEFINE l == Edit(o, id, archive(o.now[id]))
    <3>1. DOMAIN l = Fields /\ l.cmd = o.cmd
      BY <1>1, EditedHolds DEF Draft
    <3> HIDE DEF l
    <3>2. advance(l).cmd = c
      BY <3>1, AdvancedHolds DEF o
    <3>3. Recounted(advance(l))
      BY <2>1, <2>2, <3>2 DEF Recounted, in_use
    <3> QED BY <2>2, <3>3 DEF l
  <2>3. CASE Continue(r, advance(delete(o, id)))
    <3> DEFINE l == delete(o, id)
    <3>1. DOMAIN l = Fields /\ l.cmd = o.cmd /\ id \in l.gone
      BY <1>1, NotedHolds DEF Draft
    <3> HIDE DEF l
    <3>2. advance(l).cmd = c /\ id \in advance(l).gone
      BY <3>1, AdvancedHolds DEF o
    <3>3. Recounted(advance(l))
      BY <2>1, <3>2 DEF Recounted
    <3> QED BY <2>3, <3>3 DEF l
  <2> QED BY <2>1, <2>2, <2>3
<1>5. CASE ~count_for_category(r) /\ ~count_for_item(r)
  <2>1. o.pc \in {"get_expense", "use_category", "resolve_item", "insert_expense", "get_category",
                  "list_categories", "insert_category", "get_item", "list_items", "insert_item"}
    BY <1>5 DEF statement, get_expense, use_category, resolve_item, insert_expense, get_category,
                list_categories, insert_category, get_item, list_items, insert_item
  <2>2. c.op \in Removes => o.pc \in {"get_category", "get_item"}
    BY <1>1, <2>1 DEF Draft, Underway, Placed, Routed, Removes
  <2>3. c.op \in Removes => x.pc # "commit"
    <3>1. o.pc = "get_category" /\ c.op \in Removes => c.op = "remove_category"
      BY <1>1 DEF Draft, Underway, Removes, OnCategories
    <3>2. o.pc = "get_item" /\ c.op \in Removes => c.op = "remove_item"
      BY <1>1 DEF Draft, Underway, Removes, OnItems
    <3> QED BY <1>2, <2>2, <3>1, <3>2 DEF next
  <2> QED BY <1>2, <2>3 DEF Recounted, Removes
<1> QED BY <1>3, <1>4, <1>5

\* Who takes turns removes what it counted.
LEMMA SettledStep == FInv /\ Settled /\ OneAtATime /\ [Next]_vars => Settled'
<1> SUFFICES ASSUME FInv, Settled, OneAtATime, [Next]_vars PROVE Settled'
  OBVIOUS
<1>1. DOMAIN session = Requests
  BY DEF FInv, AInv, TInv, IInv
<1>2. ASSUME NEW r \in Requests, NEW s, Continue(r, s), Recounted(s) PROVE Settled'
  <2>1. ASSUME NEW q \in Requests PROVE Recounted(session[q])'
    <3>1. PICK x : x = session'[q] /\ Recounted(x) /\ rows' = rows
      BY <1>1, <1>2 DEF Continue, Settled
    <3> QED BY <3>1 DEF Recounted, InUse, OwnedBy
  <2> QED BY <2>1 DEF Settled
<1>3. ASSUME NEW r \in Requests, End(r) PROVE Settled'
  BY <1>2, <1>3, IdleRecounted DEF End, Continue
<1>4. CASE UNCHANGED vars
  BY <1>4 DEF vars, Settled, Recounted, InUse, OwnedBy
<1>5. ASSUME NEW r \in Requests, NEW c \in Commands, begin(r, c) PROVE Settled'
  <2> DEFINE s == [Idle EXCEPT !.cmd = c, !.pc = first(c)]
  <2>1. Continue(r, s)
    BY <1>5 DEF begin, Continue
  <2>2. Recounted(s)
    <3>1. s.cmd = c /\ s.pc = first(c)
      BY DEF Idle
    <3> HIDE DEF s
    <3> QED BY <3>1 DEF Recounted, first
  <2> HIDE DEF s
  <2> QED BY <1>2, <2>1, <2>2
<1>6. ASSUME NEW r \in Requests, commit(r), ~End(r) PROVE Settled'
  <2>1. session' = [session EXCEPT ![r] = Idle] /\ session[r] # Idle
    BY <1>6 DEF commit, Idle
  <2>2. ASSUME NEW q \in Requests PROVE Recounted(session[q])'
    <3>1. session'[q] = Idle
      BY <1>1, <2>1 DEF OneAtATime
    <3> QED BY <3>1 DEF Recounted, Idle
  <2> QED BY <2>2 DEF Settled
<1>7. ASSUME NEW r \in Requests, statement(r) PROVE Settled'
  BY <1>2, <1>3, <1>6, <1>7, CountedLast
<1> QED BY <1>3, <1>4, <1>5, <1>7 DEF Next, crash

LEMMA SettledInit == Init => Settled
BY IdleRecounted DEF Init, Settled

LEMMA SettledIsCounted == FInv /\ Settled /\ [Next]_vars => [NothingMiscounted]_vars
<1> SUFFICES ASSUME FInv, Settled, [Next]_vars, NEW r \in Requests, Commits(r)
             PROVE  session[r].pc = "commit" /\ Recounted(session[r])
  BY DEF NothingMiscounted, Recounted
<1>1. PICK q \in Requests : commit(q)
  BY OnlyCommitsWrite DEF Commits
<1>2. session[q].pc = "commit" /\ session' = [session EXCEPT ![q] = Idle]
  BY <1>1 DEF commit, End
<1>3. r = q
  BY <1>2 DEF Commits, FInv, AInv, TInv, IInv
<1> QED BY <1>2, <1>3 DEF Settled

\* Requests that take turns are, whatever they ask for and wherever one of them
\* dies: the statements of a use case and its commit (unit_of_work.py:58-63) are
\* one step of the book, and one that raises is none.
THEOREM TurnsAreWhole == Spec /\ []OneAtATime => CarriedOutWhole
<1>1. Spec /\ []OneAtATime => [][NothingStale]_vars
  BY TInvInit, TInvStep, CurrentInit, CurrentStep, CurrentIsFresh, PTL DEF Spec
<1>2. Spec /\ []OneAtATime => [][NothingMiscounted]_vars
  BY FInvInit, FInvStep, SettledInit, SettledStep, SettledIsCounted, PTL DEF Spec
<1> QED BY <1>1, <1>2, FreshRequestsAreWhole, PTL
=============================================================================
