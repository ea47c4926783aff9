---------------------- MODULE FixedExpenseStoreTheorems ----------------------
(***************************************************************************)
(* One commitment under Units of Work that overlap, for any number of      *)
(* them, any Settlements and any months.                                   *)
(*                                                                         *)
(* IInv: a month is paid once.  The unique constraint is met by inserts    *)
(* alone; that an UPDATE of a Settlement cannot break it is because its    *)
(* period never changes, in whichever session it is held.                  *)
(*                                                                         *)
(* WInv: what a session loaded and how far it went from there (Kept), and  *)
(* that who is not behind holds what the tables say (Taken).  What such a  *)
(* session writes is the aggregate it holds (RoundTrip), which the         *)
(* operations left whole (OperatingWhole); what another one writes is what *)
(* it changed (CommitAsked).                                               *)
(***************************************************************************)
EXTENDS FixedExpenseStore, TLAPS

Fields == DOMAIN Idle

\* The Settlements of an aggregate or of the table.
Payments(paid) == paid \in [DOMAIN paid -> Settlement]

\* One Settlement has one period, wherever it is held.
Agree(paid, other) ==
    \A id \in DOMAIN paid \cap DOMAIN other : paid[id].period = other[id].period

\* What an open session holds: what it loaded was committed once, and what it
\* added is noted down and nobody's.
Apt(s) ==
    /\ "paid" \in DOMAIN s.now
    /\ Payments(s.seen.paid) /\ Payments(s.now.paid)
    /\ DOMAIN s.seen.paid \subseteq minted
    /\ Added(s) \cap minted = {}
    /\ Added(s) \subseteq s.asked
    /\ Agree(s.now.paid, s.seen.paid)
    /\ Agree(s.seen.paid, children)

Working(r) == session[r].pc = "open"

Apart ==
    \A r, q \in Requests : r # q /\ Working(r) /\ Working(q) =>
        Added(session[r]) \cap Added(session[q]) = {}

IInv ==
    /\ DOMAIN session = Requests
    /\ \A r \in Requests : DOMAIN session[r] = Fields
    /\ Payments(children) /\ DOMAIN children \subseteq minted
    /\ \A r \in Requests : Working(r) => Apt(session[r])
    /\ Apart
    /\ OneSettlementPerPeriod
-----------------------------------------------------------------------------
LEMMA IdleFields ==
    /\ Idle.pc = "idle"
    /\ Fields = {"pc", "columns", "seen", "now", "gone", "behind", "edits", "asked"}
BY DEF Idle, Fields

LEMMA InitInv == Init => IInv
<1> SUFFICES ASSUME Init PROVE IInv
  OBVIOUS
<1>1. \A r \in Requests : session[r] = Idle
  BY DEF Init
<1>2. \A r \in Requests : ~Working(r) /\ DOMAIN session[r] = Fields
  BY <1>1, IdleFields DEF Working, Fields
<1>3. DOMAIN children = {} /\ Payments(children)
  BY DEF Init, NoPayments, Payments
<1> QED  BY <1>2, <1>3 DEF Init, IInv, Apart, OneSettlementPerPeriod
-----------------------------------------------------------------------------
\* One session goes on, and holds no id that another has added; what was
\* committed stands.
LEMMA Stepping ==
    ASSUME IInv, NEW r \in Requests, NEW s, Continue(r, s), DOMAIN s = Fields,
           s.pc = "open" => /\ Apt(s)
                            /\ \A q \in Requests \ {r} : Working(q) =>
                                  Added(s) \cap Added(session[q]) = {}
    PROVE  IInv'
<1>1. /\ children' = children /\ minted' = minted
      /\ session'[r] = s
      /\ \A q \in Requests \ {r} : session'[q] = session[q]
      /\ DOMAIN session' = Requests
  BY DEF Continue, IInv
<1>2. ASSUME NEW q \in Requests, Working(q)' PROVE Apt(session[q])'
  <2>1. PICK x : x = session'[q] /\ x.pc = "open" /\ Apt(x)
    BY <1>1, <1>2 DEF Working, IInv
  <2> QED  BY <1>1, <2>1 DEF Apt, Added, Agree, Payments
<1>3. ASSUME NEW q \in Requests, NEW p \in Requests, q # p, Working(q)', Working(p)'
      PROVE  (Added(session[q]) \cap Added(session[p]) = {})'
  <2>1. PICK x, y : x = session'[q] /\ y = session'[p]
    OBVIOUS
  <2>2. Added(x) \cap Added(y) = {}
    <3>1. CASE q = r
      BY <1>1, <1>3, <2>1, <3>1 DEF Working
    <3>2. CASE p = r
      BY <1>1, <1>3, <2>1, <3>2 DEF Working
    <3>3. CASE q # r /\ p # r
      BY <1>1, <1>3, <2>1, <3>3 DEF Working, IInv, Apart
    <3> QED  BY <3>1, <3>2, <3>3
  <2> QED  BY <2>1, <2>2 DEF Added
<1>4. Apart'
  BY <1>3 DEF Apart
<1>5. OneSettlementPerPeriod' /\ Payments(children)' /\ (DOMAIN children \subseteq minted)'
  BY <1>1 DEF IInv, OneSettlementPerPeriod, Payments
<1>6. \A q \in Requests : DOMAIN session'[q] = Fields
  BY <1>1 DEF IInv
<1> QED  BY <1>1, <1>2, <1>4, <1>5, <1>6 DEF IInv

\* A Unit of Work that ends, or that has the row alone (repositories.py:330-338).
LEMMA EndingInv ==
    ASSUME IInv, NEW r \in Requests, End(r) \/ get(r)
    PROVE  IInv'
<1>1. PICK s : Continue(r, s) /\ DOMAIN s = Fields /\ s.pc # "open"
  <2>1. /\ DOMAIN Done(r) = Fields /\ Done(r).pc = "done"
        /\ \A c : /\ DOMAIN [Idle EXCEPT !.pc = "selectin", !.columns = c] = Fields
                  /\ [Idle EXCEPT !.pc = "selectin", !.columns = c].pc = "selectin"
    BY IdleFields DEF Done, Fields
  <2> QED  BY <2>1 DEF End, get
<1> QED  BY <1>1, Stepping

\* Its Settlements are loaded with a second statement (models.py:143).
LEMMA LoadingInv ==
    ASSUME IInv, NEW r \in Requests, selectin(r)
    PROVE  IInv'
<1> DEFINE loaded == to_domain(session[r].columns, children)
           s == [session[r] EXCEPT !.pc = "open", !.seen = loaded, !.now = loaded]
<1>1. CASE End(r)
  BY <1>1, EndingInv
<1>2. CASE Continue(r, s)
  <2>1. DOMAIN loaded = {"amount", "is_paused", "start", "end", "paid"} /\ loaded.paid = children
    BY DEF to_domain
  <2>2. DOMAIN session[r] = Fields
    BY DEF IInv
  <2> HIDE DEF loaded
  <2>3. DOMAIN s = Fields /\ s.seen = loaded /\ s.now = loaded
    BY <2>2, IdleFields
  <2> HIDE DEF s
  <2>4. Added(s) = {}
    BY <2>1, <2>3 DEF Added
  <2>5. Apt(s)
    BY <2>1, <2>3, <2>4 DEF Apt, Agree, IInv, Payments
  <2> QED  BY <1>2, <2>3, <2>4, <2>5, Stepping
<1> QED  BY <1>1, <1>2 DEF selectin

\* A removal is noted down.
LEMMA RemovingInv ==
    ASSUME IInv, NEW r \in Requests, remove(r)
    PROVE  IInv'
<1> DEFINE s == [session[r] EXCEPT !.gone = TRUE]
<1>1. DOMAIN session[r] = Fields /\ Continue(r, s) /\ Working(r)
  BY DEF IInv, remove, Working
<1>2. DOMAIN s = Fields /\ s.seen = session[r].seen /\ s.now = session[r].now
      /\ s.asked = session[r].asked
  BY <1>1, IdleFields
<1> HIDE DEF s
<1>3. Added(s) = Added(session[r])
  BY <1>2 DEF Added
<1>4. Apt(s)
  BY <1>1, <1>2, <1>3 DEF Apt, IInv
<1>5. \A q \in Requests \ {r} : Working(q) => Added(s) \cap Added(session[q]) = {}
  BY <1>1, <1>3 DEF IInv, Apart
<1> QED  BY <1>1, <1>2, <1>4, <1>5, Stepping

\* An operation of the aggregate records a payment under a fresh id, corrects
\* one's amount, takes one away, or leaves the payments alone.
LEMMA NearPayments ==
    ASSUME NEW a, NEW b \in Near(a), "paid" \in DOMAIN a, Payments(a.paid),
           DOMAIN a.paid \cap Fresh = {}
    PROVE  /\ "paid" \in DOMAIN b
           /\ Payments(b.paid)
           /\ Agree(b.paid, a.paid)
           /\ DOMAIN b.paid \ DOMAIN a.paid \subseteq Fresh
<1> PICK p : p = a.paid
  OBVIOUS
<1>1. CASE b.paid = p /\ "paid" \in DOMAIN b
  BY <1>1 DEF Agree
<1>2. CASE \E id \in Fresh, x \in Settlement : b = [a EXCEPT !.paid = Put(p, id, x)]
  <2>1. PICK id \in Fresh, x \in Settlement : b = [a EXCEPT !.paid = Put(p, id, x)]
    BY <1>2
  <2>2. b.paid = Put(p, id, x) /\ "paid" \in DOMAIN b
    BY <2>1
  <2>3. /\ DOMAIN Put(p, id, x) = DOMAIN p \cup {id}
        /\ \A i \in DOMAIN p \cup {id} : Put(p, id, x)[i] = IF i = id THEN x ELSE p[i]
        /\ Payments(Put(p, id, x))
    BY <2>1 DEF Put, Payments
  <2> QED  BY <2>1, <2>2, <2>3 DEF Agree
<1>3. CASE \E id \in DOMAIN p, m \in Money : b = [a EXCEPT !.paid[id].amount = m]
  <2>1. PICK id \in DOMAIN p, m \in Money : b = [a EXCEPT !.paid[id].amount = m]
    BY <1>3
  <2>2. "paid" \in DOMAIN b /\ b.paid = [p EXCEPT ![id].amount = m]
    BY <2>1
  <2>3. \A i \in DOMAIN p : p[i] \in Settlement
    BY DEF Payments
  <2>4. /\ DOMAIN b.paid = DOMAIN p
        /\ b.paid = [i \in DOMAIN p |-> b.paid[i]]
        /\ \A i \in DOMAIN p \ {id} : b.paid[i] = p[i]
        /\ b.paid[id] = [p[id] EXCEPT !.amount = m]
    BY <2>2, <2>3
  <2>5. b.paid[id] \in Settlement /\ b.paid[id].period = p[id].period
    BY <2>1, <2>3, <2>4 DEF Settlement
  <2>6. \A i \in DOMAIN p : b.paid[i] \in Settlement /\ b.paid[i].period = p[i].period
    BY <2>3, <2>4, <2>5
  <2> QED  BY <2>2, <2>4, <2>6 DEF Payments, Agree
<1>4. CASE \E id \in DOMAIN p : b = [a EXCEPT !.paid = Drop(p, id)]
  <2>1. PICK id \in DOMAIN p : b = [a EXCEPT !.paid = Drop(p, id)]
    BY <1>4
  <2>2. b.paid = Drop(p, id) /\ "paid" \in DOMAIN b
    BY <2>1
  <2>3. /\ DOMAIN Drop(p, id) = DOMAIN p \ {id}
        /\ \A i \in DOMAIN p \ {id} : Drop(p, id)[i] = p[i]
        /\ Payments(Drop(p, id))
    BY <2>1 DEF Drop, Payments
  <2> QED  BY <2>2, <2>3 DEF Agree
<1>5. \/ b.paid = p /\ "paid" \in DOMAIN b
      \/ \E id \in Fresh, x \in Settlement : b = [a EXCEPT !.paid = Put(p, id, x)]
      \/ \E id \in DOMAIN p, m \in Money : b = [a EXCEPT !.paid[id].amount = m]
      \/ \E id \in DOMAIN p : b = [a EXCEPT !.paid = Drop(p, id)]
  BY DEF Near
<1> QED  BY <1>1, <1>2, <1>3, <1>4, <1>5

\* An operation of the aggregate, in memory (fixed_expense.py:293-377).
LEMMA EditingInv ==
    ASSUME IInv, NEW r \in Requests, edit(r)
    PROVE  IInv'
<1> PICK o : o = session[r]
  OBVIOUS
<1>1. PICK a \in Near(o.now) :
         Continue(r, [o EXCEPT !.now = a, !.edits = @ + 1,
                               !.asked = @ \cup Differences(o.now, a)])
  BY DEF edit
<1> PICK s : s = [o EXCEPT !.now = a, !.edits = @ + 1,
                           !.asked = @ \cup Differences(o.now, a)]
  OBVIOUS
<1>2. o.pc = "open" /\ DOMAIN o = Fields /\ Apt(o) /\ Working(r)
  BY DEF edit, IInv, Working
<1>3. /\ DOMAIN s = Fields /\ s.seen = o.seen /\ s.now = a
      /\ s.asked = o.asked \cup Differences(o.now, a)
  BY <1>2, IdleFields
<1>4. DOMAIN o.now.paid \subseteq minted \cup o.asked
  BY <1>2 DEF Apt, Added
<1>5. \A q \in Requests : session[q].asked \cap Fresh = {}
  BY DEF Fresh
<1>6. DOMAIN o.now.paid \cap Fresh = {} /\ minted \cap Fresh = {}
  BY <1>4, <1>5 DEF Fresh
<1>7. /\ "paid" \in DOMAIN a /\ Payments(a.paid) /\ Agree(a.paid, o.now.paid)
      /\ DOMAIN a.paid \ DOMAIN o.now.paid \subseteq Fresh
  BY <1>1, <1>2, <1>6, NearPayments DEF Apt
<1>8. Added(s) \subseteq Added(o) \cup (DOMAIN a.paid \ DOMAIN o.now.paid)
  BY <1>3 DEF Added
<1>9. Added(s) \subseteq s.asked /\ Added(s) \cap minted = {}
  <2>1. DOMAIN a.paid \ DOMAIN o.now.paid \subseteq Differences(o.now, a)
    BY DEF Differences
  <2>2. Added(o) \subseteq o.asked /\ Added(o) \cap minted = {}
    BY <1>2 DEF Apt
  <2> QED  BY <1>3, <1>6, <1>7, <1>8, <2>1, <2>2
<1>10. Agree(s.now.paid, s.seen.paid)
  <2>1. \A id \in DOMAIN a.paid \cap DOMAIN o.seen.paid : id \in DOMAIN o.now.paid
    BY <1>2, <1>6, <1>7 DEF Apt
  <2>2. Agree(o.now.paid, o.seen.paid)
    BY <1>2 DEF Apt
  <2> QED  BY <1>3, <1>7, <2>1, <2>2 DEF Agree
<1>11. Apt(s)
  BY <1>2, <1>3, <1>7, <1>9, <1>10 DEF Apt
<1>12. ASSUME NEW q \in Requests \ {r}, Working(q)
       PROVE  Added(s) \cap Added(session[q]) = {}
  <2>1. Added(o) \cap Added(session[q]) = {}
    BY <1>2, <1>12 DEF IInv, Apart
  <2>2. Added(session[q]) \subseteq session[q].asked
    BY <1>12 DEF IInv, Apt
  <2> QED  BY <1>5, <1>7, <1>8, <2>1, <2>2
<1>13. Continue(r, s)
  BY <1>1
<1> QED  BY <1>3, <1>11, <1>12, <1>13, Stepping
-----------------------------------------------------------------------------
\* The write-back of the Settlements keeps the period of each, and adds what
\* this session added (mappers.py:231-251).
LEMMA Writing ==
    ASSUME NEW s, Apt(s), Payments(children), Corrected(s) \subseteq DOMAIN children
    PROVE  LET after == sync_settlements(s)
           IN /\ Payments(after)
              /\ DOMAIN after \subseteq DOMAIN children \cup Added(s)
              /\ \A id \in DOMAIN after : after[id].period =
                    IF id \in Added(s) THEN s.now.paid[id].period ELSE children[id].period
<1> DEFINE after == sync_settlements(s)
<1>1. /\ DOMAIN after = (DOMAIN children \ Removed(s)) \cup Added(s)
      /\ after = [id \in DOMAIN after |-> after[id]]
      /\ \A id \in DOMAIN after :
            after[id] = IF id \in Added(s) \cup Corrected(s) THEN s.now.paid[id] ELSE children[id]
  BY DEF sync_settlements
<1> HIDE DEF after
<1>2. ASSUME NEW id \in DOMAIN after
      PROVE  /\ after[id] \in Settlement
             /\ after[id].period =
                   IF id \in Added(s) THEN s.now.paid[id].period ELSE children[id].period
  <2>1. CASE id \in Added(s)
    BY <1>1, <2>1 DEF Apt, Payments, Added
  <2>2. CASE id \in Corrected(s) \ Added(s)
    <3>1. id \in DOMAIN s.now.paid \cap DOMAIN s.seen.paid /\ id \in DOMAIN children
      BY <2>2 DEF Corrected
    <3>2. after[id] = s.now.paid[id]
      BY <1>1, <2>2
    <3>3. /\ s.now.paid[id].period = s.seen.paid[id].period
          /\ s.seen.paid[id].period = children[id].period
      BY <3>1 DEF Apt, Agree
    <3> QED  BY <2>2, <3>1, <3>2, <3>3 DEF Apt, Payments
  <2>3. CASE id \notin Added(s) \cup Corrected(s)
    BY <1>1, <2>3 DEF Payments
  <2> QED  BY <2>1, <2>2, <2>3
<1> QED  BY <1>1, <1>2 DEF Payments, after

\* A flush that passes the unique constraint leaves every month paid once: what
\* it inserts meets what is there, and what is there keeps its month.
LEMMA PaidOnce ==
    ASSUME NEW s, Apt(s), Payments(children), OneSettlementPerPeriod, OnePerPeriod(s),
           Corrected(s) \subseteq DOMAIN children,
           NEW after, after = sync_settlements(s),
           NEW i \in DOMAIN after, NEW j \in DOMAIN after, after[i].period = after[j].period
    PROVE  i = j
<1>1. /\ {i, j} \subseteq DOMAIN children \cup Added(s)
      /\ \A id \in {i, j} : after[id].period =
            IF id \in Added(s) THEN s.now.paid[id].period ELSE children[id].period
  BY Writing
<1>2. ASSUME NEW x \in Added(s), NEW y \in {i, j}, x # y, x \in {i, j}
      PROVE  FALSE
  <2>1. s.now.paid[x].period # (IF y \in Added(s) THEN s.now.paid[y] ELSE children[y]).period
    BY <1>1, <1>2 DEF OnePerPeriod
  <2>2. after[x].period = after[y].period
    BY <1>2
  <2> QED  BY <1>1, <1>2, <2>1, <2>2
<1>3. CASE i \notin Added(s) /\ j \notin Added(s)
  BY <1>1, <1>3 DEF OneSettlementPerPeriod
<1> QED  BY <1>2, <1>3

\* The commit of a Unit of Work (unit_of_work.py:44-70).
LEMMA CommittingInv ==
    ASSUME IInv, NEW r \in Requests, commit(r)
    PROVE  IInv'
<1> PICK s : s = session[r]
  OBVIOUS
<1>1. s.pc = "open" /\ Apt(s) /\ Working(r) /\ Payments(children) /\ DOMAIN children \subseteq minted
  BY DEF commit, IInv, Working
<1>2. CASE End(r)
  BY <1>2, EndingInv
<1>3. CASE ~End(r)
  <2>1. /\ DOMAIN session' = Requests
        /\ DOMAIN session'[r] = Fields /\ session'[r].pc = "done"
        /\ \A q \in Requests \ {r} :
              /\ DOMAIN session'[q] = DOMAIN session[q]
              /\ \A f \in Fields \ {"behind"} : session'[q][f] = session[q][f]
    <3>1. session' = [q \in Requests |-> IF q = r THEN Done(r)
                        ELSE [session[q] EXCEPT !.behind = @ \/ (Writes(s) /\ InUse(q))]]
      BY <1>3 DEF commit
    <3>2. DOMAIN Done(r) = Fields /\ Done(r).pc = "done"
      BY IdleFields DEF Done, Fields
    <3>3. \A q \in Requests : DOMAIN session[q] = Fields
      BY DEF IInv
    <3> QED  BY <3>1, <3>2, <3>3, IdleFields
  <2>2. /\ Payments(children') /\ DOMAIN children' \subseteq minted'
        /\ OneSettlementPerPeriod'
        /\ minted' \subseteq minted \cup Added(s) /\ minted \subseteq minted'
        /\ \A id \in DOMAIN children' \ Added(s) : /\ id \in DOMAIN children
                                                   /\ children'[id].period = children[id].period
    <3>1. CASE s.gone
      <4>1. children' = NoPayments /\ minted' = minted
        BY <1>3, <3>1 DEF commit
      <4>2. DOMAIN children' = {} /\ Payments(children')
        BY <4>1 DEF NoPayments, Payments
      <4> QED  BY <4>1, <4>2 DEF OneSettlementPerPeriod
    <3>2. CASE ~s.gone
      <4>1. /\ children' = sync_settlements(s) /\ minted' = minted \cup Added(s)
            /\ OnePerPeriod(s) /\ Corrected(s) \subseteq DOMAIN children
        BY <1>3, <3>2 DEF commit, Finds
      <4>2. PICK after : after = children'
        OBVIOUS
      <4>3. /\ Payments(after) /\ DOMAIN after \subseteq DOMAIN children \cup Added(s)
            /\ \A id \in DOMAIN after : after[id].period =
                  IF id \in Added(s) THEN s.now.paid[id].period ELSE children[id].period
        BY <1>1, <4>1, <4>2, Writing
      <4>4. \A i, j \in DOMAIN after : after[i].period = after[j].period => i = j
        BY <1>1, <4>1, <4>2, PaidOnce DEF IInv
      <4>5. OneSettlementPerPeriod'
        BY <4>2, <4>4 DEF OneSettlementPerPeriod
      <4> QED  BY <1>1, <4>1, <4>2, <4>3, <4>5
    <3> QED  BY <3>1, <3>2
  <2>3. ASSUME NEW q \in Requests, session'[q].pc = "open"
        PROVE  /\ q # r /\ Working(q)
               /\ session'[q].seen = session[q].seen /\ session'[q].now = session[q].now
               /\ session'[q].asked = session[q].asked
    BY <2>1, <2>3, IdleFields DEF Working
  <2>4. ASSUME NEW q \in Requests, Working(q)' PROVE Apt(session[q])'
    <3>1. PICK x, y : x = session'[q] /\ y = session[q]
      OBVIOUS
    <3>2. q # r /\ Apt(y) /\ x.seen = y.seen /\ x.now = y.now /\ x.asked = y.asked
      BY <2>3, <2>4, <3>1 DEF Working, IInv
    <3>3. Added(x) = Added(y)
      BY <3>2 DEF Added
    <3>4. Added(y) \cap Added(s) = {}
      BY <1>1, <2>3, <2>4, <3>1 DEF Working, IInv, Apart
    <3>5. DOMAIN y.seen.paid \subseteq minted /\ Added(s) \cap minted = {}
      BY <1>1, <3>2 DEF Apt
    <3>6. \A id \in DOMAIN y.seen.paid \cap DOMAIN children' :
             y.seen.paid[id].period = children'[id].period
      BY <2>2, <3>2, <3>5 DEF Apt, Agree
    <3>7. Added(y) \cap minted' = {} /\ DOMAIN y.seen.paid \subseteq minted'
      BY <2>2, <3>2, <3>4, <3>5 DEF Apt
    <3>8. /\ "paid" \in DOMAIN x.now /\ Payments(x.seen.paid) /\ Payments(x.now.paid)
          /\ DOMAIN x.seen.paid \subseteq minted' /\ Added(x) \cap minted' = {}
          /\ Added(x) \subseteq x.asked /\ Agree(x.now.paid, x.seen.paid)
          /\ \A id \in DOMAIN x.seen.paid \cap DOMAIN children' :
                x.seen.paid[id].period = children'[id].period
      BY <3>2, <3>3, <3>6, <3>7 DEF Apt
    <3> QED  BY <3>1, <3>8 DEF Apt, Agree, Added, Payments
  <2>5. ASSUME NEW q \in Requests, NEW p \in Requests, q # p, Working(q)', Working(p)'
        PROVE  (Added(session[q]) \cap Added(session[p]) = {})'
    <3>1. Added(session[q]) \cap Added(session[p]) = {}
      BY <2>3, <2>5 DEF Working, IInv, Apart
    <3>2. /\ session'[q].seen = session[q].seen /\ session'[q].now = session[q].now
          /\ session'[p].seen = session[p].seen /\ session'[p].now = session[p].now
      BY <2>3, <2>5 DEF Working
    <3> QED  BY <3>1, <3>2 DEF Added
  <2>6. Apart'
    BY <2>5 DEF Apart
  <2>7. \A q \in Requests : DOMAIN session'[q] = Fields
    BY <2>1 DEF IInv
  <2>8. Payments(children)'
    BY <2>2 DEF Payments
  <2> QED  BY <2>1, <2>2, <2>4, <2>6, <2>7, <2>8 DEF IInv
<1> QED  BY <1>2, <1>3
-----------------------------------------------------------------------------
LEMMA NextInv == IInv /\ [Next]_vars => IInv'
<1> SUFFICES ASSUME IInv, [Next]_vars PROVE IInv'
  OBVIOUS
<1>1. CASE UNCHANGED vars
  BY <1>1 DEF vars, IInv, Apt, Added, Agree, Payments, Apart, Working, OneSettlementPerPeriod
<1>2. ASSUME NEW r \in Requests, get(r) \/ crash(r) PROVE IInv'
  BY <1>2, EndingInv DEF crash
<1>3. ASSUME NEW r \in Requests, selectin(r) \/ edit(r) \/ remove(r) \/ commit(r) PROVE IInv'
  BY <1>3, LoadingInv, EditingInv, RemovingInv, CommittingInv
<1> QED  BY <1>1, <1>2, <1>3 DEF Next

\* However Units of Work on one commitment overlap, a month is paid once: the
\* constraint stops the insert of a second payment, and no correction moves one
\* to another month (models.py:155-159).
THEOREM MonthsPaidOnce == Spec => []OneSettlementPerPeriod
<1>1. IInv => OneSettlementPerPeriod
  BY DEF IInv
<1> QED  BY <1>1, InitInv, NextInv, PTL DEF Spec
-----------------------------------------------------------------------------
Aggregate == {"amount", "is_paused", "start", "end", "paid"}

\* What to_domain, and any operation, makes.
Built(a) == /\ DOMAIN a = Aggregate
            /\ a.amount \in Money /\ a.is_paused \in BOOLEAN
            /\ a.start \in Int /\ a.end \in Int \cup {Open}

\* A session that is not behind has the row as it is.
Taken(s) == /\ s.columns \in Row
            /\ ~s.behind => row # None /\ s.columns = row

\* An open session: what it loaded, and how far it went from there.
Kept(s) == /\ Built(s.seen) /\ Built(s.now)
           /\ s.seen = to_domain(s.columns, s.seen.paid)
           /\ ~s.behind => s.seen.paid = children
           /\ Differences(s.seen, s.now) \subseteq s.asked
           /\ Whole(s.seen) => Whole(s.now)

WInv ==
    /\ IInv
    /\ row # None => row \in Row
    /\ \A r \in Requests : /\ session[r].pc \in {"selectin", "open"} => Taken(session[r])
                           /\ session[r].pc = "open" => Kept(session[r])
    /\ WholeUnlessStale
-----------------------------------------------------------------------------
\* The two columns of a month are its index, and the other way round
\* (period.py:89-99).
LEMMA MonthColumns ==
    /\ \A i \in Int : LET p == C!from_index(Anchor, i)
                      IN /\ p.year \in Int /\ p.month \in MonthNumbers
                         /\ Indexed(p.year, p.month) = i
    /\ \A y \in Int, m \in MonthNumbers :
          LET p == C!from_index(Anchor, Indexed(y, m))
          IN /\ Indexed(y, m) \in Int /\ p.year = y /\ p.month = m
<1> DEFINE n == C!months_per_year(Anchor)
<1>1. n = 13 \/ n = 12
  BY DEF C!months_per_year
<1>2. /\ \A i : C!from_index(Anchor, i).year = i \div n /\ C!from_index(Anchor, i).month = (i % n) + 1
      /\ \A y, m : Indexed(y, m) = y * n + (m - 1)
      /\ MonthNumbers = 1..n
  BY DEF C!from_index, C!index, Indexed, MonthNumbers
<1> HIDE DEF n
<1>3. ASSUME NEW i \in Int
      PROVE  /\ i \div n \in Int /\ (i % n) + 1 \in 1..n
             /\ (i \div n) * n + (((i % n) + 1) - 1) = i
  <2>1. CASE n = 13
    BY <2>1
  <2>2. CASE n = 12
    BY <2>2
  <2> QED BY <1>1, <2>1, <2>2
<1>4. ASSUME NEW y \in Int, NEW m \in 1..n
      PROVE  LET i == y * n + (m - 1)
             IN i \in Int /\ i \div n = y /\ (i % n) + 1 = m
  <2>1. CASE n = 13
    BY <2>1
  <2>2. CASE n = 12
    BY <2>2
  <2> QED BY <1>1, <2>1, <2>2
<1>5. ASSUME NEW i \in Int
      PROVE  LET p == C!from_index(Anchor, i)
             IN p.year \in Int /\ p.month \in MonthNumbers /\ Indexed(p.year, p.month) = i
  <2> DEFINE p == C!from_index(Anchor, i)
  <2>1. p.year = i \div n /\ p.month = (i % n) + 1
    BY <1>2
  <2> HIDE DEF p
  <2>2. Indexed(p.year, p.month) = p.year * n + (p.month - 1)
    BY <1>2
  <2> QED BY <1>2, <1>3, <2>1, <2>2 DEF p
<1>6. ASSUME NEW y \in Int, NEW m \in MonthNumbers
      PROVE  LET p == C!from_index(Anchor, Indexed(y, m))
             IN Indexed(y, m) \in Int /\ p.year = y /\ p.month = m
  <2>1. m \in 1..n /\ Indexed(y, m) = y * n + (m - 1)
    BY <1>2
  <2>2. PICK i : i = Indexed(y, m)
    OBVIOUS
  <2>3. C!from_index(Anchor, i).year = i \div n /\ C!from_index(Anchor, i).month = (i % n) + 1
    BY <1>2
  <2>4. i \in Int /\ i \div n = y /\ (i % n) + 1 = m
    BY <1>4, <2>1, <2>2
  <2> QED BY <2>2, <2>3, <2>4
<1> QED BY <1>5, <1>6

\* What is written to the columns is read from them (mappers.py:166-214).
LEMMA RoundTrip ==
    ASSUME NEW a, Built(a), NEW paid
    PROVE  LET b == to_domain(to_model(a), paid)
           IN /\ to_model(a) \in Row
              /\ DOMAIN b = Aggregate /\ b.paid = paid
              /\ b.amount = a.amount /\ b.is_paused = a.is_paused
              /\ b.start = a.start /\ b.end = a.end
<1>1. /\ Year(a.start) \in Int /\ MonthNumber(a.start) \in MonthNumbers
      /\ Indexed(Year(a.start), MonthNumber(a.start)) = a.start
  BY MonthColumns, MonthAssumption DEF Built, Year, MonthNumber
<1>2. IF a.end = Open THEN Year(a.end) = None /\ MonthNumber(a.end) = None
      ELSE /\ Year(a.end) \in Int /\ MonthNumber(a.end) \in MonthNumbers
           /\ Indexed(Year(a.end), MonthNumber(a.end)) = a.end
  BY MonthColumns DEF Built, Year, MonthNumber
<1>3. None \notin Int /\ MonthNumbers \subseteq Int
  BY MonthAssumption DEF MonthNumbers, C!months_per_year
<1>4. to_model(a) \in Row
  BY <1>1, <1>2 DEF to_model, Row, Built
<1>5. DOMAIN to_domain(to_model(a), paid) = Aggregate /\ to_domain(to_model(a), paid).paid = paid
  BY DEF to_domain, Aggregate
<1>6. LET b == to_domain(to_model(a), paid)
      IN b.amount = a.amount /\ b.is_paused = a.is_paused /\ b.start = a.start /\ b.end = a.end
  BY <1>1, <1>2, <1>3 DEF to_domain, to_model
<1> QED BY <1>4, <1>5, <1>6

\* What is read from the columns is written back as it was, but for an end of
\* which half is missing.
LEMMA WritesWhatItRead ==
    ASSUME NEW c \in Row, NEW paid
    PROVE  LET a == to_domain(c, paid)
           IN /\ Built(a) /\ a.paid = paid
              /\ a.amount = c.amount /\ a.is_paused = c.is_paused
              /\ Year(a.start) = c.start_year /\ MonthNumber(a.start) = c.start_month
              /\ ~Halved(c) => Year(a.end) = c.end_year /\ MonthNumber(a.end) = c.end_month
<1>1. None \notin Int /\ Open \notin Int /\ MonthNumbers \subseteq Int
  BY MonthAssumption DEF MonthNumbers, C!months_per_year
<1>h. ~Halved(c) => (c.end_year = None <=> c.end_month = None)
  BY Zenon DEF Halved
<1>2. /\ c.amount \in Money /\ c.is_paused \in BOOLEAN
      /\ c.start_year \in Int /\ c.start_month \in MonthNumbers
      /\ c.end_year \in Int \cup {None} /\ c.end_month \in MonthNumbers \cup {None}
  BY DEF Row
<1> DEFINE a == to_domain(c, paid)
<1>3. /\ DOMAIN a = Aggregate /\ a.paid = paid /\ a.amount = c.amount /\ a.is_paused = c.is_paused
      /\ a.start = Indexed(c.start_year, c.start_month)
      /\ a.end = IF None \in {c.end_year, c.end_month} THEN Open ELSE Indexed(c.end_year, c.end_month)
  BY DEF to_domain, Aggregate
<1> HIDE DEF a
<1>4. a.start \in Int /\ Year(a.start) = c.start_year /\ MonthNumber(a.start) = c.start_month
  <2>1. /\ a.start \in Int /\ C!from_index(Anchor, a.start).year = c.start_year
        /\ C!from_index(Anchor, a.start).month = c.start_month
    BY <1>2, <1>3, MonthColumns
  <2> QED BY <1>1, <2>1 DEF Year, MonthNumber
<1>5. a.end \in Int \cup {Open}
  <2>1. CASE None \in {c.end_year, c.end_month}
    BY <1>3, <2>1
  <2>2. CASE c.end_year # None /\ c.end_month # None
    BY <1>2, <1>3, <2>2, MonthColumns
  <2> QED BY <2>1, <2>2
<1>6. ~Halved(c) => Year(a.end) = c.end_year /\ MonthNumber(a.end) = c.end_month
  <2> SUFFICES ASSUME ~Halved(c) PROVE Year(a.end) = c.end_year /\ MonthNumber(a.end) = c.end_month
    OBVIOUS
  <2>1. CASE c.end_year = None /\ c.end_month = None
    BY <1>3, <2>1 DEF Year, MonthNumber
  <2>2. CASE c.end_year # None /\ c.end_month # None
    <3>1. /\ a.end \in Int /\ C!from_index(Anchor, a.end).year = c.end_year
          /\ C!from_index(Anchor, a.end).month = c.end_month
      BY <1>2, <1>3, <2>2, MonthColumns
    <3> QED BY <1>1, <3>1 DEF Year, MonthNumber
  <2> QED BY <1>h, <2>1, <2>2
<1>7. Built(a)
  BY <1>2, <1>3, <1>4, <1>5 DEF Built
<1> QED BY <1>3, <1>4, <1>6, <1>7 DEF a
-----------------------------------------------------------------------------
\* An operation of the aggregate leaves it whole (fixed_expense.py:282-422).
LEMMA OperatingWhole ==
    ASSUME NEW r \in Requests, Held(r)!Next,
           Whole(session[r].now), Payments(session[r].now.paid), Built(session[r].now)
    PROVE  Whole(session'[r].now)
<1> DEFINE a == session[r].now
           b == session'[r].now
           was == {a.paid[id] : id \in DOMAIN a.paid}
           is  == {b.paid[id] : id \in DOMAIN b.paid}
           Fits(x, s, e, m) == /\ s <= x.period
                               /\ e # Open => x.period <= e
                               /\ x.amount.currency = m.currency
<1>1. \A asked \in Month : [m \in Month |-> m][asked] = asked
  OBVIOUS
<1>2. /\ a.start \in Int /\ a.end \in Int \cup {Open} /\ Open \notin Int /\ Month \subseteq Int
      /\ a.end # Open => a.start <= a.end
      /\ \A x \in was : x.period \in Int /\ Fits(x, a.start, a.end, a.amount)
  BY MonthAssumption DEF Whole, PeriodRange, Payments, Settlement, Built
<1> SUFFICES /\ b.end # Open => b.start <= b.end
             /\ \A x \in is : Fits(x, b.start, b.end, b.amount)
  BY DEF Whole, PeriodRange
<1> HIDE DEF was, is
<1>3. ASSUME NEW start, NEW end, [start |-> b.start, end |-> b.end] = [start |-> start, end |-> end]
      PROVE  b.start = start /\ b.end = end
  <2>1. /\ [start |-> b.start, end |-> b.end].start = b.start
        /\ [start |-> b.start, end |-> b.end].end = b.end
    OBVIOUS
  <2> QED BY <1>3, <2>1
<1>4. ASSUME NEW asked \in Month, NEW m \in Money, Held(r)!settle(asked, m)
      PROVE  /\ b.start = a.start /\ b.end = a.end /\ b.amount = a.amount
             /\ \A x \in is : x \in was \/ (x.period \in Int /\ Fits(x, a.start, a.end, a.amount))
  <2> DEFINE new == [period |-> asked, amount |-> m]
  <2>1. /\ [start |-> b.start, end |-> b.end] = [start |-> a.start, end |-> a.end]
        /\ b.amount = a.amount /\ is = was \cup {new} /\ m.currency = a.amount.currency
        /\ a.start <= asked /\ (a.end # Open => asked <= a.end)
    BY <1>1, <1>4 DEF Held!settle, Held!is_active_in, Held!in_span, was, is
  <2> QED BY <1>2, <1>3, <2>1
<1>5. ASSUME NEW asked \in Month, NEW m \in Money, Held(r)!correct_settlement(asked, m)
      PROVE  /\ b.start = a.start /\ b.end = a.end /\ b.amount = a.amount
             /\ \A x \in is : x \in was \/ (x.period \in Int /\ Fits(x, a.start, a.end, a.amount))
  <2>1. PICK x \in was :
          /\ [start |-> b.start, end |-> b.end] = [start |-> a.start, end |-> a.end]
          /\ b.amount = a.amount /\ m.currency = x.amount.currency
          /\ is = (was \ {x}) \cup {[x EXCEPT !.amount = m]}
    BY <1>1, <1>5 DEF Held!correct_settlement, Held!settlements_for, was, is
  <2>2. x \in Settlement
    BY DEF was, Payments
  <2>3. [x EXCEPT !.amount = m].period = x.period /\ [x EXCEPT !.amount = m].amount = m
    BY <2>2 DEF Settlement
  <2> QED BY <1>2, <1>3, <2>1, <2>3
<1>6. ASSUME NEW asked \in Month, Held(r)!unsettle(asked)
      PROVE  b.start = a.start /\ b.end = a.end /\ b.amount = a.amount /\ is \subseteq was
  <2>1. /\ [start |-> b.start, end |-> b.end] = [start |-> a.start, end |-> a.end]
        /\ b.amount = a.amount /\ is \subseteq was
    BY <1>6 DEF Held!unsettle, was, is
  <2> QED BY <1>3, <2>1
<1>7. ASSUME NEW m \in Money, Held(r)!change_amount(m)
      PROVE  b.start = a.start /\ b.end = a.end /\ b.amount.currency = a.amount.currency /\ is = was
  <2>1. /\ [start |-> b.start, end |-> b.end] = [start |-> a.start, end |-> a.end]
        /\ b.amount.currency = a.amount.currency /\ is = was
    BY <1>7 DEF Held!change_amount, was, is
  <2> QED BY <1>3, <2>1
<1>8. ASSUME NEW end \in Month \cup {Open}, Held(r)!end_after(end)
      PROVE  /\ b.start = a.start /\ b.end = end /\ b.amount = a.amount /\ is = was
             /\ end \in Month => a.start <= end /\ \A x \in was : x.period <= end
  <2>1. /\ [start |-> b.start, end |-> b.end] = [[start |-> a.start, end |-> a.end] EXCEPT !.end = end]
        /\ b.amount = a.amount /\ is = was
        /\ end \in Month => a.start <= end /\ \A x \in was : x.period <= end
    BY <1>8 DEF Held!end_after, was, is
  <2>2. [[start |-> a.start, end |-> a.end] EXCEPT !.end = end] = [start |-> a.start, end |-> end]
    OBVIOUS
  <2> QED BY <1>3, <2>1, <2>2
<1>9. ASSUME NEW start \in Month, Held(r)!start_from(start)
      PROVE  /\ b.start = start /\ b.end = a.end /\ b.amount = a.amount /\ is = was
             /\ a.end # Open => start <= a.end
             /\ \A x \in was : start <= x.period
  <2>1. /\ [start |-> b.start, end |-> b.end] = [[start |-> a.start, end |-> a.end] EXCEPT !.start = start]
        /\ b.amount = a.amount /\ is = was
        /\ a.end # Open => start <= a.end
        /\ \A x \in was : start <= x.period
    BY <1>9 DEF Held!start_from, was, is
  <2>2. [[start |-> a.start, end |-> a.end] EXCEPT !.start = start] = [start |-> start, end |-> a.end]
    OBVIOUS
  <2> QED BY <1>3, <2>1, <2>2
<1>10. ASSUME Held(r)!pause \/ Held(r)!resume \/ \E d \in {None} : Held(r)!edit_details(d)
       PROVE  b.start = a.start /\ b.end = a.end /\ b.amount = a.amount /\ is = was
  <2>1. /\ [start |-> b.start, end |-> b.end] = [start |-> a.start, end |-> a.end]
        /\ b.amount = a.amount /\ is = was
    BY <1>10 DEF Held!pause, Held!resume, Held!edit_details, was, is
  <2> QED BY <1>3, <2>1
<1>11. \/ \E asked \in Month, m \in Money :
             Held(r)!settle(asked, m) \/ Held(r)!correct_settlement(asked, m)
       \/ \E asked \in Month : Held(r)!unsettle(asked)
       \/ \E m \in Money : Held(r)!change_amount(m)
       \/ \E end \in Month \cup {Open} : Held(r)!end_after(end)
       \/ \E start \in Month : Held(r)!start_from(start)
       \/ Held(r)!pause \/ Held(r)!resume \/ \E d \in {None} : Held(r)!edit_details(d)
  BY DEF Held!Next
<1> HIDE DEF a, b
<1>12. CASE \E asked \in Month, m \in Money :
               Held(r)!settle(asked, m) \/ Held(r)!correct_settlement(asked, m)
  BY <1>2, <1>4, <1>5, <1>12
<1>13. CASE \E asked \in Month : Held(r)!unsettle(asked)
  BY <1>2, <1>6, <1>13
<1>14. CASE \E m \in Money : Held(r)!change_amount(m)
  BY <1>2, <1>7, <1>14
<1>15. CASE \E end \in Month \cup {Open} : Held(r)!end_after(end)
  BY <1>2, <1>8, <1>15
<1>16. CASE \E start \in Month : Held(r)!start_from(start)
  BY <1>2, <1>9, <1>16
<1>17. CASE Held(r)!pause \/ Held(r)!resume \/ \E d \in {None} : Held(r)!edit_details(d)
  BY <1>2, <1>10, <1>17
<1> QED BY <1>11, <1>12, <1>13, <1>14, <1>15, <1>16, <1>17
-----------------------------------------------------------------------------
LEMMA NearBuilt == \A a : Built(a) => \A b \in Near(a) : Built(b)
<1> SUFFICES ASSUME NEW a, Built(a), NEW b \in Near(a) PROVE Built(b)
  OBVIOUS
<1>1. Month \subseteq Int
  BY MonthAssumption
<1>2. \/ \E m \in Month : b = [a EXCEPT !.start = m]
      \/ \E m \in Month \cup {Open} : b = [a EXCEPT !.end = m]
      \/ \E m \in Money : b = [a EXCEPT !.amount = m]
      \/ b = [a EXCEPT !.is_paused = ~a.is_paused]
      \/ \E paid : b = [a EXCEPT !.paid = paid]
  BY DEF Near
<1> QED BY <1>1, <1>2 DEF Built, Aggregate

\* What two steps change, one of them does.
LEMMA Differing ==
    ASSUME NEW a, NEW b, NEW c, DOMAIN a = Aggregate, DOMAIN b = Aggregate
    PROVE  Differences(a, c) \subseteq Differences(a, b) \cup Differences(b, c)
BY DEF Differences

\* Request r goes on with s, which is as well kept as the others are.
LEMMA GoingOnWhole ==
    ASSUME WInv, IInv', NEW r \in Requests, NEW s, Continue(r, s),
           s.pc \in {"selectin", "open"} => Taken(s), s.pc = "open" => Kept(s)
    PROVE  WInv'
<1>1. /\ row' = row /\ children' = children /\ stale' = stale
      /\ session'[r] = s /\ \A q \in Requests \ {r} : session'[q] = session[q]
  BY DEF Continue, WInv, IInv
<1>2. ASSUME NEW q \in Requests
      PROVE  (/\ session[q].pc \in {"selectin", "open"} => Taken(session[q])
              /\ session[q].pc = "open" => Kept(session[q]))'
  <2>1. PICK x : /\ x = session'[q]
                 /\ x.pc \in {"selectin", "open"} => Taken(x)
                 /\ x.pc = "open" => Kept(x)
    BY <1>1 DEF WInv
  <2> QED BY <1>1, <2>1 DEF Taken, Kept
<1>3. WholeUnlessStale'
  BY <1>1 DEF WInv, WholeUnlessStale
<1> QED BY <1>1, <1>2, <1>3 DEF WInv

LEMMA EndingWhole ==
    ASSUME WInv, IInv', NEW r \in Requests, End(r)
    PROVE  WInv'
<1>1. Done(r).pc = "done"
  BY IdleFields DEF Done, Fields
<1> QED BY <1>1, GoingOnWhole DEF End

\* Two SELECTs, and an aggregate (repositories.py:225-236, mappers.py:191-214).
LEMMA LoadingWhole ==
    ASSUME WInv, IInv', NEW r \in Requests, get(r) \/ selectin(r)
    PROVE  WInv'
<1>1. CASE get(r)
  <2> DEFINE s == [Idle EXCEPT !.pc = "selectin", !.columns = row]
  <2>1. s.pc = "selectin" /\ s.columns = row /\ Continue(r, s) /\ row \in Row /\ row # None
    BY <1>1 DEF get, Idle, WInv
  <2> HIDE DEF s
  <2> QED BY <2>1, GoingOnWhole DEF Taken
<1>2. CASE selectin(r)
  <2> DEFINE o == session[r]
             a == to_domain(o.columns, children)
             s == [o EXCEPT !.pc = "open", !.seen = a, !.now = a]
  <2>1. o.pc = "selectin" /\ DOMAIN o = Fields /\ Taken(o)
    BY <1>2 DEF selectin, WInv, IInv
  <2>2. End(r) \/ Continue(r, s)
    BY <1>2 DEF selectin
  <2>3. /\ s.seen = a /\ s.now = a /\ s.columns = o.columns /\ s.behind = o.behind
        /\ s.asked = o.asked
    BY <2>1, IdleFields
  <2>4. Built(a) /\ a.paid = children
    BY <2>1, WritesWhatItRead DEF Taken
  <2>5. a = to_domain(s.columns, a.paid)
    BY <2>3, <2>4
  <2> HIDE DEF a, s
  <2>6. Differences(a, a) = {}
    BY DEF Differences
  <2>7. Taken(s) /\ Kept(s)
    BY <2>1, <2>3, <2>4, <2>5, <2>6 DEF Taken, Kept
  <2> QED BY <2>2, <2>7, GoingOnWhole, EndingWhole
<1> QED BY <1>1, <1>2

LEMMA EditingWhole ==
    ASSUME WInv, IInv', NEW r \in Requests, edit(r)
    PROVE  WInv'
<1> PICK o : o = session[r]
  OBVIOUS
<1>1. PICK a \in Near(o.now) :
         /\ Continue(r, [o EXCEPT !.now = a, !.edits = @ + 1,
                                  !.asked = @ \cup Differences(o.now, a)])
         /\ Held(r)!Next
  BY DEF edit
<1> DEFINE s == [o EXCEPT !.now = a, !.edits = @ + 1, !.asked = @ \cup Differences(o.now, a)]
<1>2. o.pc = "open" /\ DOMAIN o = Fields /\ Taken(o) /\ Kept(o) /\ Apt(o)
  BY DEF edit, WInv, IInv, Working
<1>3. /\ s.seen = o.seen /\ s.now = a /\ s.columns = o.columns /\ s.behind = o.behind
      /\ s.asked = o.asked \cup Differences(o.now, a)
  BY <1>2, IdleFields
<1>4. session'[r] = s
  BY <1>1 DEF Continue, WInv, IInv
<1> HIDE DEF s
<1>5. Built(a)
  BY <1>1, <1>2, NearBuilt DEF Kept
<1>6. Whole(o.now) => Whole(a)
  BY <1>1, <1>2, <1>3, <1>4, OperatingWhole DEF Apt, Kept
<1>7. Differences(o.seen, a) \subseteq Differences(o.seen, o.now) \cup Differences(o.now, a)
  BY <1>2, Differing DEF Kept, Built
<1>8. Taken(s) /\ Kept(s)
  BY <1>2, <1>3, <1>5, <1>6, <1>7 DEF Taken, Kept
<1>9. Continue(r, s)
  BY <1>1 DEF s
<1> QED BY <1>8, <1>9, GoingOnWhole

LEMMA RemovingWhole ==
    ASSUME WInv, IInv', NEW r \in Requests, remove(r)
    PROVE  WInv'
<1> DEFINE o == session[r]
           s == [o EXCEPT !.gone = TRUE]
<1>1. o.pc = "open" /\ DOMAIN o = Fields /\ Taken(o) /\ Kept(o) /\ Continue(r, s)
  BY DEF remove, WInv, IInv
<1>2. /\ s.seen = o.seen /\ s.now = o.now /\ s.columns = o.columns /\ s.behind = o.behind
      /\ s.asked = o.asked
  BY <1>1, IdleFields
<1> HIDE DEF s
<1>3. Taken(s) /\ Kept(s)
  BY <1>1, <1>2 DEF Taken, Kept
<1> QED BY <1>1, <1>3, GoingOnWhole
-----------------------------------------------------------------------------
\* A flush that writes nothing leaves everything.
LEMMA NothingWritten ==
    ASSUME NEW s, ~Writes(s), row \in Row, Payments(children)
    PROVE  update_model(s) = row /\ sync_settlements(s) = children
<1>1. Changed(s) = {} /\ Added(s) = {} /\ Removed(s) = {} /\ Corrected(s) = {}
  BY DEF Writes
<1>2. update_model(s) = [c \in Columns |-> row[c]]
  BY <1>1 DEF update_model
<1>3. row = [c \in Columns |-> row[c]]
  BY DEF Row, Columns
<1>4. sync_settlements(s) = [id \in DOMAIN children |-> children[id]]
  BY <1>1 DEF sync_settlements
<1> QED BY <1>2, <1>3, <1>4 DEF Payments

\* What is in the columns stays a row (mappers.py:216-229).
LEMMA StaysARow ==
    ASSUME NEW s, Built(s.now), row \in Row
    PROVE  update_model(s) \in Row /\ update_model(s) # None
<1> PICK m : m = to_model(s.now) /\ m \in Row
  BY RoundTrip
<1>1. update_model(s) = [c \in Columns |-> IF c \in Changed(s) THEN m[c] ELSE row[c]]
  BY DEF update_model
<1>2. update_model(s) \in Row
  BY <1>1 DEF Row, Columns
<1> QED BY <1>2, NoneAssumption

\* A session that is not behind leaves what it holds.
LEMMA WritesWhatItHolds ==
    ASSUME NEW s, Kept(s), Taken(s), Apt(s), ~s.behind, Payments(children)
    PROVE  update_model(s) = to_model(s.now) /\ sync_settlements(s) = s.now.paid
<1>1. row = s.columns /\ children = s.seen.paid /\ row \in Row
  BY DEF Kept, Taken
<1> PICK m : m = to_model(s.now) /\ m \in Row
  BY RoundTrip DEF Kept
<1>2. update_model(s) = m
  <2>1. /\ update_model(s) = [c \in Columns |-> IF c \in Changed(s) THEN m[c] ELSE row[c]]
        /\ Changed(s) = {c \in Columns : m[c] # row[c]}
    BY <1>1 DEF update_model, Changed
  <2>2. update_model(s) = [c \in Columns |-> m[c]]
    BY <2>1
  <2>3. m = [c \in Columns |-> m[c]]
    BY DEF Row, Columns
  <2> QED BY <2>2, <2>3
<1>3. sync_settlements(s) = s.now.paid
  <2> PICK now, seen : now = s.now.paid /\ seen = s.seen.paid
    OBVIOUS
  <2>1. /\ Added(s) = DOMAIN now \ DOMAIN seen /\ Removed(s) = DOMAIN seen \ DOMAIN now
        /\ Corrected(s) = {id \in DOMAIN now \cap DOMAIN seen : now[id] # seen[id]}
    BY DEF Added, Removed, Corrected
  <2>2. sync_settlements(s) =
           [id \in (DOMAIN seen \ Removed(s)) \cup Added(s) |->
               IF id \in Added(s) \cup Corrected(s) THEN now[id] ELSE seen[id]]
    BY <1>1 DEF sync_settlements
  <2>3. (DOMAIN seen \ Removed(s)) \cup Added(s) = DOMAIN now
    BY <2>1
  <2>4. sync_settlements(s) = [id \in DOMAIN now |-> now[id]]
    BY <2>1, <2>2, <2>3
  <2> QED BY <2>4 DEF Apt, Payments
<1> QED BY <1>2, <1>3

LEMMA CommittingWhole ==
    ASSUME WInv, IInv', NEW r \in Requests, commit(r)
    PROVE  WInv'
<1> PICK s : s = session[r]
  OBVIOUS
<1>1. s.pc = "open" /\ Kept(s) /\ Taken(s) /\ Apt(s) /\ Payments(children)
  BY DEF commit, WInv, IInv, Working
<1>2. CASE End(r)
  BY <1>2, EndingWhole
<1>3. CASE ~End(r)
  <2>1. /\ row' = IF s.gone \/ row = None THEN None ELSE update_model(s)
        /\ children' = IF s.gone THEN NoPayments ELSE sync_settlements(s)
        /\ stale' = (stale \/ (s.behind /\ Writes(s)))
        /\ session' = [q \in Requests |->
                          IF q = r THEN Done(r)
                          ELSE [session[q] EXCEPT !.behind = @ \/ (Writes(s) /\ InUse(q))]]
        /\ s.gone \/ Finds(s)
    BY <1>3 DEF commit
  <2>2. s.gone => Writes(s)
    BY DEF Writes
  <2>3. row # None => row \in Row
    BY DEF WInv
  <2>4. row' # None => row' \in Row
    BY <1>1, <2>1, <2>3, StaysARow DEF Kept
  <2>5. ~Writes(s) /\ row # None => row' = row /\ children' = children
    BY <1>1, <2>1, <2>2, <2>3, NothingWritten
  <2>6. ASSUME NEW q \in Requests
        PROVE  (/\ session[q].pc \in {"selectin", "open"} => Taken(session[q])
                /\ session[q].pc = "open" => Kept(session[q]))'
    <3> PICK x, y : x = session'[q] /\ y = session[q]
      OBVIOUS
    <3>1. CASE q = r
      <4>1. x.pc = "done"
        BY <2>1, <3>1, IdleFields DEF Done, Fields
      <4> QED BY <4>1
    <3>2. CASE q # r /\ x.pc \in {"selectin", "open"}
      <4>1. x = [y EXCEPT !.behind = @ \/ (Writes(s) /\ InUse(q))] /\ DOMAIN y = Fields
        BY <2>1, <3>2 DEF WInv, IInv
      <4>2. /\ x.pc = y.pc /\ x.columns = y.columns /\ x.seen = y.seen /\ x.now = y.now
            /\ x.asked = y.asked /\ x.behind = (y.behind \/ (Writes(s) /\ InUse(q)))
        BY <4>1, IdleFields
      <4>3. InUse(q) /\ Taken(y) /\ (y.pc = "open" => Kept(y))
        BY <3>2, <4>2 DEF InUse, WInv
      <4>4. ~x.behind => ~y.behind /\ row # None /\ row' = row /\ children' = children
        BY <2>5, <4>2, <4>3 DEF Taken
      <4>5. /\ x.columns \in Row
            /\ ~x.behind => row' # None /\ x.columns = row'
        BY <4>2, <4>3, <4>4 DEF Taken
      <4>6. x.pc = "open" => /\ Built(x.seen) /\ Built(x.now)
                             /\ x.seen = to_domain(x.columns, x.seen.paid)
                             /\ ~x.behind => x.seen.paid = children'
                             /\ Differences(x.seen, x.now) \subseteq x.asked
                             /\ Whole(x.seen) => Whole(x.now)
        BY <4>2, <4>3, <4>4 DEF Kept
      <4> QED BY <4>5, <4>6 DEF Taken, Kept
    <3>3. CASE x.pc \notin {"selectin", "open"}
      BY <3>3
    <3> QED BY <3>1, <3>2, <3>3
  <2>7. CASE s.gone
    <3>1. row' = None /\ children' = NoPayments
      BY <2>1, <2>7
    <3> QED BY <2>4, <2>6, <3>1 DEF WInv, WholeUnlessStale
  <2>8. CASE ~s.gone /\ row = None
    <3>1. children = NoPayments /\ DOMAIN children = {}
      BY <2>8 DEF WInv, WholeUnlessStale, NoPayments
    <3>2. Added(s) = {} /\ Corrected(s) = {}
      BY <2>1, <2>8, <3>1 DEF Finds
    <3>3. (DOMAIN children \ Removed(s)) \cup Added(s) = {}
      BY <3>1, <3>2
    <3>4. children' = NoPayments /\ row' = None
      BY <2>1, <2>8, <3>3 DEF sync_settlements, NoPayments
    <3> QED BY <2>6, <3>4 DEF WInv, WholeUnlessStale
  <2>9. CASE ~s.gone /\ row # None
    <3>1. row' = update_model(s) /\ children' = sync_settlements(s) /\ row' # None
      BY <1>1, <2>1, <2>3, <2>9, StaysARow DEF Kept
    <3>2. ASSUME ~stale' PROVE Whole(to_domain(row', children'))
      <4>1. ~stale /\ (~s.behind \/ ~Writes(s))
        BY <2>1, <3>2
      <4>2. Whole(to_domain(row, children))
        BY <2>9, <4>1 DEF WInv, WholeUnlessStale
      <4>3. CASE ~Writes(s)
        BY <2>5, <2>9, <4>2, <4>3
      <4>4. CASE ~s.behind
        <5>1. row = s.columns /\ s.seen = to_domain(row, children)
          BY <1>1, <4>4 DEF Kept, Taken
        <5>2. Whole(s.now)
          BY <1>1, <4>2, <5>1 DEF Kept
        <5>3. row' = to_model(s.now) /\ children' = s.now.paid
          BY <1>1, <3>1, <4>4, WritesWhatItHolds
        <5>4. LET b == to_domain(to_model(s.now), s.now.paid)
              IN b.amount = s.now.amount /\ b.start = s.now.start /\ b.end = s.now.end
                 /\ b.paid = s.now.paid
          BY <1>1, RoundTrip DEF Kept
        <5> QED BY <5>2, <5>3, <5>4 DEF Whole, PeriodRange
      <4> QED BY <4>1, <4>3, <4>4
    <3>3. WholeUnlessStale'
      BY <3>1, <3>2 DEF WholeUnlessStale, to_domain, Whole, PeriodRange, Indexed
    <3> QED BY <2>4, <2>6, <3>3 DEF WInv
  <2> QED BY <2>7, <2>8, <2>9
<1> QED BY <1>2, <1>3

LEMMA WInvStep == WInv /\ [Next]_vars => WInv'
<1> SUFFICES ASSUME WInv, [Next]_vars PROVE WInv'
  OBVIOUS
<1>1. IInv'
  BY NextInv DEF WInv
<1>2. CASE UNCHANGED vars
  <2>1. ASSUME NEW q \in Requests
        PROVE  (/\ session[q].pc \in {"selectin", "open"} => Taken(session[q])
                /\ session[q].pc = "open" => Kept(session[q]))'
    BY <1>2 DEF vars, WInv, Taken, Kept
  <2> QED BY <1>1, <1>2, <2>1 DEF vars, WInv, WholeUnlessStale
<1>3. ASSUME NEW r \in Requests,
             get(r) \/ selectin(r) \/ edit(r) \/ remove(r) \/ commit(r) \/ crash(r)
      PROVE  WInv'
  BY <1>1, <1>3, LoadingWhole, EditingWhole, RemovingWhole, CommittingWhole, EndingWhole DEF crash
<1> QED BY <1>2, <1>3 DEF Next

LEMMA WInvInit == Init => WInv
<1> SUFFICES ASSUME Init PROVE WInv
  OBVIOUS
<1>1. PICK a \in Scheduled : PeriodRange(a) /\ row = to_model(a)
  BY DEF Init
<1>2. Built(a) /\ a.paid = NoPayments
  <2>1. /\ DOMAIN a = Aggregate /\ a.amount \in Money /\ a.is_paused \in {FALSE}
        /\ a.start \in Month /\ a.end \in Month \cup {Open} /\ a.paid \in {NoPayments}
    BY <1>1 DEF Scheduled, Aggregate
  <2>2. Month \subseteq Int
    BY MonthAssumption
  <2> QED BY <2>1, <2>2 DEF Built
<1>3. row \in Row /\ row # None
  BY <1>1, <1>2, RoundTrip, NoneAssumption
<1>4. Whole(to_domain(row, children))
  <2>1. LET b == to_domain(row, children)
        IN b.start = a.start /\ b.end = a.end /\ b.paid = NoPayments
    BY <1>1, <1>2, RoundTrip DEF Init
  <2> QED BY <1>1, <2>1 DEF Whole, PeriodRange, NoPayments
<1>5. \A r \in Requests : session[r].pc = "idle"
  BY IdleFields DEF Init
<1> QED BY <1>3, <1>4, <1>5, InitInv DEF WInv, WholeUnlessStale

\* Units of Work that do not overlap leave a commitment the aggregate accepts,
\* and no payment outlives it, however they overlap (period_range.py:30-48,
\* fixed_expense.py:378-379, models.py:138-144).
THEOREM StaysWhole == Spec => []WholeUnlessStale
<1>1. WInv => WholeUnlessStale
  BY DEF WInv
<1> QED BY <1>1, WInvInit, WInvStep, PTL DEF Spec
-----------------------------------------------------------------------------
\* Two aggregates differ in what one of their parts differs in.
LEMMA DifferingParts ==
    ASSUME NEW a, NEW b, DOMAIN a = Aggregate, NEW S,
           \A f \in {"amount", "is_paused", "start", "end"} : a[f] # b[f] => f \in S,
           DOMAIN a.paid \ DOMAIN b.paid \subseteq S, DOMAIN b.paid \ DOMAIN a.paid \subseteq S,
           \A id \in DOMAIN a.paid \cap DOMAIN b.paid : a.paid[id] # b.paid[id] => id \in S
    PROVE  Differences(a, b) \subseteq S
BY DEF Differences, Aggregate

\* What a commit leaves differs from what was there in what the session changed.
LEMMA CommitAsked ==
    ASSUME WInv, NEW r \in Requests, commit(r), ~End(r), row # None, row' # None
    PROVE  Differences(to_domain(row, children), to_domain(row', children'))
              \subseteq session[r].asked
                         \cup (IF Halved(session[r].columns) THEN {"end"} ELSE {})
<1> PICK s : s = session[r]
  OBVIOUS
<1> PICK m : m = to_model(s.now)
  OBVIOUS
<1> DEFINE a == to_domain(row, children)
           b == to_domain(row', children')
<1>1. s.pc = "open" /\ Kept(s) /\ Taken(s) /\ Apt(s) /\ row \in Row
  BY DEF commit, WInv, IInv, Working
<1>2. ~s.gone /\ row' = update_model(s) /\ children' = sync_settlements(s)
  BY DEF commit
<1>3. /\ Built(s.seen) /\ Built(s.now) /\ s.seen = to_domain(s.columns, s.seen.paid)
      /\ s.columns \in Row /\ Differences(s.seen, s.now) \subseteq s.asked
  BY <1>1 DEF Kept, Taken
<1>4. \A c \in Columns : row'[c] # row[c] => m[c] # s.columns[c]
  BY <1>2 DEF update_model, Changed
<1>5. /\ s.seen.amount = s.columns.amount /\ s.seen.is_paused = s.columns.is_paused
      /\ Year(s.seen.start) = s.columns.start_year
      /\ MonthNumber(s.seen.start) = s.columns.start_month
      /\ ~Halved(s.columns) => /\ Year(s.seen.end) = s.columns.end_year
                               /\ MonthNumber(s.seen.end) = s.columns.end_month
  <2> PICK seen : seen = s.seen
    OBVIOUS
  <2>1. seen = to_domain(s.columns, seen.paid)
    BY <1>3
  <2> QED BY <1>3, <2>1, WritesWhatItRead
<1>6. /\ m.amount = s.now.amount /\ m.is_paused = s.now.is_paused
      /\ m.start_year = Year(s.now.start) /\ m.start_month = MonthNumber(s.now.start)
      /\ m.end_year = Year(s.now.end) /\ m.end_month = MonthNumber(s.now.end)
  BY DEF to_model
<1>7. \A f \in {"amount", "is_paused", "start", "end"} :
         s.seen[f] # s.now[f] => f \in s.asked
  BY <1>3 DEF Differences, Built, Aggregate
<1>8. /\ DOMAIN a = Aggregate /\ a.paid = children /\ b.paid = children'
      /\ a.amount = row.amount /\ b.amount = row'.amount
      /\ a.is_paused = row.is_paused /\ b.is_paused = row'.is_paused
      /\ (row.start_year = row'.start_year /\ row.start_month = row'.start_month) => a.start = b.start
      /\ (row.end_year = row'.end_year /\ row.end_month = row'.end_month) => a.end = b.end
  BY DEF to_domain, Aggregate
<1> HIDE DEF a, b
<1>9. /\ a.amount # b.amount => "amount" \in s.asked
      /\ a.is_paused # b.is_paused => "is_paused" \in s.asked
      /\ a.start # b.start => "start" \in s.asked
  BY <1>4, <1>5, <1>6, <1>7, <1>8 DEF Columns
<1>10. a.end # b.end => "end" \in s.asked \/ Halved(s.columns)
  BY <1>4, <1>5, <1>6, <1>7, <1>8 DEF Columns
<1>11. /\ DOMAIN children' = (DOMAIN children \ Removed(s)) \cup Added(s)
       /\ \A id \in DOMAIN children' :
             children'[id] # children[id] => id \in Added(s) \cup Corrected(s)
  BY <1>2 DEF sync_settlements
<1>12. Added(s) \cup Removed(s) \cup Corrected(s) \subseteq s.asked
  BY <1>3 DEF Added, Removed, Corrected, Differences
<1> DEFINE S == s.asked \cup (IF Halved(s.columns) THEN {"end"} ELSE {})
<1>13. \A f \in {"amount", "is_paused", "start", "end"} : a[f] # b[f] => f \in S
  BY <1>9, <1>10
<1>14. /\ DOMAIN a.paid \ DOMAIN b.paid \subseteq S /\ DOMAIN b.paid \ DOMAIN a.paid \subseteq S
       /\ \A id \in DOMAIN a.paid \cap DOMAIN b.paid : a.paid[id] # b.paid[id] => id \in S
  BY <1>8, <1>11, <1>12
<1> HIDE DEF S
<1>15. Differences(a, b) \subseteq S
  BY <1>8, <1>13, <1>14, DifferingParts
<1> QED BY <1>15 DEF a, b, S

\* A Unit of Work is done when it commits, or when it ends without.
LEMMA DoneBy ==
    ASSUME WInv, [Next]_vars, NEW r \in Requests,
           session[r].pc = "open", session'[r].pc = "done"
    PROVE  End(r) \/ commit(r)
<1>1. /\ DOMAIN session = Requests /\ \A q \in Requests : DOMAIN session[q] = Fields
  BY DEF WInv, IInv
<1>2. ASSUME NEW q \in Requests, NEW s, Continue(q, s), s.pc # "done" \/ q # r PROVE FALSE
  BY <1>1, <1>2 DEF Continue
<1>3. ~UNCHANGED vars
  BY DEF vars
<1>4. PICK q \in Requests :
         get(q) \/ selectin(q) \/ edit(q) \/ remove(q) \/ commit(q) \/ crash(q)
  BY <1>3 DEF Next
<1>5. End(q) => q = r
  BY <1>2 DEF End
<1>6. CASE get(q)
  BY <1>2, <1>6 DEF get, Idle
<1>7. CASE selectin(q)
  <2>1. [session[q] EXCEPT !.pc = "open", !.seen = to_domain(session[q].columns, children),
                           !.now = to_domain(session[q].columns, children)].pc = "open"
    BY <1>1, IdleFields
  <2> QED BY <1>2, <1>5, <1>7, <2>1 DEF selectin
<1>8. CASE edit(q)
  <2>1. PICK x : /\ Continue(q, x) /\ x.pc = "open"
    <3>1. PICK a : Continue(q, [session[q] EXCEPT !.now = a, !.edits = @ + 1,
                                   !.asked = @ \cup Differences(session[q].now, a)])
      BY <1>8 DEF edit
    <3> DEFINE x == [session[q] EXCEPT !.now = a, !.edits = @ + 1,
                                       !.asked = @ \cup Differences(session[q].now, a)]
    <3>2. x.pc = session[q].pc
      BY <1>1, IdleFields
    <3> QED BY <1>8, <3>1, <3>2 DEF edit
  <2> QED BY <1>2, <2>1
<1>9. CASE remove(q)
  <2>1. [session[q] EXCEPT !.gone = TRUE].pc = "open"
    BY <1>1, <1>9, IdleFields DEF remove
  <2> QED BY <1>2, <1>9, <2>1 DEF remove
<1>10. CASE commit(q)
  <2>1. CASE q # r /\ ~End(q)
    <3>1. session'[r] = [session[r] EXCEPT !.behind = @ \/ (Writes(session[q]) /\ InUse(r))]
      BY <1>10, <2>1 DEF commit
    <3>2. session'[r].pc = session[r].pc
      BY <1>1, <3>1, IdleFields
    <3> QED BY <3>2
  <2> QED BY <1>5, <1>10, <2>1
<1>11. CASE crash(q)
  BY <1>5, <1>11 DEF crash
<1> QED BY <1>4, <1>6, <1>7, <1>8, <1>9, <1>10, <1>11

\* A commit changes of the commitment and of its payments only what its own
\* operations changed, and takes no payment away that another Unit of Work
\* recorded meanwhile (mappers.py:231-251).
THEOREM ChangesWhatWasAsked == Spec => OnlyWhatWasAsked
<1>1. WInv /\ [Next]_vars
      => [\A r \in Requests :
             /\ row # None /\ row' # None
             /\ session[r].pc = "open" /\ session'[r].pc = "done"
             => Differences(to_domain(row, children), to_domain(row, children)')
                  \subseteq session[r].asked
                             \cup (IF Halved(session[r].columns) THEN {"end"} ELSE {})]_vars
  <2> SUFFICES ASSUME WInv, [Next]_vars, NEW r \in Requests, row # None, row' # None,
                      session[r].pc = "open", session'[r].pc = "done"
               PROVE  Differences(to_domain(row, children), to_domain(row, children)')
                        \subseteq session[r].asked
                                   \cup (IF Halved(session[r].columns) THEN {"end"} ELSE {})
    OBVIOUS
  <2>1. to_domain(row, children)' = to_domain(row', children')
    BY DEF to_domain, Indexed
  <2>2. CASE End(r)
    <3>1. row' = row /\ children' = children
      BY <2>2 DEF End, Continue
    <3>2. \A a : Differences(a, a) = {}
      BY DEF Differences
    <3> QED BY <2>1, <3>1, <3>2
  <2>3. CASE ~End(r) /\ commit(r)
    BY <2>1, <2>3, CommitAsked
  <2> QED BY <2>2, <2>3, DoneBy
<1> QED BY <1>1, WInvInit, WInvStep, PTL DEF Spec, OnlyWhatWasAsked
=============================================================================
