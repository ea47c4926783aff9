------------------------ MODULE UnitSeedingTheorems ------------------------
(***************************************************************************)
(* What holds of the table of units for any number of processes, requests, *)
(* codes and default units.                                                *)
(***************************************************************************)
EXTENDS UnitSeeding, TLAPS

Rows == [code : Codes, is_system : BOOLEAN]

SessionShape == [pc : {"idle", "count", "add_all", "find_by_code", "add", "commit"},
                 host : Processes \cup {None}, typed : Typed \cup {None},
                 added : Seq(Rows)]

\* The first defaults of the list, one after the other.
Prefix(rows) == /\ Len(rows) <= Len(Defaults)
                /\ \A i \in 1..Len(rows) : rows[i] = DefaultUnit(i)

\* What a session holds: a seeding, the defaults it has got to; a request, at
\* most one unit of its own.
Shapes ==
    /\ units \in Seq(Rows)
    /\ process \in [Processes -> {"down", "starting", "serving", "warned"}]
    /\ session \in [Sessions -> SessionShape]
    /\ \A p \in Processes : Prefix(session[p].added)
    /\ \A r \in Requests : /\ \A i \in DOMAIN session[r].added : ~session[r].added[i].is_system
                           /\ Len(session[r].added) <= 1
                           /\ session[r].pc \in {"find_by_code", "add"} => session[r].typed \in Typed
                           /\ session[r].pc \in {"find_by_code", "add"} => session[r].added = <<>>

\* No code is flushed twice, nor flushed and committed.
Apart ==
    /\ \A x, y \in Sessions : x # y =>
          CodesIn(session[x].added) \cap CodesIn(session[y].added) = {}
    /\ \A x \in Sessions : CodesIn(session[x].added) \cap CodesIn(units) = {}

IInv == Shapes /\ Apart /\ OneUnitPerCode /\ SystemUnitsTogether /\ SeededUnlessExtended
-----------------------------------------------------------------------------
(* Two sequences of units, one after the other.                            *)

SystemIn(rows) == {rows[i].code : i \in {j \in DOMAIN rows : rows[j].is_system}}

\* Every unit of a table a commit leaves was in the table or was flushed, and
\* the other way round.
LEMMA Joined ==
    ASSUME NEW a \in Seq(Rows), NEW b \in Seq(Rows)
    PROVE  /\ a \o b \in Seq(Rows)
           /\ \A i \in DOMAIN (a \o b) :
                 \/ i \in DOMAIN a /\ (a \o b)[i] = a[i]
                 \/ i - Len(a) \in DOMAIN b /\ (a \o b)[i] = b[i - Len(a)]
           /\ \A i \in DOMAIN a : i \in DOMAIN (a \o b) /\ (a \o b)[i] = a[i]
           /\ \A j \in DOMAIN b : Len(a) + j \in DOMAIN (a \o b) /\ (a \o b)[Len(a) + j] = b[j]
  OBVIOUS

\* The codes of both are the codes of the two, and so are the system codes.
LEMMA CodesJoined ==
    ASSUME NEW a \in Seq(Rows), NEW b \in Seq(Rows)
    PROVE  /\ CodesIn(a \o b) = CodesIn(a) \cup CodesIn(b)
           /\ SystemIn(a \o b) = SystemIn(a) \cup SystemIn(b)
<1> SUFFICES ASSUME NEW c, c = a \o b
             PROVE  /\ CodesIn(c) = CodesIn(a) \cup CodesIn(b)
                    /\ SystemIn(c) = SystemIn(a) \cup SystemIn(b)
  OBVIOUS
<1>1. \A i \in DOMAIN c : \/ i \in DOMAIN a /\ c[i] = a[i]
                          \/ i - Len(a) \in DOMAIN b /\ c[i] = b[i - Len(a)]
  BY Joined
<1>2. /\ \A i \in DOMAIN a : i \in DOMAIN c /\ c[i] = a[i]
      /\ \A j \in DOMAIN b : Len(a) + j \in DOMAIN c /\ c[Len(a) + j] = b[j]
  BY Joined
<1>3. CodesIn(c) = CodesIn(a) \cup CodesIn(b)
  <2>1. ASSUME NEW code \in CodesIn(c) PROVE code \in CodesIn(a) \cup CodesIn(b)
    BY <1>1, <2>1, Zenon DEF CodesIn
  <2>2. ASSUME NEW code \in CodesIn(a) PROVE code \in CodesIn(c)
    BY <1>2, <2>2, Zenon DEF CodesIn
  <2>3. ASSUME NEW code \in CodesIn(b) PROVE code \in CodesIn(c)
    BY <1>2, <2>3, Zenon DEF CodesIn
  <2> QED  BY <2>1, <2>2, <2>3
<1>4. SystemIn(c) = SystemIn(a) \cup SystemIn(b)
  <2>1. ASSUME NEW code \in SystemIn(c) PROVE code \in SystemIn(a) \cup SystemIn(b)
    BY <1>1, <2>1, Zenon DEF SystemIn
  <2>2. ASSUME NEW code \in SystemIn(a) PROVE code \in SystemIn(c)
    BY <1>2, <2>2, Zenon DEF SystemIn
  <2>3. ASSUME NEW code \in SystemIn(b) PROVE code \in SystemIn(c)
    BY <1>2, <2>3, Zenon DEF SystemIn
  <2> QED  BY <2>1, <2>2, <2>3
<1> QED  BY <1>3, <1>4

\* The codes of a list with one more unit at its end.
LEMMA CodesAppended ==
    ASSUME NEW a \in Seq(Rows), NEW row \in Rows
    PROVE  /\ Append(a, row) \in Seq(Rows)
           /\ CodesIn(Append(a, row)) = CodesIn(a) \cup {row.code}
<1>1. Append(a, row) = a \o <<row>> /\ <<row>> \in Seq(Rows)
  OBVIOUS
<1>2. CodesIn(<<row>>) = {row.code}
  BY DEF CodesIn
<1> QED  BY <1>1, <1>2, Joined, CodesJoined
-----------------------------------------------------------------------------
(* What the steps do to the codes that are flushed.                        *)

\* A session that keeps or gives up what it flushed takes no code.
LEMMA Unflushed ==
    ASSUME Apart, units' = units,
           \A x \in Sessions : session'[x].added \in {session[x].added, <<>>}
    PROVE  Apart'
<1>1. CodesIn(<<>>) = {}
  BY DEF CodesIn
<1>2. \A x \in Sessions : CodesIn(session'[x].added) \subseteq CodesIn(session[x].added)
  BY <1>1
<1> QED  BY <1>2, Zenon DEF Apart

\* A row goes in only where no row has its code (models.py:184).
LEMMA Flushed ==
    ASSUME Apart, units' = units, NEW x \in Sessions, NEW row \in Rows,
           session[x].added \in Seq(Rows),
           ~CodeTaken(x, row.code), ~CodeHeld(x, row.code),
           session'[x].added = Append(session[x].added, row),
           \A y \in Sessions \ {x} : session'[y] = session[y]
    PROVE  Apart'
<1>1. CodesIn(session'[x].added) = CodesIn(session[x].added) \cup {row.code}
  BY CodesAppended
<1>2. \A y \in Sessions \ {x} : row.code \notin CodesIn(session[y].added)
  BY DEF CodeHeld
<1>3. row.code \notin CodesIn(units)
  BY DEF CodeTaken
<1>4. CodesIn(session'[x].added) \cap CodesIn(units) = {}
  BY <1>1, <1>3 DEF Apart
<1>5. \A y \in Sessions \ {x} :
         CodesIn(session'[x].added) \cap CodesIn(session'[y].added) = {}
  BY <1>1, <1>2 DEF Apart
<1>6. ASSUME NEW y \in Sessions PROVE CodesIn(session'[y].added) \cap CodesIn(units') = {}
  BY <1>4 DEF Apart
<1>7. ASSUME NEW y \in Sessions, NEW z \in Sessions, y # z
      PROVE  CodesIn(session'[y].added) \cap CodesIn(session'[z].added) = {}
  <2>1. CASE x \notin {y, z}
    BY <1>7, <2>1 DEF Apart
  <2>2. CASE x \in {y, z}
    BY <1>7, <2>2, <1>5
  <2> QED  BY <2>1, <2>2
<1> QED  BY <1>6, <1>7 DEF Apart

\* A commit adds what was flushed to the table, and leaves nothing flushed.
LEMMA Committed ==
    ASSUME Apart, OneUnitPerCode, units \in Seq(Rows), NEW x \in Sessions,
           session \in [Sessions -> SessionShape],
           \A i, j \in DOMAIN session[x].added :
               session[x].added[i].code = session[x].added[j].code => i = j,
           units' = units \o session[x].added,
           session' = [session EXCEPT ![x] = Idle]
    PROVE  /\ units' \in Seq(Rows)
           /\ Apart'
           /\ OneUnitPerCode'
           /\ SystemCodes' = SystemCodes \cup SystemIn(session[x].added)
           /\ \A i \in DOMAIN units : i \in DOMAIN units' /\ units'[i] = units[i]
<1> PICK c : c = units'
  OBVIOUS
<1> PICK b : b = session[x].added
  OBVIOUS
<1>1. b \in Seq(Rows) /\ c = units \o b
  BY DEF SessionShape
<1>2. /\ c \in Seq(Rows)
      /\ \A i \in DOMAIN c : \/ i \in DOMAIN units /\ c[i] = units[i]
                             \/ i - Len(units) \in DOMAIN b /\ c[i] = b[i - Len(units)]
      /\ \A i \in DOMAIN units : i \in DOMAIN c /\ c[i] = units[i]
  BY <1>1, Joined
<1>3. CodesIn(c) = CodesIn(units) \cup CodesIn(b) /\ SystemIn(c) = SystemIn(units) \cup SystemIn(b)
  BY <1>1, CodesJoined
<1>4. session'[x].added = <<>> /\ \A y \in Sessions \ {x} : session'[y] = session[y]
  BY DEF Idle
<1>5. CodesIn(<<>>) = {}
  BY DEF CodesIn
<1>6. Apart'
  <2>1. \A y \in Sessions : CodesIn(session'[y].added) \subseteq CodesIn(session[y].added)
    BY <1>4, <1>5
  <2>2. \A y \in Sessions \ {x} : CodesIn(session[y].added) \cap CodesIn(b) = {}
    BY DEF Apart
  <2>3. CodesIn(units') = CodesIn(units) \cup CodesIn(b)
    BY <1>3
  <2>4. \A y \in Sessions : CodesIn(session'[y].added) \cap CodesIn(units') = {}
    BY <2>1, <2>2, <2>3, <1>4, <1>5 DEF Apart
  <2> QED  BY <2>1, <2>4 DEF Apart
<1>7. \A u \in DOMAIN units, v \in DOMAIN b : units[u].code # b[v].code
  <2>1. CodesIn(b) \cap CodesIn(units) = {}
    BY Zenon DEF Apart
  <2> QED  BY <2>1, Zenon DEF CodesIn
<1>8. \A i, j \in DOMAIN c : c[i].code = c[j].code => i = j
  <2> SUFFICES ASSUME NEW i \in DOMAIN c, NEW j \in DOMAIN c, c[i].code = c[j].code
               PROVE  i = j
    OBVIOUS
  <2>1. i \in Nat /\ j \in Nat /\ Len(units) \in Nat
    BY <1>2
  <2>2. CASE i \in DOMAIN units /\ c[i] = units[i] /\ j \in DOMAIN units /\ c[j] = units[j]
    BY <2>2 DEF OneUnitPerCode
  <2>3. CASE /\ i - Len(units) \in DOMAIN b /\ c[i] = b[i - Len(units)]
             /\ j - Len(units) \in DOMAIN b /\ c[j] = b[j - Len(units)]
    <3>1. i - Len(units) = j - Len(units)
      BY <2>3
    <3> QED  BY <3>1, <2>1
  <2> QED  BY <1>2, <1>7, <2>2, <2>3
<1>9. OneUnitPerCode'
  BY <1>8 DEF OneUnitPerCode
<1>10. SystemCodes' = SystemIn(c) /\ SystemCodes = SystemIn(units)
  BY DEF SystemCodes, IsSystem, SystemIn
<1> QED  BY <1>2, <1>3, <1>6, <1>9, <1>10
-----------------------------------------------------------------------------
(* The invariant.                                                          *)

LEMMA InitInv == Init => IInv
<1> SUFFICES ASSUME Init PROVE IInv
  OBVIOUS
<1>1. \A x \in Sessions : session[x] = Idle
  BY DEF Init
<1>2. CodesIn(<<>>) = {}
  BY DEF CodesIn
<1>3. Shapes
  <2>1. session \in [Sessions -> SessionShape]
    BY DEF Init, Idle, SessionShape
  <2>2. \A p \in Processes : Prefix(session[p].added)
    BY <1>1, DefaultsAssumption DEF Prefix, Idle, Sessions
  <2> QED  BY <1>1, <2>1, <2>2 DEF Shapes, Init, Idle, Sessions
<1>4. Apart
  BY <1>1, <1>2 DEF Apart, Init, Idle
<1>5. OneUnitPerCode /\ SystemUnitsTogether
  BY DEF Init, OneUnitPerCode, SystemUnitsTogether, SystemCodes
<1>6. SeededUnlessExtended
  BY DEF Init, SeededUnlessExtended
<1> QED  BY <1>3, <1>4, <1>5, <1>6 DEF IInv

\* While the table stands, what the requests and the processes it does not
\* serve see of it stands too.
LEMMA TableStands ==
    ASSUME IInv, units' = units,
           \A p \in Processes : process'[p] = "serving" => process[p] = "serving"
    PROVE  OneUnitPerCode' /\ SystemUnitsTogether' /\ SeededUnlessExtended'
BY DEF IInv, OneUnitPerCode, SystemUnitsTogether, SystemCodes, SeededUnlessExtended, IsSystem

\* A session that gives up leaves the table, and no code held.
LEMMA GivingUp ==
    ASSUME IInv, units' = units,
           process' \in [Processes -> {"down", "starting", "serving", "warned"}],
           session' \in [Sessions -> SessionShape],
           \A x \in Sessions : session'[x] \in {session[x], Idle}
    PROVE  Shapes' /\ Apart'
<1>1. \A x \in Sessions : session'[x].added \in {session[x].added, <<>>}
  BY DEF Idle
<1>2. Apart'
  BY <1>1, Unflushed DEF IInv
<1>3. \A p \in Processes : Prefix(session'[p].added)
  BY <1>1, DefaultsAssumption DEF IInv, Shapes, Prefix, Sessions
<1>4. ASSUME NEW r \in Requests
      PROVE  /\ \A i \in DOMAIN session'[r].added : ~session'[r].added[i].is_system
             /\ Len(session'[r].added) <= 1
             /\ session'[r].pc \in {"find_by_code", "add"} => session'[r].typed \in Typed
             /\ session'[r].pc \in {"find_by_code", "add"} => session'[r].added = <<>>
  <2>1. r \in Sessions
    BY DEF Sessions
  <2>2. CASE session'[r] = session[r]
    BY <2>2 DEF IInv, Shapes
  <2>3. CASE session'[r] = Idle
    BY <2>3 DEF Idle
  <2> QED  BY <2>1, <2>2, <2>3
<1> QED  BY <1>2, <1>3, <1>4 DEF Shapes, IInv

LEMMA IdleShape == Idle \in SessionShape
BY DEF Idle, SessionShape

\* A seeding that fails, wherever it has got to (container.py:70-83).
LEMMA FailingInv ==
    ASSUME IInv, NEW p \in Processes, seeding_failed(p)
    PROVE  IInv'
<1>1. /\ process' \in [Processes -> {"down", "starting", "serving", "warned"}]
      /\ session' \in [Sessions -> SessionShape]
      /\ \A x \in Sessions : session'[x] \in {session[x], Idle}
      /\ \A q \in Processes : process'[q] = "serving" => process[q] = "serving"
  BY IdleShape DEF IInv, Shapes, seeding_failed, Sessions
<1> QED  BY <1>1, GivingUp, TableStands DEF IInv, seeding_failed

\* A process that starts counts, and one that finds units serves.
LEMMA CountingInv ==
    ASSUME IInv, NEW p \in Processes, start(p) \/ count(p)
    PROVE  IInv'
<1>1. p \in Sessions /\ p \notin Requests
  BY SessionAssumption DEF Sessions
<1>2. ASSUME NEW s \in SessionShape, s.added \in {session[p].added, <<>>},
             session' = [session EXCEPT ![p] = s], units' = units,
             process' \in [Processes -> {"down", "starting", "serving", "warned"}]
      PROVE  Shapes' /\ Apart'
  <2>1. \A x \in Sessions : session'[x].added \in {session[x].added, <<>>}
    BY <1>1, <1>2 DEF IInv, Shapes
  <2>2. \A r \in Requests : session'[r] = session[r]
    BY <1>1, <1>2 DEF IInv, Shapes, Sessions
  <2>3. Prefix(<<>>)
    BY DefaultsAssumption DEF Prefix
  <2>4. \A q \in Processes : Prefix(session'[q].added)
    BY <2>1, <2>3 DEF IInv, Shapes, Sessions
  <2>5. session' \in [Sessions -> SessionShape]
    BY <1>2 DEF IInv, Shapes
  <2> QED  BY <1>2, <2>1, <2>2, <2>4, <2>5, Unflushed DEF IInv, Shapes
<1>3. CASE start(p)
  <2> DEFINE s == [Idle EXCEPT !.pc = "count"]
  <2>1. s \in SessionShape /\ s.added = <<>>
    <3>1. Idle.added = <<>>
      BY DEF Idle
    <3> QED  BY <3>1, IdleShape DEF SessionShape
  <2>2. /\ session' = [session EXCEPT ![p] = s] /\ units' = units
        /\ process' \in [Processes -> {"down", "starting", "serving", "warned"}]
    <3>1. session' = [session EXCEPT ![p] = s] /\ units' = units
      BY <1>3 DEF start
    <3>2. process' = [process EXCEPT ![p] = "starting"]
      BY <1>3 DEF start
    <3>3. process \in [Processes -> {"down", "starting", "serving", "warned"}]
      BY DEF IInv, Shapes
    <3> HIDE DEF s
    <3> QED  BY <3>1, <3>2, <3>3
  <2> HIDE DEF s
  <2>4. Shapes' /\ Apart'
    BY <1>2, <2>1, <2>2
  <2>3. \A q \in Processes : process'[q] = "serving" => process[q] = "serving"
    BY <1>3 DEF start, IInv, Shapes
  <2> QED  BY <2>2, <2>3, <2>4, TableStands DEF IInv
<1>4. CASE count(p) /\ units # <<>>
  <2>1. /\ units' = units /\ session' = [session EXCEPT ![p] = Idle]
        /\ process' = [process EXCEPT ![p] = "serving"]
    BY <1>4 DEF count
  <2>2. Shapes' /\ Apart'
    BY <1>2, <2>1, IdleShape DEF Idle, IInv, Shapes
  <2>3. OneUnitPerCode' /\ SystemUnitsTogether' /\ SystemCodes' = SystemCodes
    BY <2>1 DEF IInv, OneUnitPerCode, SystemUnitsTogether, SystemCodes, IsSystem
  <2>4. \/ SystemCodes = DefaultCodes
        \/ \E i \in DOMAIN units : ~IsSystem(i)
    <3>1. 1 \in DOMAIN units
      BY <1>4 DEF IInv, Shapes
    <3> QED  BY <3>1 DEF IInv, SystemUnitsTogether, SystemCodes
  <2>5. SeededUnlessExtended'
    BY <2>1, <2>3, <2>4 DEF SeededUnlessExtended, IsSystem
  <2> QED  BY <2>2, <2>3, <2>5 DEF IInv
<1>5. CASE count(p) /\ units = <<>>
  <2> DEFINE s == [session[p] EXCEPT !.pc = "add_all"]
  <2>1. s \in SessionShape /\ s.added = session[p].added
    BY <1>1 DEF IInv, Shapes, SessionShape
  <2>2. session' = [session EXCEPT ![p] = s] /\ units' = units /\ process' = process
    BY <1>5 DEF count, Continue
  <2>3. Shapes' /\ Apart'
    BY <1>2, <2>1, <2>2 DEF IInv, Shapes
  <2> QED  BY <2>2, <2>3, TableStands DEF IInv
<1> QED  BY <1>3, <1>4, <1>5

\* The next default of the list, behind those that are there.
LEMMA SeedingInv ==
    ASSUME IInv, NEW p \in Processes, add_all(p)
    PROVE  IInv'
<1> DEFINE added == session[p].added
           row == DefaultUnit(Len(added) + 1)
<1>1. p \in Sessions /\ p \notin Requests /\ added \in Seq(Rows) /\ Prefix(added)
  BY SessionAssumption DEF Sessions, IInv, Shapes, SessionShape
<1>2. Len(added) < Len(Defaults) /\ row \in Rows
  BY <1>1, DefaultsAssumption DEF add_all, DefaultUnit, Unit, Rows
<1>3. CASE CodeTaken(p, row.code)
  BY <1>3, FailingInv DEF add_all
<1>4. CASE ~CodeTaken(p, row.code)
  <2> DEFINE s == [session[p] EXCEPT !.added = Append(@, row)]
  <2>1. session' = [session EXCEPT ![p] = s] /\ units' = units /\ process' = process
    BY <1>4 DEF add_all, Continue
  <2>2. s \in SessionShape /\ s.added = Append(added, row)
    <3>1. Append(added, row) \in Seq(Rows)
      BY <1>1, <1>2, CodesAppended
    <3>2. session[p] \in SessionShape
      BY <1>1 DEF IInv, Shapes
    <3> HIDE DEF row
    <3> QED  BY <3>1, <3>2 DEF SessionShape
  <2>3. /\ session' \in [Sessions -> SessionShape]
        /\ session'[p].added = Append(added, row)
        /\ \A y \in Sessions \ {p} : session'[y] = session[y]
    BY <1>1, <2>1, <2>2 DEF IInv, Shapes
  <2>4. ~CodeHeld(p, row.code)
    BY <1>4 DEF add_all
  <2>5. Apart'
    <3> HIDE DEF row, added
    <3>1. session[p].added = added
      BY DEF added
    <3> QED  BY <1>1, <1>2, <1>4, <2>1, <2>3, <2>4, <3>1, Flushed DEF IInv
  <2>6. Prefix(Append(added, row))
    BY <1>1, <1>2, DefaultsAssumption DEF Prefix
  <2>7. \A q \in Processes : Prefix(session'[q].added)
    BY <2>3, <2>6 DEF IInv, Shapes, Sessions
  <2>8. \A r \in Requests : session'[r] = session[r]
    BY <1>1, <2>3 DEF Sessions
  <2>9. Shapes'
    BY <2>1, <2>3, <2>7, <2>8 DEF IInv, Shapes
  <2> QED  BY <2>1, <2>5, <2>9, TableStands DEF IInv
<1> QED  BY <1>3, <1>4

\* The codes of the whole list are the default codes, each once, all system.
LEMMA WholeList ==
    ASSUME NEW rows \in Seq(Rows), Prefix(rows), Len(rows) = Len(Defaults)
    PROVE  /\ SystemIn(rows) = DefaultCodes
           /\ \A i, j \in DOMAIN rows : rows[i].code = rows[j].code => i = j
<1>1. /\ DOMAIN rows = DOMAIN Defaults
      /\ \A i \in DOMAIN rows : rows[i].code = Defaults[i] /\ rows[i].is_system
      /\ DOMAIN Defaults = 1..Len(Defaults)
  <2>1. DOMAIN rows = DOMAIN Defaults /\ DOMAIN Defaults = 1..Len(Defaults)
    BY DefaultsAssumption
  <2>2. \A i \in DOMAIN rows : rows[i] = DefaultUnit(i)
    BY <2>1 DEF Prefix
  <2>3. ASSUME NEW i \in DOMAIN rows PROVE rows[i].code = Defaults[i] /\ rows[i].is_system
    BY <2>2 DEF DefaultUnit, Unit
  <2> QED  BY <2>1, <2>3
<1>2. SystemIn(rows) = DefaultCodes
  BY <1>1 DEF SystemIn, DefaultCodes
<1> QED  BY <1>1, <1>2, DefaultsAssumption

\* The one commit of a seeding (services/units.py:58).
LEMMA SeededInv ==
    ASSUME IInv, NEW p \in Processes, commit_seed(p)
    PROVE  IInv'
<1> DEFINE added == session[p].added
<1>1. /\ p \in Sessions /\ p \notin Requests
      /\ added \in Seq(Rows) /\ Prefix(added) /\ Len(added) = Len(Defaults)
      /\ units' = units \o added
      /\ session' = [session EXCEPT ![p] = Idle]
      /\ process' = [process EXCEPT ![p] = "serving"]
  BY SessionAssumption DEF Sessions, IInv, Shapes, SessionShape, commit_seed
<1>2. SystemIn(added) = DefaultCodes /\ \A i, j \in DOMAIN added : added[i].code = added[j].code => i = j
  BY <1>1, WholeList
<1>3. /\ units' \in Seq(Rows) /\ Apart' /\ OneUnitPerCode'
      /\ SystemCodes' = SystemCodes \cup DefaultCodes
  BY <1>1, <1>2, Committed DEF IInv, Shapes
<1>4. SystemCodes' = DefaultCodes
  BY <1>3 DEF IInv, SystemUnitsTogether
<1>5. SystemUnitsTogether' /\ SeededUnlessExtended'
  BY <1>4 DEF SystemUnitsTogether, SeededUnlessExtended, DefaultCodes
<1>6. \A r \in Requests : session'[r] = session[r]
  BY <1>1 DEF IInv, Shapes, Sessions
<1>7. Prefix(<<>>)
  BY DefaultsAssumption DEF Prefix
<1>8. \A q \in Processes : Prefix(session'[q].added)
  BY <1>1, <1>7 DEF IInv, Shapes, Sessions, Idle
<1>9. /\ session' \in [Sessions -> SessionShape]
      /\ process' \in [Processes -> {"down", "starting", "serving", "warned"}]
  BY <1>1, IdleShape DEF IInv, Shapes
<1>10. Shapes'
  BY <1>3, <1>6, <1>8, <1>9 DEF IInv, Shapes
<1> QED  BY <1>3, <1>5, <1>10 DEF IInv

\* What Shapes says of a request.
Asking(s) == /\ \A i \in DOMAIN s.added : ~s.added[i].is_system
             /\ Len(s.added) <= 1
             /\ s.pc \in {"find_by_code", "add"} => s.typed \in Typed
             /\ s.pc \in {"find_by_code", "add"} => s.added = <<>>

\* A step of a request touches its own session.
LEMMA RequestShapes ==
    ASSUME IInv, NEW r \in Requests, NEW s \in SessionShape, Asking(s),
           session' = [session EXCEPT ![r] = s], process' = process,
           units' \in Seq(Rows)
    PROVE  Shapes'
<1>1. r \in Sessions /\ r \notin Processes
  BY SessionAssumption DEF Sessions
<1>2. /\ session' \in [Sessions -> SessionShape]
      /\ session'[r] = s /\ \A x \in Sessions \ {r} : session'[x] = session[x]
  BY <1>1 DEF IInv, Shapes
<1>3. \A p \in Processes : Prefix(session'[p].added)
  BY <1>1, <1>2 DEF IInv, Shapes, Sessions
<1>4. \A q \in Requests : Asking(session[q])
  BY DEF IInv, Shapes, Asking
<1>5. \A q \in Requests : Asking(session'[q])
  BY <1>2, <1>4 DEF Sessions
<1> QED  BY <1>2, <1>3, <1>5 DEF IInv, Shapes, Asking

\* Arriving, looking up and giving up flush nothing.
LEMMA AskingInv ==
    ASSUME IInv, NEW r \in Requests,
           NEW s \in SessionShape, Asking(s), s.added \in {session[r].added, <<>>},
           Continue(r, s)
    PROVE  IInv'
<1>1. r \in Sessions
  BY DEF Sessions
<1>2. units' = units /\ process' = process /\ session' = [session EXCEPT ![r] = s]
  BY DEF Continue
<1>3. Shapes'
  BY <1>2, RequestShapes DEF IInv, Shapes
<1>4. \A x \in Sessions : session'[x].added \in {session[x].added, <<>>}
  BY <1>1, <1>2 DEF IInv, Shapes
<1>5. Apart'
  BY <1>2, <1>4, Unflushed DEF IInv
<1> QED  BY <1>2, <1>3, <1>5, TableStands DEF IInv

LEMMA IdleAsks == Asking(Idle) /\ Idle.added = <<>>
BY DEF Asking, Idle

\* The insert of a custom unit, where the UNIQUE constraint lets it in.
LEMMA AddingInv ==
    ASSUME IInv, NEW r \in Requests, add(r)
    PROVE  IInv'
<1> DEFINE row == Unit(clean_code(session[r].typed), FALSE)
           s == [session[r] EXCEPT !.pc = "commit", !.added = <<row>>]
<1>1. /\ r \in Sessions /\ session[r] \in SessionShape
      /\ session[r].typed \in Typed /\ session[r].added = <<>>
  BY DEF Sessions, IInv, Shapes, add
<1>2. row \in Rows /\ row.code = clean_code(session[r].typed) /\ ~row.is_system
  BY <1>1, CodeAssumption DEF Rows, Unit, clean_code
<1>3. CASE CodeTaken(r, row.code)
  <2>1. Continue(r, Idle)
    BY <1>2, <1>3 DEF add
  <2> QED  BY <2>1, IdleShape, IdleAsks, AskingInv
<1>4. CASE ~CodeTaken(r, row.code)
  <2>1. Continue(r, s) /\ ~CodeHeld(r, row.code)
    BY <1>2, <1>4 DEF add
  <2>2. s \in SessionShape /\ s.added = <<row>> /\ s.pc = "commit"
    <3> HIDE DEF row
    <3>1. <<row>> \in Seq(Rows)
      BY <1>2
    <3> QED  BY <1>1, <3>1 DEF SessionShape
  <2>3. Asking(s)
    <3> HIDE DEF row
    <3> QED  BY <1>2, <2>2 DEF Asking
  <2>4. session' = [session EXCEPT ![r] = s] /\ units' = units /\ process' = process
    BY <2>1 DEF Continue
  <2>5. Shapes'
    <3> HIDE DEF s
    <3> QED  BY <2>2, <2>3, <2>4, RequestShapes DEF IInv, Shapes
  <2>6. /\ session'[r].added = Append(session[r].added, row)
        /\ \A y \in Sessions \ {r} : session'[y] = session[y]
        /\ session[r].added \in Seq(Rows)
    <3> HIDE DEF row
    <3>1. <<row>> = Append(<<>>, row)
      OBVIOUS
    <3> QED  BY <1>1, <2>2, <2>4, <3>1 DEF IInv, Shapes, SessionShape
  <2>7. Apart'
    <3> HIDE DEF row, s
    <3> QED  BY <1>1, <1>2, <1>4, <2>1, <2>4, <2>6, Flushed DEF IInv
  <2> QED  BY <2>4, <2>5, <2>7, TableStands DEF IInv
<1> QED  BY <1>3, <1>4

\* The commit of a custom unit.
LEMMA AddedInv ==
    ASSUME IInv, NEW r \in Requests, commit(r)
    PROVE  IInv'
<1> DEFINE added == session[r].added
<1>1. /\ r \in Sessions /\ added \in Seq(Rows) /\ Asking(session[r])
      /\ units' = units \o added /\ process' = process
      /\ session' = [session EXCEPT ![r] = Idle]
  BY DEF Sessions, IInv, Shapes, SessionShape, Asking, commit
<1>2. SystemIn(added) = {} /\ \A i, j \in DOMAIN added : added[i].code = added[j].code => i = j
  BY <1>1 DEF SystemIn, Asking
<1>3. /\ units' \in Seq(Rows) /\ Apart' /\ OneUnitPerCode' /\ SystemCodes' = SystemCodes
      /\ \A i \in DOMAIN units : i \in DOMAIN units' /\ units'[i] = units[i]
  BY <1>1, <1>2, Committed DEF IInv, Shapes
<1>4. Shapes'
  BY <1>1, <1>3, IdleShape, IdleAsks, RequestShapes
<1>5. SystemUnitsTogether' /\ SeededUnlessExtended'
  <2>1. SystemUnitsTogether'
    BY <1>3 DEF IInv, SystemUnitsTogether, DefaultCodes
  <2>2. (\E i \in DOMAIN units : ~IsSystem(i)) => (\E i \in DOMAIN units' : ~units'[i].is_system)
    BY <1>3 DEF IsSystem
  <2>3. SeededUnlessExtended'
    BY <1>1, <1>3, <2>2 DEF IInv, SeededUnlessExtended, DefaultCodes, IsSystem
  <2> QED  BY <2>1, <2>3
<1> QED  BY <1>3, <1>4, <1>5 DEF IInv

\* A crash closes the sessions of its process.
LEMMA CrashInv ==
    ASSUME IInv, NEW p \in Processes, crash(p)
    PROVE  IInv'
<1>1. /\ units' = units
      /\ process' = [process EXCEPT ![p] = "down"]
      /\ session' = [x \in Sessions |-> IF x = p \/ session[x].host = p THEN Idle
                                        ELSE session[x]]
  BY DEF crash
<1>2. /\ session' \in [Sessions -> SessionShape]
      /\ \A x \in Sessions : session'[x] \in {session[x], Idle}
  BY <1>1, IdleShape DEF IInv, Shapes
<1>3. /\ process' \in [Processes -> {"down", "starting", "serving", "warned"}]
      /\ \A q \in Processes : process'[q] = "serving" => process[q] = "serving"
  BY <1>1 DEF IInv, Shapes
<1> QED  BY <1>1, <1>2, <1>3, GivingUp, TableStands DEF IInv

LEMMA StutterInv == ASSUME IInv, UNCHANGED vars PROVE IInv'
<1>1. units' = units /\ process' = process /\ session' = session
  BY DEF vars
<1> QED  BY <1>1, GivingUp, TableStands DEF IInv, Shapes

LEMMA NextInv == IInv /\ [Next]_vars => IInv'
<1> SUFFICES ASSUME IInv, [Next]_vars PROVE IInv'
  OBVIOUS
<1>1. CASE UNCHANGED vars
  BY <1>1, StutterInv
<1>2. ASSUME NEW p \in Processes, start(p) \/ seeding(p) \/ hiccup(p) \/ crash(p)
      PROVE  IInv'
  BY <1>2, CountingInv, SeedingInv, SeededInv, FailingInv, CrashInv DEF seeding, hiccup
<1>3. ASSUME NEW r \in Requests, NEW p \in Processes, NEW typed \in Typed, begin(r, p, typed)
      PROVE  IInv'
  <2> DEFINE s == [Idle EXCEPT !.pc = "find_by_code", !.host = p, !.typed = typed]
  <2>1. s \in SessionShape /\ Asking(s) /\ s.added = <<>>
    <3>1. Idle.added = <<>> /\ Idle \in SessionShape
      BY IdleShape DEF Idle
    <3>2. s \in SessionShape /\ s.added = <<>> /\ s.typed = typed
      BY <3>1 DEF SessionShape
    <3> HIDE DEF s
    <3> QED  BY <3>2 DEF Asking
  <2>2. Continue(r, s)
    BY <1>3 DEF begin
  <2> HIDE DEF s
  <2> QED  BY <2>1, <2>2, AskingInv
<1>4. ASSUME NEW r \in Requests, find_by_code(r) PROVE IInv'
  <2> DEFINE s == [session[r] EXCEPT !.pc = "add"]
  <2>1. s \in SessionShape /\ Asking(s) /\ s.added = session[r].added
    <3>1. /\ session[r] \in SessionShape /\ Asking(session[r])
          /\ session[r].pc = "find_by_code"
      BY <1>4 DEF IInv, Shapes, Sessions, Asking, find_by_code
    <3>2. s \in SessionShape /\ s.added = session[r].added /\ s.typed = session[r].typed
      BY <3>1 DEF SessionShape
    <3> HIDE DEF s
    <3> QED  BY <3>1, <3>2 DEF Asking
  <2>2. Continue(r, Idle) \/ Continue(r, s)
    BY <1>4 DEF find_by_code
  <2> HIDE DEF s
  <2> QED  BY <2>1, <2>2, IdleShape, IdleAsks, AskingInv
<1>5. ASSUME NEW r \in Requests, add(r) \/ commit(r) \/ fail(r) PROVE IInv'
  BY <1>5, AddingInv, AddedInv, AskingInv, IdleShape, IdleAsks DEF fail
<1> QED  BY <1>1, <1>2, <1>3, <1>4, <1>5 DEF Next, creating
-----------------------------------------------------------------------------
LEMMA Invariance == Spec => []IInv
BY InitInv, NextInv, PTL DEF Spec

\* However many processes start at once and whoever types a default code
\* meanwhile, no code is stored twice: a unit resolves to one row (models.py:184).
THEOREM CodesUnique == Spec => []OneUnitPerCode
BY Invariance, PTL DEF IInv

\* A seeding is all there or not at all, whatever it fails at
\* (services/units.py:48-58).
THEOREM SeedingWhole == Spec => []SystemUnitsTogether
BY Invariance, PTL DEF IInv

\* A process that serves without a warning has the system units, or serves a
\* table somebody had begun (services/units.py:54).
THEOREM ServesSeeded == Spec => []SeededUnlessExtended
BY Invariance, PTL DEF IInv
=============================================================================
