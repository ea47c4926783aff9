---------------------------- MODULE UnitSeeding ----------------------------
(***************************************************************************)
(* The units of measurement, one table for the whole install: every        *)
(* process of the application seeds it when it starts and finds it empty,  *)
(* and the requests it serves add custom units.  Nothing deletes a unit.   *)
(* Seeding is best-effort: whatever it raises is logged and the process    *)
(* serves nevertheless.                                                    *)
(*                                                                         *)
(* Statements and locks are those of Store.  A unit is its code and        *)
(* whether it is a system unit.                                            *)
(***************************************************************************)
EXTENDS Naturals, Sequences

CONSTANTS Processes, Requests,
          Codes, Defaults,    \* DEFAULT_UNITS: a sequence of Codes
          Typed,              \* the codes people type
          CodeOf, LookupOf,   \* [Typed -> Codes]: what is stored, what is looked up
          None

ASSUME CodeAssumption == /\ CodeOf \in [Typed -> Codes]
                         /\ LookupOf \in [Typed -> Codes]
ASSUME DefaultsAssumption ==
    /\ Defaults \in Seq(Codes) /\ Defaults # <<>>
    /\ \A i, j \in 1..Len(Defaults) : Defaults[i] = Defaults[j] => i = j
ASSUME SessionAssumption == /\ Processes \cap Requests = {}
                            /\ None \notin Processes \cup Typed

Sessions == Processes \cup Requests

VARIABLES units,     \* the committed rows, in the order they were committed
          process,   \* down, starting, serving, or serving after a seeding that failed
          session    \* of a process: its seeding; of a request: UnitService.create

vars == <<units, process, session>>

\* `added` are the units flushed and not committed.
Idle == [pc |-> "idle", host |-> None, typed |-> None, added |-> <<>>]

Init == /\ units = <<>>
        /\ process = [p \in Processes |-> "down"]
        /\ session = [x \in Sessions |-> Idle]
-----------------------------------------------------------------------------
Unit(code, is_system) == [code |-> code, is_system |-> is_system]

clean_code(typed) == CodeOf[typed]

CodesIn(rows) == {rows[i].code : i \in DOMAIN rows}

\* UNIQUE (code), against what is committed and what x itself has flushed.
CodeTaken(x, code) == code \in CodesIn(units) \cup CodesIn(session[x].added)

\* Another session's flushed row has the code: the insert waits.
CodeHeld(x, code) == \E y \in Sessions \ {x} : code \in CodesIn(session[y].added)

Serving(p) == process[p] \in {"serving", "warned"}

Continue(x, s) == /\ session' = [session EXCEPT ![x] = s]
                  /\ UNCHANGED <<units, process>>

\* A mutant, as are the operators below whose name says what they get wrong.
seeding_failed_LeavesOpen(p) ==
    /\ process' = [process EXCEPT ![p] = "warned"]
    /\ session' = [session EXCEPT ![p].pc = "idle"]
    /\ UNCHANGED units

\* The session is closed, the exception logged and swallowed.
seeding_failed(p) ==
    /\ process' = [process EXCEPT ![p] = "warned"]
    /\ session' = [session EXCEPT ![p] = Idle]
    /\ UNCHANGED units
-----------------------------------------------------------------------------
(* create_app's lifespan, Container.seed_units, UnitService.seed_defaults. *)

start(p) == /\ process[p] = "down"
            /\ process' = [process EXCEPT ![p] = "starting"]
            /\ session' = [session EXCEPT ![p] = [Idle EXCEPT !.pc = "count"]]
            /\ UNCHANGED units

count_Inverted(p) ==
    /\ session[p].pc = "count"
    /\ IF units = <<>>
       THEN /\ process' = [process EXCEPT ![p] = "serving"]
            /\ session' = [session EXCEPT ![p] = Idle]
            /\ UNCHANGED units
       ELSE Continue(p, [session[p] EXCEPT !.pc = "add_all"])

count(p) ==
    /\ session[p].pc = "count"
    /\ IF units # <<>>
       THEN /\ process' = [process EXCEPT ![p] = "serving"]
            /\ session' = [session EXCEPT ![p] = Idle]
            /\ UNCHANGED units
       ELSE Continue(p, [session[p] EXCEPT !.pc = "add_all"])

\* default_units, in the order of the list.
DefaultUnit(i) == Unit(Defaults[i], TRUE)

\* One insert-and-flush of the loop over the defaults.
add_all(p) ==
    LET s   == session[p]
        row == DefaultUnit(Len(s.added) + 1)
    IN /\ s.pc = "add_all" /\ Len(s.added) < Len(Defaults)
       /\ IF CodeTaken(p, row.code) THEN seeding_failed(p)
          ELSE /\ ~CodeHeld(p, row.code)
               /\ Continue(p, [s EXCEPT !.added = Append(@, row)])

commit_seed_EachTime(p) ==
    /\ session[p].pc = "add_all" /\ session[p].added # <<>>
    /\ units' = units \o session[p].added
    /\ process' = [process EXCEPT ![p] = "serving"]
    /\ session' = [session EXCEPT ![p] = Idle]

commit_seed(p) ==
    /\ session[p].pc = "add_all" /\ Len(session[p].added) = Len(Defaults)
    /\ units' = units \o session[p].added
    /\ process' = [process EXCEPT ![p] = "serving"]
    /\ session' = [session EXCEPT ![p] = Idle]

\* Whatever a start-up can trip over: no connection, no table, no lock in time.
hiccup(p) == process[p] = "starting" /\ seeding_failed(p)
-----------------------------------------------------------------------------
(* UnitService.create.                                                     *)

begin(r, p, typed) ==
    /\ session[r] = Idle /\ Serving(p)
    /\ Continue(r, [Idle EXCEPT !.pc = "find_by_code", !.host = p, !.typed = typed])

find_by_code(r) ==
    /\ session[r].pc = "find_by_code"
    /\ IF LookupOf[session[r].typed] \in CodesIn(units) THEN Continue(r, Idle)
       ELSE Continue(r, [session[r] EXCEPT !.pc = "add"])

add_Unconstrained(r) ==
    LET code == clean_code(session[r].typed)
    IN /\ session[r].pc = "add"
       /\ Continue(r, [session[r] EXCEPT !.pc = "commit", !.added = <<Unit(code, FALSE)>>])

add(r) ==
    LET code == clean_code(session[r].typed)
    IN /\ session[r].pc = "add"
       /\ IF CodeTaken(r, code) THEN Continue(r, Idle)
          ELSE /\ ~CodeHeld(r, code)
               /\ Continue(r, [session[r] EXCEPT !.pc = "commit",
                                                 !.added = <<Unit(code, FALSE)>>])

commit(r) ==
    /\ session[r].pc = "commit"
    /\ units' = units \o session[r].added
    /\ session' = [session EXCEPT ![r] = Idle]
    /\ UNCHANGED process

fail(r) == session[r] # Idle /\ Continue(r, Idle)
-----------------------------------------------------------------------------
\* A process dies with its seeding and the requests it serves.
crash(p) ==
    /\ process[p] # "down"
    /\ process' = [process EXCEPT ![p] = "down"]
    /\ session' = [x \in Sessions |-> IF x = p \/ session[x].host = p THEN Idle
                                      ELSE session[x]]
    /\ UNCHANGED units

seeding(p) == count(p) \/ add_all(p) \/ commit_seed(p)

creating(r) == find_by_code(r) \/ add(r) \/ commit(r)

Next == \/ \E p \in Processes : start(p) \/ seeding(p) \/ hiccup(p) \/ crash(p)
        \/ \E r \in Requests : \/ \E p \in Processes, typed \in Typed : begin(r, p, typed)
                               \/ creating(r)
                               \/ fail(r)

Spec == Init /\ [][Next]_vars

\* As in Ledger: threads go on, and locks are granted in turn.  Nothing makes a
\* process start, a request arrive, or anything fail.
FairSpec == /\ Spec
            /\ \A p \in Processes : SF_vars(seeding(p))
            /\ \A r \in Requests : SF_vars(creating(r))
-----------------------------------------------------------------------------
IsSystem(i) == units[i].is_system

SystemCodes == {units[i].code : i \in {j \in DOMAIN units : IsSystem(j)}}

DefaultCodes == {Defaults[i] : i \in DOMAIN Defaults}

\* Two processes that start on an empty table, or somebody who types a default
\* code meanwhile, never leave two units of one code, so that an expense can
\* always resolve its unit (services/units.py:4-6, models.py:182-186).
OneUnitPerCode ==
    \A i, j \in DOMAIN units : units[i].code = units[j].code => i = j

\* A seeding is all there or not at all, whichever statement it fails at
\* (services/units.py:48-58).
SystemUnitsTogether == SystemCodes \in {{}, DefaultCodes}

\* A process that started without a warning found or made the system units,
\* unless somebody has added a unit of their own: a table that is not empty is
\* taken for seeded (services/units.py:54, "they are always present",
\* unit_of_measurement.py:9).
SeededUnlessExtended ==
    \A p \in Processes :
        process[p] = "serving" => \/ SystemCodes = DefaultCodes
                                  \/ \E i \in DOMAIN units : ~IsSystem(i)

\* "A seeding hiccup must not stop the app from starting" (app.py:52), not
\* even another process's, and a request that waits for a seeding is answered.
ComesUp ==
    /\ \A p \in Processes : process[p] = "starting" ~> process[p] # "starting"
    /\ \A r \in Requests : session[r] # Idle ~> session[r] = Idle
=============================================================================
