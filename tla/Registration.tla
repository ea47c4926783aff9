---------------------------- MODULE Registration ----------------------------
(***************************************************************************)
(* Registering an owner: two transactions, joined by the event bus.  The   *)
(* first inserts the owner.  After its commit the Unit of Work publishes   *)
(* OwnerRegistered, and the handler, in the same call, inserts the default *)
(* categories in a Unit of Work of its own.  Meanwhile other requests      *)
(* register, change preferences, and create categories for an owner who    *)
(* has signed in.                                                          *)
(*                                                                         *)
(* One action is one statement, as in Store: it sees what is committed     *)
(* when it runs, and an insert that collides with another session's        *)
(* uncommitted one waits for it.  Password, display name and currency are  *)
(* left out, and of a category everything but its name.                    *)
(***************************************************************************)
EXTENDS Naturals, Sequences

CONSTANTS Requests, OwnerIds,
          Typed, Emails, AddressOf,   \* AddressOf[typed]: stripped, and in lower case
          Keys, Defaults,             \* DEFAULT_CATEGORIES: a sequence of Keys
          Calendars, Languages,
          Commands, None

ASSUME AddressAssumption == AddressOf \in [Typed -> Emails]
ASSUME DefaultsAssumption ==
    /\ Defaults \in Seq(Keys)
    /\ \A i, j \in 1..Len(Defaults) : Defaults[i] = Defaults[j] => i = j

Ops == {"register", "update_preferences", "create_category"}

Command == [op : Ops, typed : Typed \cup {None}, owner : OwnerIds \cup {None},
            key : Keys \cup {None}, calendar : Calendars \cup {None},
            language : Languages \cup {None}]

ASSUME CommandAssumption ==
    /\ Commands \subseteq Command
    /\ \A c \in Commands :
          /\ c.op = "register"        => None \notin {c.typed, c.calendar, c.language}
          /\ c.op = "create_category" => None \notin {c.owner, c.key}

OwnerRow == [email : Emails, calendar : Calendars, language : Languages]

CategoryRow == [owner : OwnerIds, key : Keys, is_default : BOOLEAN]

VARIABLES owners,       \* the committed accounts, by id
          categories,   \* the committed categories
          published,    \* the owners whose OwnerRegistered was published
          session       \* the session of each request

vars == <<owners, categories, published, session>>

\* `owner` is the account at hand, `now` its aggregate and `seen` its row as it
\* was loaded; `added` are the categories flushed and not committed.
Idle == [cmd |-> None, pc |-> "idle", owner |-> None, now |-> None, seen |-> None,
         added |-> {}]

Session == [cmd : Commands \cup {None},
            pc : {"idle", "email_exists", "add", "commit_owner", "publish", "seed", "issue",
                  "get", "commit_preferences", "list_for_owner", "add_category",
                  "commit_category"},
            owner : OwnerIds \cup {None},
            now : OwnerRow \cup {None}, seen : OwnerRow \cup {None},
            added : SUBSET CategoryRow]

Init == /\ owners = [o \in {} |-> None]
        /\ categories = {}
        /\ published = {}
        /\ session = [r \in Requests |-> Idle]
-----------------------------------------------------------------------------
first(c) == CASE c.op = "register"           -> "email_exists"
              [] c.op = "update_preferences" -> "get"
              [] c.op = "create_category"    -> "list_for_owner"

\* A signed-in owner is one find_by_email or the token's id led to: a committed one.
begin(r, c) ==
    /\ session[r] = Idle
    /\ c.op # "register" => c.owner \in DOMAIN owners
    /\ session' = [session EXCEPT ![r] = [Idle EXCEPT !.cmd = c, !.pc = first(c)]]
    /\ UNCHANGED <<owners, categories, published>>

Continue(r, s) == /\ session' = [session EXCEPT ![r] = s]
                  /\ UNCHANGED <<owners, categories, published>>

\* The request ends, and with it what it did not commit.
End(r) == Continue(r, Idle)
-----------------------------------------------------------------------------
(* OwnerService.register.                                                  *)

EmailAddress(typed) == AddressOf[typed]

\* Owner.register
NewOwner(c) == [email |-> EmailAddress(c.typed), calendar |-> c.calendar,
                language |-> c.language]

email_exists(r) ==
    LET s     == session[r]
        email == EmailAddress(s.cmd.typed)
        row   == NewOwner(s.cmd)
    IN /\ s.pc = "email_exists"
       /\ IF \E o \in DOMAIN owners : owners[o].email = email THEN End(r)
          ELSE Continue(r, [s EXCEPT !.pc = "add", !.now = row])

\* Another session has flushed an account of this email.
EmailHeld(r, email) ==
    \E q \in Requests \ {r} : session[q].pc = "commit_owner" /\ session[q].now.email = email

Unused == {o \in OwnerIds \ DOMAIN owners : \A r \in Requests : session[r].owner # o}

\* A mutant, as are the operators below whose name says what they get wrong.
add_IndexLost(r) ==
    LET s == session[r]
    IN /\ s.pc = "add"
       /\ \E o \in Unused : Continue(r, [s EXCEPT !.pc = "commit_owner", !.owner = o])

\* Insert and flush, under the unique index of owners.email.
add(r) ==
    LET s == session[r]
    IN /\ s.pc = "add"
       /\ IF \E o \in DOMAIN owners : owners[o].email = s.now.email THEN End(r)
          ELSE /\ ~EmailHeld(r, s.now.email)
               /\ \E o \in Unused : Continue(r, [s EXCEPT !.pc = "commit_owner", !.owner = o])

commit_owner_PublishedFirst(r) ==
    LET s == session[r]
    IN /\ s.pc = "commit_owner"
       /\ published' = published \cup {s.owner}
       /\ \/ /\ owners' = [o \in DOMAIN owners \cup {s.owner} |->
                              IF o = s.owner THEN s.now ELSE owners[o]]
             /\ session' = [session EXCEPT ![r] = [s EXCEPT !.pc = "publish"]]
          \/ /\ session' = [session EXCEPT ![r] = Idle]
             /\ UNCHANGED owners
       /\ UNCHANGED categories

\* The events are drained, and the database commits or refuses to.
commit_owner(r) ==
    LET s == session[r]
    IN /\ s.pc = "commit_owner"
       /\ \/ /\ owners' = [o \in DOMAIN owners \cup {s.owner} |->
                              IF o = s.owner THEN s.now ELSE owners[o]]
             /\ session' = [session EXCEPT ![r] = [s EXCEPT !.pc = "publish"]]
             /\ UNCHANGED <<categories, published>>
          \/ End(r)

publish(r) ==
    LET s == session[r]
    IN /\ s.pc = "publish"
       /\ published' = published \cup {s.owner}
       /\ session' = [session EXCEPT ![r] = [s EXCEPT !.pc = "seed"]]
       /\ UNCHANGED <<owners, categories>>
-----------------------------------------------------------------------------
(* The subscriber, in a Unit of Work of its own.                           *)

NameTaken(o, key) == \E c \in categories : c.owner = o /\ c.key = key

NameHeld(r, o, key) ==
    \E q \in Requests \ {r} : \E c \in session[q].added : c.owner = o /\ c.key = key

DefaultRow(o, i) == [owner |-> o, key |-> Defaults[i], is_default |-> TRUE]

\* The defaults not flushed yet, and the next one in the order of the list.
Remaining(s) == {i \in 1..Len(Defaults) : DefaultRow(s.owner, i) \notin s.added}

IsNext(s, i) == i \in Remaining(s) /\ \A j \in Remaining(s) : i <= j

seed_Swallowed(r) ==
    LET s == session[r]
    IN /\ s.pc = "seed"
       /\ \E i \in 1..Len(Defaults) :
             /\ IsNext(s, i)
             /\ IF NameTaken(s.owner, Defaults[i])
                THEN Continue(r, [s EXCEPT !.pc = "issue", !.added = {}])
                ELSE /\ ~NameHeld(r, s.owner, Defaults[i])
                     /\ Continue(r, [s EXCEPT !.added = @ \cup {DefaultRow(s.owner, i)}])

\* One categories.add of the loop.  What it raises goes through the bus, which
\* swallows nothing, to the caller of register; the owner stays committed.
seed(r) ==
    LET s == session[r]
    IN /\ s.pc = "seed"
       /\ \E i \in 1..Len(Defaults) :
             /\ IsNext(s, i)
             /\ IF s.owner \notin DOMAIN owners \/ NameTaken(s.owner, Defaults[i]) THEN End(r)
                ELSE /\ ~NameHeld(r, s.owner, Defaults[i])
                     /\ Continue(r, [s EXCEPT !.added = @ \cup {DefaultRow(s.owner, i)}])

commit_seed_EachTime(r) ==
    LET s == session[r]
    IN /\ s.pc = "seed" /\ s.added # {}
       /\ categories' = categories \cup s.added
       /\ session' = [session EXCEPT ![r] =
                         IF Remaining(s) = {} THEN [s EXCEPT !.pc = "issue", !.added = {}]
                         ELSE s]
       /\ UNCHANGED <<owners, published>>

\* The handler commits once, after the loop, and register answers.
commit_seed(r) ==
    LET s == session[r]
    IN /\ s.pc = "seed" /\ Remaining(s) = {}
       /\ categories' = categories \cup s.added
       /\ session' = [session EXCEPT ![r] = [s EXCEPT !.pc = "issue", !.added = {}]]
       /\ UNCHANGED <<owners, published>>

\* The profile and the token: the answer to register.
issue(r) == session[r].pc = "issue" /\ End(r)
-----------------------------------------------------------------------------
(* OwnerService.update_preferences.                                        *)

\* Only what the command names: a column it leaves out stays.
Preferred(row, c) == [row EXCEPT !.calendar = IF c.calendar = None THEN @ ELSE c.calendar,
                                 !.language = IF c.language = None THEN @ ELSE c.language]

get(r) ==
    LET s   == session[r]
        row == owners[s.cmd.owner]
    IN /\ s.pc = "get"
       /\ Continue(r, [s EXCEPT !.pc = "commit_preferences", !.seen = row,
                                !.now = Preferred(row, s.cmd)])

update_model_EveryColumn(s, row) == s.now

\* The UPDATE names the columns that differ from what was loaded.
update_model(s, row) == [c \in DOMAIN row |-> IF s.now[c] = s.seen[c] THEN row[c]
                                                                      ELSE s.now[c]]

commit_preferences(r) ==
    LET s == session[r]
    IN /\ s.pc = "commit_preferences"
       /\ owners' = [owners EXCEPT ![s.cmd.owner] = update_model(s, @)]
       /\ session' = [session EXCEPT ![r] = Idle]
       /\ UNCHANGED <<categories, published>>
-----------------------------------------------------------------------------
(* CategoryService.create, by the owner who has just signed in.            *)

list_for_owner(r) ==
    LET s == session[r]
    IN /\ s.pc = "list_for_owner"
       /\ IF NameTaken(s.cmd.owner, s.cmd.key) THEN End(r)
          ELSE Continue(r, [s EXCEPT !.pc = "add_category"])

add_category(r) ==
    LET s   == session[r]
        row == [owner |-> s.cmd.owner, key |-> s.cmd.key, is_default |-> FALSE]
    IN /\ s.pc = "add_category"
       /\ IF NameTaken(s.cmd.owner, s.cmd.key) THEN End(r)
          ELSE /\ ~NameHeld(r, s.cmd.owner, s.cmd.key)
               /\ Continue(r, [s EXCEPT !.pc = "commit_category", !.added = {row}])

commit_category(r) ==
    LET s == session[r]
    IN /\ s.pc = "commit_category"
       /\ categories' = categories \cup s.added
       /\ session' = [session EXCEPT ![r] = Idle]
       /\ UNCHANGED <<owners, published>>
-----------------------------------------------------------------------------
\* The process dies, the connection drops, or the statement raises.
crash(r) == session[r] # Idle /\ End(r)

statement(r) == \/ email_exists(r) \/ add(r) \/ commit_owner(r) \/ publish(r)
                \/ seed(r) \/ commit_seed(r) \/ issue(r)
                \/ get(r) \/ commit_preferences(r)
                \/ list_for_owner(r) \/ add_category(r) \/ commit_category(r)

Next == \E r \in Requests : \/ \E c \in Commands : begin(r, c)
                            \/ statement(r)
                            \/ crash(r)

Spec == Init /\ [][Next]_vars
-----------------------------------------------------------------------------
DefaultsOf(o) == {DefaultRow(o, i) : i \in 1..Len(Defaults)}

Seeded(o) == {c \in categories : c.owner = o /\ c.is_default}

\* The rows are rows of their tables, categories belong to accounts that exist
\* (the foreign key of categories.owner_id), and a session that writes
\* preferences holds an account as it once was.
TypeOK ==
    /\ DOMAIN owners \subseteq OwnerIds
    /\ \A o \in DOMAIN owners : owners[o] \in OwnerRow
    /\ categories \subseteq [owner : DOMAIN owners, key : Keys, is_default : BOOLEAN]
    /\ published \subseteq OwnerIds
    /\ session \in [Requests -> Session]

\* Two people, or one who sends the form twice, never both get an account for
\* one email, however it is typed: "The index is still the last word"
\* (owners.py:52-54, identity models.py:27).
OneAccountPerEmail ==
    \A o, p \in DOMAIN owners : owners[o].email = owners[p].email => o = p

\* The default categories of an account are all there or none is: "a separate,
\* self-contained write" (subscribers.py:8-10, 36-39).
DefaultsTogether == \A o \in OwnerIds : Seeded(o) \in {{}, DefaultsOf(o)}

\* "A handler never reacts to work that rolled back" (ports.py:72-73,
\* unit_of_work.py:58-63): what was published happened.
PublishedHappened == published \subseteq DOMAIN owners

\* A registration that succeeds leaves the owner with all the categories: the
\* bus lets no failure of the handler pass (event_bus.py:39-42).
SignedInWithCategories ==
    \A r \in Requests : session[r].pc = "issue" =>
                         Seeded(session[r].owner) = DefaultsOf(session[r].owner)

\* A preference changes to what a request asked for it, when that request is
\* done, and at no other time: two changes that overlap do not undo each other
\* (owners.py:92-106).
PreferencesKept ==
    [][\A o \in DOMAIN owners : \A column \in {"calendar", "language"} :
          owners'[o][column] # owners[o][column] =>
              \E r \in Requests : /\ session[r].pc = "commit_preferences"
                                  /\ session'[r] = Idle
                                  /\ session[r].cmd.owner = o
                                  /\ session[r].cmd[column] = owners'[o][column]]_owners

\* "Registering seeds the ten default categories": once nobody registers it any
\* more, an account has them (identity/presentation/router.py:29).
AccountsHaveCategories ==
    \A o \in DOMAIN owners :
        (\A r \in Requests : session[r].owner # o) => Seeded(o) = DefaultsOf(o)
=============================================================================
