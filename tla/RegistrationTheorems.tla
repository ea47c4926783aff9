------------------------ MODULE RegistrationTheorems ------------------------
(***************************************************************************)
(* What registration guarantees, for any requests, emails, default list    *)
(* and commands, under any interleaving, failed commit or crash.           *)
(***************************************************************************)
EXTENDS Registration, TLAPS

\* What the next statement of a session relies on.
Steady(s) ==
    /\ s.pc # "idle" => /\ s.cmd \in Commands
                        /\ s.cmd.op # "register" => s.cmd.owner \in DOMAIN owners
    /\ s.pc = "email_exists" => s.cmd.op = "register"
    /\ s.pc \in {"add", "commit_owner"} => s.now \in OwnerRow
    /\ s.pc \in {"email_exists", "add", "commit_owner", "publish"} => s.added = {}
    /\ s.pc = "commit_owner" =>
          /\ s.owner \in OwnerIds \ DOMAIN owners
          /\ \A o \in DOMAIN owners : owners[o].email # s.now.email
    /\ s.pc \in {"publish", "seed", "issue"} => s.owner \in DOMAIN owners
    /\ s.pc = "seed" => s.added \subseteq DefaultsOf(s.owner)
    /\ s.pc = "issue" => Seeded(s.owner) = DefaultsOf(s.owner)
    /\ s.pc \in {"get", "commit_preferences"} => s.cmd.op = "update_preferences"
    /\ s.pc = "commit_preferences" => /\ s.seen \in OwnerRow /\ s.now \in OwnerRow
                                      /\ s.now.email = s.seen.email
    /\ s.pc \in {"list_for_owner", "add_category", "commit_category"} =>
          s.cmd.op = "create_category"
    /\ s.pc = "commit_category" =>
          s.added \subseteq [owner : DOMAIN owners, key : Keys, is_default : {FALSE}]

\* The flushed accounts of two sessions differ in id and email.
Apart(s, t) ==
    s.pc = "commit_owner" /\ t.pc = "commit_owner" =>
        s.owner # t.owner /\ s.now.email # t.now.email

IInv == /\ TypeOK
        /\ OneAccountPerEmail
        /\ DefaultsTogether
        /\ PublishedHappened
        /\ \A r \in Requests : Steady(session[r])
        /\ \A q, r \in Requests : q # r => Apart(session[q], session[r])

\* A closed session relies on nothing.
LEMMA IdleIsSteady == Idle \in Session /\ Steady(Idle) /\ Idle.pc = "idle"
  BY DEF Idle, Session, Steady

\* The rows of the default list are category rows of their owner.
LEMMA DefaultRows ==
  ASSUME NEW o \in OwnerIds
  PROVE  /\ DefaultsOf(o) \subseteq CategoryRow
         /\ \A c \in DefaultsOf(o) : c.owner = o /\ c.is_default /\ c.key \in Keys
  <1>1. ASSUME NEW i \in 1..Len(Defaults) PROVE Defaults[i] \in Keys
    BY <1>1, DefaultsAssumption
  <1>2. ASSUME NEW c \in DefaultsOf(o)
        PROVE  c \in CategoryRow /\ c.owner = o /\ c.is_default /\ c.key \in Keys
    <2>1. PICK i \in 1..Len(Defaults) : c = DefaultRow(o, i)
      BY DEF DefaultsOf
    <2> QED BY <2>1, <1>1 DEF DefaultRow, CategoryRow
  <1> QED BY <1>2

\* At the start there are no rows, and every session is idle.
LEMMA Initially == Init => IInv
  <1> SUFFICES ASSUME Init PROVE IInv
    OBVIOUS
  <1>1. TypeOK
    BY IdleIsSteady DEF Init, TypeOK
  <1>2. OneAccountPerEmail /\ DefaultsTogether /\ PublishedHappened
    BY DEF Init, OneAccountPerEmail, DefaultsTogether, Seeded, PublishedHappened
  <1>3. \A r \in Requests : session[r] = Idle
    BY DEF Init
  <1>4. \A r \in Requests : Steady(session[r])
    BY <1>3, IdleIsSteady
  <1>5. \A q, r \in Requests : Apart(session[q], session[r])
    BY <1>3, IdleIsSteady DEF Apart
  <1> QED BY <1>1, <1>2, <1>4, <1>5 DEF IInv

\* A session that goes on without touching the rows.
LEMMA Continuing ==
  ASSUME IInv, NEW r \in Requests, NEW t \in Session, Steady(t), Continue(r, t),
         \A q \in Requests \ {r} : Apart(session[q], t) /\ Apart(t, session[q])
  PROVE  IInv'
  <1>1. /\ session \in [Requests -> Session]
        /\ session' = [session EXCEPT ![r] = t]
        /\ owners' = owners /\ categories' = categories /\ published' = published
    BY DEF IInv, TypeOK, Continue
  <1>2. TypeOK'
    BY <1>1 DEF IInv, TypeOK
  <1>3. (OneAccountPerEmail /\ DefaultsTogether /\ PublishedHappened)'
    BY <1>1 DEF IInv, OneAccountPerEmail, DefaultsTogether, PublishedHappened, Seeded
  <1>4. ASSUME NEW q \in Requests PROVE Steady(session[q])'
    <2>1. Steady(session'[q])
      BY <1>1 DEF IInv
    <2> QED BY <2>1, <1>1 DEF Steady, Seeded
  <1>5. ASSUME NEW p \in Requests, NEW q \in Requests, p # q
        PROVE  Apart(session[p], session[q])'
    <2>1. Apart(session'[p], session'[q])
      BY <1>1, <1>5 DEF IInv
    <2> QED BY <2>1 DEF Apart
  <1> QED BY <1>2, <1>3, <1>4, <1>5 DEF IInv

\* Ending a session, whatever the reason.
LEMMA Ending == ASSUME IInv, NEW r \in Requests, End(r) PROVE IInv'
  BY IdleIsSteady, Continuing DEF End, Apart

\* A session that goes on to a statement other than the commit of an account.
LEMMA Advancing ==
  ASSUME IInv, NEW r \in Requests, NEW t \in Session, Steady(t), Continue(r, t),
         t.pc # "commit_owner"
  PROVE  IInv'
  BY Continuing DEF Apart

\* Arrivals, and the statements that only read or only flush.
LEMMA Beginning ==
  ASSUME IInv, NEW r \in Requests, NEW c \in Commands, begin(r, c) PROVE IInv'
  <1> DEFINE t == [Idle EXCEPT !.cmd = c, !.pc = first(c)]
  <1>1. c.op \in Ops /\ (c.op # "register" => c.owner \in DOMAIN owners)
    BY CommandAssumption DEF begin, Command
  <1>2. /\ t \in Session /\ Steady(t) /\ t.pc # "commit_owner"
    BY <1>1, IdleIsSteady DEF Idle, Session, Steady, first, Ops
  <1>3. Continue(r, t)
    BY DEF begin, Continue
  <1> HIDE DEF t
  <1> QED BY <1>2, <1>3, Advancing

\* The check for the email: the account at hand is the row the command asks for.
LEMMA Checking ==
  ASSUME IInv, NEW r \in Requests, email_exists(r) PROVE IInv'
  <1> DEFINE s == session[r]
             row == NewOwner(s.cmd)
             t == [s EXCEPT !.pc = "add", !.now = row]
  <1>1. s \in Session /\ Steady(s) /\ s.pc = "email_exists"
    BY DEF IInv, TypeOK, email_exists
  <1>2. row \in OwnerRow
    BY <1>1, CommandAssumption, AddressAssumption DEF Steady, Command, OwnerRow, EmailAddress,
                                                      NewOwner
  <1>3. t \in Session /\ t.pc = "add" /\ t.now = row /\ t.cmd = s.cmd /\ t.added = s.added
    <2> HIDE DEF row
    <2> QED BY <1>1, <1>2 DEF Session
  <1>4. Steady(t)
    <2> HIDE DEF row, t
    <2> QED BY <1>1, <1>2, <1>3 DEF Steady
  <1>5. End(r) \/ Continue(r, t)
    BY DEF email_exists
  <1> HIDE DEF row, t
  <1> QED BY <1>3, <1>4, <1>5, Advancing, Ending

\* The flush of an account: nobody has its email, nobody else has flushed it.
LEMMA Adding ==
  ASSUME IInv, NEW r \in Requests, add(r) PROVE IInv'
  <1> DEFINE s == session[r]
  <1>1. s \in Session /\ Steady(s) /\ s.pc = "add"
    BY DEF IInv, TypeOK, add
  <1>2. CASE End(r)
    BY <1>2, Ending
  <1>3. CASE ~End(r)
    <2>1. PICK o \in Unused : Continue(r, [s EXCEPT !.pc = "commit_owner", !.owner = o])
      BY <1>3 DEF add
    <2>2. /\ ~EmailHeld(r, s.now.email)
          /\ \A p \in DOMAIN owners : owners[p].email # s.now.email
      BY <1>3 DEF add
    <2> DEFINE t == [s EXCEPT !.pc = "commit_owner", !.owner = o]
    <2>3. /\ t \in Session /\ t.pc = "commit_owner" /\ t.owner = o /\ t.now = s.now
          /\ t.cmd = s.cmd /\ t.added = s.added
      BY <1>1 DEF Session, Unused
    <2>4. Continue(r, t)
      BY <2>1
    <2> HIDE DEF t
    <2>5. Steady(t)
      BY <1>1, <2>2, <2>3 DEF Steady, Unused
    <2>6. \A q \in Requests \ {r} : Apart(session[q], t) /\ Apart(t, session[q])
      BY <2>2, <2>3 DEF Apart, EmailHeld, Unused
    <2> QED BY <2>3, <2>4, <2>5, <2>6, Continuing
  <1> QED BY <1>2, <1>3

\* The account is committed, or the database refuses it.
LEMMA CommittingOwner ==
  ASSUME IInv, NEW r \in Requests, commit_owner(r) PROVE IInv'
  <1> DEFINE s == session[r]
             t == [s EXCEPT !.pc = "publish"]
  <1>1. s \in Session /\ Steady(s) /\ s.pc = "commit_owner"
    BY DEF IInv, TypeOK, commit_owner
  <1>2. /\ s.owner \in OwnerIds \ DOMAIN owners /\ s.now \in OwnerRow /\ s.added = {}
        /\ \A o \in DOMAIN owners : owners[o].email # s.now.email
    BY <1>1 DEF Steady
  <1>3. CASE End(r)
    BY <1>3, Ending
  <1>4. CASE ~End(r)
    <2>1. /\ owners' = [o \in DOMAIN owners \cup {s.owner} |->
                           IF o = s.owner THEN s.now ELSE owners[o]]
          /\ session' = [session EXCEPT ![r] = t]
          /\ categories' = categories /\ published' = published
      BY <1>4 DEF commit_owner
    <2>2. /\ t \in Session /\ t.pc = "publish" /\ t.owner = s.owner /\ t.cmd = s.cmd
          /\ t.added = {} /\ t.now = s.now
      BY <1>1, <1>2 DEF Session
    <2>3. /\ DOMAIN owners' = DOMAIN owners \cup {s.owner}
          /\ owners'[s.owner] = s.now
          /\ \A o \in DOMAIN owners : owners'[o] = owners[o]
      BY <2>1, <1>2
    <2>4. session \in [Requests -> Session]
      BY DEF IInv, TypeOK
    <2> HIDE DEF t
    <2>5. TypeOK'
      BY <1>2, <2>1, <2>2, <2>3, <2>4 DEF IInv, TypeOK
    <2>6. OneAccountPerEmail'
      BY <1>2, <2>3 DEF IInv, OneAccountPerEmail
    <2>7. DefaultsTogether' /\ PublishedHappened'
      BY <2>1, <2>3 DEF IInv, DefaultsTogether, PublishedHappened, Seeded
    <2>8. ASSUME NEW q \in Requests PROVE Steady(session[q])'
      <3>1. CASE q = r
        <4>1. session'[q] = t /\ Steady(s)
          BY <3>1, <2>1, <2>4, <1>1
        <4> QED BY <4>1, <2>2, <2>3, <1>1 DEF Steady
      <3>2. CASE q # r
        <4>1. session'[q] = session[q] /\ Steady(session[q]) /\ Apart(session[q], s)
          BY <3>2, <2>1, <2>4 DEF IInv
        <4>2. Seeded(session[q].owner)' = Seeded(session[q].owner)
          BY <4>1, <2>1 DEF Seeded
        <4>3. session[q].pc = "commit_owner" =>
                 /\ session[q].owner \in OwnerIds \ DOMAIN owners'
                 /\ \A o \in DOMAIN owners' : owners'[o].email # session[q].now.email
          BY <4>1, <2>3, <1>1 DEF Steady, Apart
        <4>4. [owner : DOMAIN owners, key : Keys, is_default : {FALSE}]
                 \subseteq [owner : DOMAIN owners', key : Keys, is_default : {FALSE}]
          BY <2>3
        <4> QED BY <4>1, <4>2, <4>3, <4>4, <2>3 DEF Steady
      <3> QED BY <3>1, <3>2
    <2>9. ASSUME NEW p \in Requests, NEW q \in Requests, p # q
          PROVE  Apart(session[p], session[q])'
      BY <2>9, <2>1, <2>2, <2>4 DEF IInv, Apart
    <2> QED BY <2>5, <2>6, <2>7, <2>8, <2>9 DEF IInv
  <1> QED BY <1>3, <1>4

\* What is published was committed by this very session.
LEMMA Publishing ==
  ASSUME IInv, NEW r \in Requests, publish(r) PROVE IInv'
  <1> DEFINE s == session[r]
             t == [s EXCEPT !.pc = "seed"]
  <1>1. s \in Session /\ Steady(s) /\ s.pc = "publish" /\ s.owner \in DOMAIN owners
    BY DEF IInv, TypeOK, publish, Steady
  <1>2. /\ t \in Session /\ t.pc = "seed" /\ t.owner = s.owner /\ t.cmd = s.cmd
        /\ t.added = {}
    BY <1>1 DEF Session, Steady
  <1>3. /\ owners' = owners /\ categories' = categories
        /\ published' = published \cup {s.owner}
        /\ session' = [session EXCEPT ![r] = t]
    BY DEF publish
  <1>4. session \in [Requests -> Session] /\ DOMAIN owners \subseteq OwnerIds
    BY DEF IInv, TypeOK
  <1> HIDE DEF t
  <1>5. Steady(t)
    BY <1>1, <1>2 DEF Steady
  <1>6. TypeOK'
    BY <1>1, <1>2, <1>3, <1>4 DEF IInv, TypeOK
  <1>7. (OneAccountPerEmail /\ DefaultsTogether /\ PublishedHappened)'
    BY <1>1, <1>3 DEF IInv, OneAccountPerEmail, DefaultsTogether, PublishedHappened, Seeded
  <1>8. ASSUME NEW q \in Requests PROVE Steady(session[q])'
    <2>1. Steady(session'[q])
      BY <1>3, <1>4, <1>5 DEF IInv
    <2> QED BY <2>1, <1>3 DEF Steady, Seeded
  <1>9. ASSUME NEW p \in Requests, NEW q \in Requests, p # q
        PROVE  Apart(session[p], session[q])'
    BY <1>9, <1>2, <1>3, <1>4 DEF IInv, Apart
  <1> QED BY <1>6, <1>7, <1>8, <1>9 DEF IInv

\* One default category is flushed; what is flushed stays within the owner's defaults.
LEMMA SeedingOne ==
  ASSUME IInv, NEW r \in Requests, seed(r) PROVE IInv'
  <1> DEFINE s == session[r]
             t(i) == [s EXCEPT !.added = @ \cup {DefaultRow(s.owner, i)}]
  <1>1. /\ s \in Session /\ Steady(s) /\ s.pc = "seed" /\ s.owner \in OwnerIds
        /\ s.added \subseteq DefaultsOf(s.owner)
    BY DEF IInv, TypeOK, seed, Steady
  <1>2. CASE End(r)
    BY <1>2, Ending
  <1>3. CASE ~End(r)
    <2>1. PICK i \in 1..Len(Defaults) : Continue(r, t(i))
      BY <1>3 DEF seed
    <2>2. DefaultRow(s.owner, i) \in DefaultsOf(s.owner)
      BY DEF DefaultsOf
    <2>3. DefaultsOf(s.owner) \subseteq CategoryRow
      BY <1>1, DefaultRows
    <2>4. /\ t(i) \in Session /\ t(i).pc = "seed" /\ t(i).owner = s.owner
          /\ t(i).cmd = s.cmd /\ t(i).added \subseteq DefaultsOf(s.owner)
      BY <1>1, <2>2, <2>3 DEF Session
    <2> HIDE DEF t
    <2>5. Steady(t(i))
      BY <1>1, <2>4 DEF Steady
    <2> QED BY <2>1, <2>4, <2>5, Advancing
  <1> QED BY <1>2, <1>3

\* The handler's commit makes all the defaults of one owner appear at once.
LEMMA CommittingSeed ==
  ASSUME IInv, NEW r \in Requests, commit_seed(r) PROVE IInv'
  <1> DEFINE s == session[r]
             t == [s EXCEPT !.pc = "issue", !.added = {}]
  <1>1. /\ s \in Session /\ Steady(s) /\ s.pc = "seed" /\ Remaining(s) = {}
        /\ s.owner \in DOMAIN owners /\ s.owner \in OwnerIds
    BY DEF IInv, TypeOK, commit_seed, Steady
  <1>2. s.added = DefaultsOf(s.owner)
    BY <1>1 DEF Steady, Remaining, DefaultsOf
  <1>3. /\ owners' = owners /\ published' = published
        /\ categories' = categories \cup DefaultsOf(s.owner)
        /\ session' = [session EXCEPT ![r] = t]
    BY <1>2 DEF commit_seed
  <1>4. /\ t \in Session /\ t.pc = "issue" /\ t.owner = s.owner /\ t.cmd = s.cmd
        /\ t.added = {}
    BY <1>1 DEF Session
  <1>5. session \in [Requests -> Session]
    BY DEF IInv, TypeOK
  <1>6. \A c \in DefaultsOf(s.owner) :
           c \in CategoryRow /\ c.owner = s.owner /\ c.is_default
    BY <1>1, DefaultRows
  <1> HIDE DEF t
  <1>7. TypeOK'
    <2>1. categories' \subseteq [owner : DOMAIN owners, key : Keys, is_default : BOOLEAN]
      BY <1>1, <1>3, <1>6 DEF IInv, TypeOK, CategoryRow
    <2> QED BY <1>3, <1>4, <1>5, <2>1 DEF IInv, TypeOK
  <1>8. PICK o \in OwnerIds : o = s.owner
    BY <1>1
  <1>9. Seeded(o)' = DefaultsOf(o)
    <2>1. Seeded(o) \in {{}, DefaultsOf(o)}
      BY DEF IInv, DefaultsTogether
    <2>2. Seeded(o)' = Seeded(o) \cup DefaultsOf(o)
      BY <1>3, <1>6, <1>8 DEF Seeded
    <2> QED BY <2>1, <2>2
  <1>10. ASSUME NEW p \in OwnerIds, p # o PROVE Seeded(p)' = Seeded(p)
    BY <1>3, <1>6, <1>8, <1>10 DEF Seeded
  <1>11. (OneAccountPerEmail /\ DefaultsTogether /\ PublishedHappened)'
    <2>1. DefaultsTogether'
      <3> SUFFICES ASSUME NEW p \in OwnerIds PROVE Seeded(p)' \in {{}, DefaultsOf(p)}
        BY DEF DefaultsTogether, DefaultsOf, DefaultRow
      <3> QED BY <1>9, <1>10 DEF IInv, DefaultsTogether
    <2> QED BY <2>1, <1>3 DEF IInv, OneAccountPerEmail, PublishedHappened
  <1>12. ASSUME NEW q \in Requests PROVE Steady(session[q])'
    <2>1. CASE q = r
      <3>1. session'[q] = t /\ t.owner = o
        BY <2>1, <1>3, <1>4, <1>5, <1>8
      <3>2. Seeded(session[q].owner)' = DefaultsOf(session[q].owner)'
        BY <3>1, <1>9 DEF DefaultsOf, DefaultRow
      <3> QED BY <3>1, <3>2, <1>1, <1>3, <1>4 DEF Steady
    <2>2. CASE q # r
      <3>1. session'[q] = session[q] /\ Steady(session[q])
        BY <2>2, <1>3, <1>5 DEF IInv
      <3>2. ASSUME session[q].pc = "issue"
            PROVE  Seeded(session[q].owner)' = DefaultsOf(session[q].owner)
        <4>1. PICK p \in OwnerIds : p = session[q].owner
          BY <3>1, <3>2 DEF Steady, IInv, TypeOK
        <4>2. Seeded(p) = DefaultsOf(p)
          BY <3>1, <3>2, <4>1 DEF Steady
        <4>3. Seeded(p)' = DefaultsOf(p)
          BY <4>2, <1>9, <1>10
        <4> QED BY <3>1, <4>1, <4>3
      <3> QED BY <3>1, <3>2, <1>3 DEF Steady, DefaultsOf, DefaultRow
    <2> QED BY <2>1, <2>2
  <1>13. ASSUME NEW p \in Requests, NEW q \in Requests, p # q
         PROVE  Apart(session[p], session[q])'
    BY <1>13, <1>3, <1>4, <1>5 DEF IInv, Apart
  <1> QED BY <1>7, <1>11, <1>12, <1>13 DEF IInv

\* A change of preferences is made to the row as it was loaded, whose email it keeps.
LEMMA Getting ==
  ASSUME IInv, NEW r \in Requests, get(r) PROVE IInv'
  <1> DEFINE s   == session[r]
             row == owners[s.cmd.owner]
             t   == [s EXCEPT !.pc = "commit_preferences", !.seen = row,
                              !.now = Preferred(row, s.cmd)]
  <1>1. /\ s \in Session /\ Steady(s) /\ s.pc = "get"
        /\ s.cmd \in Command /\ s.cmd.op = "update_preferences"
        /\ s.cmd.owner \in DOMAIN owners
    BY CommandAssumption DEF IInv, TypeOK, get, Steady
  <1>2. row \in OwnerRow
    BY <1>1 DEF IInv, TypeOK
  <1>3. Preferred(row, s.cmd) \in OwnerRow /\ Preferred(row, s.cmd).email = row.email
    <2> HIDE DEF row
    <2> QED BY <1>1, <1>2 DEF Preferred, OwnerRow, Command
  <1> HIDE DEF row
  <1>4. /\ t \in Session /\ t.pc = "commit_preferences" /\ t.cmd = s.cmd
        /\ t.seen = row /\ t.now = Preferred(row, s.cmd)
    BY <1>1, <1>2, <1>3 DEF Session
  <1>5. Continue(r, t)
    BY DEF get, row
  <1> HIDE DEF t
  <1>6. Steady(t)
    BY <1>1, <1>2, <1>3, <1>4 DEF Steady
  <1> QED BY <1>4, <1>5, <1>6, Advancing

\* What differs from the row as it was loaded is never the email.
LEMMA CommittingPreferences ==
  ASSUME IInv, NEW r \in Requests, commit_preferences(r) PROVE IInv'
  <1> DEFINE s   == session[r]
             o   == s.cmd.owner
             row == update_model(s, owners[o])
  <1>1. /\ s \in Session /\ Steady(s) /\ s.pc = "commit_preferences"
        /\ s.cmd.op = "update_preferences" /\ o \in DOMAIN owners
        /\ s.seen \in OwnerRow /\ s.now \in OwnerRow /\ s.now.email = s.seen.email
    BY DEF IInv, TypeOK, commit_preferences, Steady
  <1>2. /\ owners' = [owners EXCEPT ![o] = row]
        /\ session' = [session EXCEPT ![r] = Idle]
        /\ categories' = categories /\ published' = published
    BY DEF commit_preferences
  <1>3. owners[o] \in OwnerRow /\ session \in [Requests -> Session]
    BY <1>1 DEF IInv, TypeOK
  <1>4. row \in OwnerRow /\ row.email = owners[o].email
    BY <1>1, <1>3 DEF update_model, OwnerRow
  <1> HIDE DEF row
  <1>5. /\ DOMAIN owners' = DOMAIN owners
        /\ \A p \in DOMAIN owners : /\ owners'[p].email = owners[p].email
                                    /\ owners'[p] \in OwnerRow
    BY <1>1, <1>2, <1>4 DEF IInv, TypeOK
  <1>6. TypeOK'
    BY <1>2, <1>3, <1>5, IdleIsSteady DEF IInv, TypeOK
  <1>7. (OneAccountPerEmail /\ DefaultsTogether /\ PublishedHappened)'
    BY <1>2, <1>5 DEF IInv, OneAccountPerEmail, DefaultsTogether, PublishedHappened, Seeded
  <1>8. ASSUME NEW q \in Requests PROVE Steady(session[q])'
    <2>1. Steady(session'[q])
      BY <1>2, <1>3, IdleIsSteady DEF IInv
    <2> QED BY <2>1, <1>2, <1>5 DEF Steady, Seeded
  <1>9. ASSUME NEW p \in Requests, NEW q \in Requests, p # q
        PROVE  Apart(session[p], session[q])'
    BY <1>9, <1>2, <1>3, IdleIsSteady DEF IInv, Apart
  <1> QED BY <1>6, <1>7, <1>8, <1>9 DEF IInv

\* The check for the category's name reads, and changes no row.
LEMMA Listing ==
  ASSUME IInv, NEW r \in Requests, list_for_owner(r) PROVE IInv'
  <1> DEFINE s == session[r]
             t == [s EXCEPT !.pc = "add_category"]
  <1>1. s \in Session /\ Steady(s) /\ s.pc = "list_for_owner"
    BY DEF IInv, TypeOK, list_for_owner
  <1>2. t \in Session /\ t.pc = "add_category" /\ t.cmd = s.cmd
    BY <1>1 DEF Session
  <1>3. End(r) \/ Continue(r, t)
    BY DEF list_for_owner
  <1> HIDE DEF t
  <1>4. Steady(t)
    BY <1>1, <1>2 DEF Steady
  <1> QED BY <1>2, <1>3, <1>4, Advancing, Ending

\* The flush of a category of the owner's own, which is no default.
LEMMA AddingCategory ==
  ASSUME IInv, NEW r \in Requests, add_category(r) PROVE IInv'
  <1> DEFINE s   == session[r]
             row == [owner |-> s.cmd.owner, key |-> s.cmd.key, is_default |-> FALSE]
             t   == [s EXCEPT !.pc = "commit_category", !.added = {row}]
  <1>1. /\ s \in Session /\ Steady(s) /\ s.pc = "add_category"
        /\ s.cmd.op = "create_category" /\ s.cmd.owner \in DOMAIN owners
        /\ s.cmd \in Commands /\ DOMAIN owners \subseteq OwnerIds
    BY DEF IInv, TypeOK, add_category, Steady
  <1>2. s.cmd.key \in Keys
    BY <1>1, CommandAssumption DEF Command
  <1>3. /\ row \in [owner : DOMAIN owners, key : Keys, is_default : {FALSE}]
        /\ row \in CategoryRow
    BY <1>1, <1>2 DEF CategoryRow
  <1> HIDE DEF row
  <1>4. t \in Session /\ t.pc = "commit_category" /\ t.cmd = s.cmd /\ t.added = {row}
    BY <1>1, <1>3 DEF Session
  <1>5. End(r) \/ Continue(r, t)
    BY DEF add_category, row
  <1> HIDE DEF t
  <1>6. Steady(t)
    BY <1>1, <1>3, <1>4 DEF Steady
  <1> QED BY <1>4, <1>5, <1>6, Advancing, Ending

\* A category of one's own is no default, and leaves those that are alone.
LEMMA CommittingCategory ==
  ASSUME IInv, NEW r \in Requests, commit_category(r) PROVE IInv'
  <1> DEFINE s == session[r]
  <1>1. /\ Steady(s) /\ s.pc = "commit_category"
        /\ s.added \subseteq [owner : DOMAIN owners, key : Keys, is_default : {FALSE}]
    BY DEF IInv, commit_category, Steady
  <1>2. /\ owners' = owners /\ published' = published
        /\ categories' = categories \cup s.added
        /\ session' = [session EXCEPT ![r] = Idle]
    BY DEF commit_category
  <1>3. session \in [Requests -> Session]
    BY DEF IInv, TypeOK
  <1>4. TypeOK'
    <2>1. categories' \subseteq [owner : DOMAIN owners, key : Keys, is_default : BOOLEAN]
      BY <1>1, <1>2 DEF IInv, TypeOK
    <2> QED BY <1>2, <1>3, <2>1, IdleIsSteady DEF IInv, TypeOK
  <1>5. \A o : Seeded(o)' = Seeded(o)
    BY <1>1, <1>2 DEF Seeded
  <1>6. (OneAccountPerEmail /\ DefaultsTogether /\ PublishedHappened)'
    BY <1>2, <1>5 DEF IInv, OneAccountPerEmail, DefaultsTogether, PublishedHappened,
                      DefaultsOf, DefaultRow
  <1>7. ASSUME NEW q \in Requests PROVE Steady(session[q])'
    <2>1. Steady(session'[q])
      BY <1>2, <1>3, IdleIsSteady DEF IInv
    <2> QED BY <2>1, <1>2, <1>5 DEF Steady, DefaultsOf, DefaultRow
  <1>8. ASSUME NEW p \in Requests, NEW q \in Requests, p # q
        PROVE  Apart(session[p], session[q])'
    BY <1>8, <1>2, <1>3, IdleIsSteady DEF IInv, Apart
  <1> QED BY <1>4, <1>6, <1>7, <1>8 DEF IInv

\* Every step of every request keeps the invariant.
LEMMA Stepping == IInv /\ [Next]_vars => IInv'
  <1> SUFFICES ASSUME IInv, [Next]_vars PROVE IInv'
    OBVIOUS
  <1>1. CASE UNCHANGED vars
    <2>1. /\ owners' = owners /\ categories' = categories
          /\ published' = published /\ session' = session
      BY <1>1 DEF vars
    <2>2. (TypeOK /\ OneAccountPerEmail /\ PublishedHappened)'
      BY <2>1 DEF IInv, TypeOK, OneAccountPerEmail, PublishedHappened
    <2>3. DefaultsTogether'
      BY <2>1 DEF IInv, DefaultsTogether, Seeded
    <2>4. ASSUME NEW q \in Requests PROVE Steady(session[q])'
      <3>1. Steady(session[q])
        BY DEF IInv
      <3> QED BY <3>1, <2>1 DEF Steady, Seeded
    <2>5. ASSUME NEW p \in Requests, NEW q \in Requests, p # q
          PROVE  Apart(session[p], session[q])'
      BY <2>1, <2>5 DEF IInv, Apart
    <2> QED BY <2>2, <2>3, <2>4, <2>5 DEF IInv
  <1>2. ASSUME NEW r \in Requests, NEW c \in Commands, begin(r, c) PROVE IInv'
    BY <1>2, Beginning
  <1>3. ASSUME NEW r \in Requests, statement(r) PROVE IInv'
    <2>1. CASE email_exists(r) \/ add(r) \/ commit_owner(r) \/ publish(r)
      BY <2>1, Checking, Adding, CommittingOwner, Publishing
    <2>2. CASE seed(r) \/ commit_seed(r) \/ issue(r)
      BY <2>2, SeedingOne, CommittingSeed, Ending DEF issue
    <2>3. CASE get(r) \/ commit_preferences(r)
      BY <2>3, Getting, CommittingPreferences
    <2>4. CASE list_for_owner(r) \/ add_category(r) \/ commit_category(r)
      BY <2>4, Listing, AddingCategory, CommittingCategory
    <2> QED BY <1>3, <2>1, <2>2, <2>3, <2>4 DEF statement
  <1>4. ASSUME NEW r \in Requests, crash(r) PROVE IInv'
    BY <1>4, Ending DEF crash
  <1> QED BY <1>1, <1>2, <1>3, <1>4 DEF Next

\* Every state a behaviour reaches satisfies the invariant.
LEMMA Invariant == Spec => []IInv
  BY Initially, Stepping, PTL DEF Spec

\* No email ever has two accounts, however many requests race for it.
THEOREM UniqueAccounts == Spec => []OneAccountPerEmail
  <1>1. IInv => OneAccountPerEmail
    BY DEF IInv
  <1> QED BY <1>1, Invariant, PTL

\* An account has all the default categories or none, at every moment.
THEOREM SeedingIsAtomic == Spec => []DefaultsTogether
  <1>1. IInv => DefaultsTogether
    BY DEF IInv
  <1> QED BY <1>1, Invariant, PTL

\* No event is published for an account whose transaction did not commit.
THEOREM NothingReactsToALostAccount == Spec => []PublishedHappened
  <1>1. IInv => PublishedHappened
    BY DEF IInv
  <1> QED BY <1>1, Invariant, PTL

\* A registration that answers with a token has seeded the default categories.
THEOREM AnsweredMeansSeeded == Spec => []SignedInWithCategories
  <1>1. IInv => SignedInWithCategories
    BY DEF IInv, Steady, SignedInWithCategories
  <1> QED BY <1>1, Invariant, PTL

\* Rows and sessions keep their types, and categories belong to accounts there are.
THEOREM TypeCorrect == Spec => []TypeOK
  <1>1. IInv => TypeOK
    BY DEF IInv
  <1> QED BY <1>1, Invariant, PTL
-----------------------------------------------------------------------------
(* Preferences: an account changes as the requests ask, and not otherwise. *)

\* A session about to commit preferences holds the account it loaded, changed
\* as its command says.
AsAsked(s) == s.pc = "commit_preferences" => s.now = Preferred(s.seen, s.cmd)

PInv == IInv /\ \A r \in Requests : AsAsked(session[r])

\* Only `get` makes a session ready to commit preferences.
LEMMA OnlyGetPrepares ==
  ASSUME IInv, [Next]_vars, NEW q \in Requests, session'[q].pc = "commit_preferences"
  PROVE  session'[q] = session[q] \/ get(q)
  <1>1. session \in [Requests -> Session]
    BY DEF IInv, TypeOK
  <1>2. ASSUME NEW r \in Requests, NEW s, s.pc # "commit_preferences",
               session' = [session EXCEPT ![r] = s]
        PROVE  session'[q] = session[q]
    BY <1>1, <1>2
  <1>3. Idle.pc # "commit_preferences"
    BY DEF Idle
  <1>4. ASSUME NEW r \in Requests, NEW c \in Commands, begin(r, c)
        PROVE  session'[q] = session[q]
    <2> DEFINE s == [Idle EXCEPT !.cmd = c, !.pc = first(c)]
    <2>1. s.pc = first(c)
      BY DEF Idle
    <2>2. first(c) # "commit_preferences"
      BY CommandAssumption DEF first, Command, Ops
    <2>3. session' = [session EXCEPT ![r] = s]
      BY <1>4 DEF begin
    <2> HIDE DEF s
    <2> QED BY <1>2, <2>1, <2>2, <2>3
  <1>5. ASSUME NEW r \in Requests, End(r) PROVE session'[q] = session[q]
    BY <1>2, <1>3, <1>5 DEF End, Continue
  <1>6. ASSUME NEW r \in Requests, statement(r) PROVE session'[q] = session[q] \/ get(q)
    <2>1. session[r] \in Session
      BY <1>1
    <2>3. ASSUME NEW s, Continue(r, s), s.pc # "commit_preferences"
          PROVE  session'[q] = session[q]
      BY <1>2, <2>3 DEF Continue
    <2>4. CASE email_exists(r)
      <3>1. PICK row : \/ End(r)
                       \/ Continue(r, [session[r] EXCEPT !.pc = "add", !.now = row])
        BY <2>4 DEF email_exists
      <3>2. [session[r] EXCEPT !.pc = "add", !.now = row].pc = "add"
        BY <2>1 DEF Session
      <3> QED BY <1>5, <2>3, <3>1, <3>2
    <2>5. CASE add(r)
      <3>1. PICK o : \/ End(r)
                     \/ Continue(r, [session[r] EXCEPT !.pc = "commit_owner", !.owner = o])
        BY <2>5 DEF add
      <3>2. [session[r] EXCEPT !.pc = "commit_owner", !.owner = o].pc = "commit_owner"
        BY <2>1 DEF Session
      <3> QED BY <1>5, <2>3, <3>1, <3>2
    <2>6. CASE commit_owner(r) \/ publish(r)
      <3>1. \/ End(r)
            \/ session' = [session EXCEPT ![r] = [session[r] EXCEPT !.pc = "publish"]]
            \/ session' = [session EXCEPT ![r] = [session[r] EXCEPT !.pc = "seed"]]
        BY <2>6 DEF commit_owner, publish
      <3>2. /\ [session[r] EXCEPT !.pc = "publish"].pc = "publish"
            /\ [session[r] EXCEPT !.pc = "seed"].pc = "seed"
        BY <2>1 DEF Session
      <3> QED BY <1>2, <1>5, <3>1, <3>2
    <2>7. CASE seed(r)
      <3>1. PICK rows : \/ End(r)
                        \/ /\ Continue(r, [session[r] EXCEPT !.added = rows])
                           /\ session[r].pc = "seed"
        BY <2>7 DEF seed
      <3>2. [session[r] EXCEPT !.added = rows].pc = session[r].pc
        BY <2>1 DEF Session
      <3> QED BY <1>5, <2>3, <3>1, <3>2
    <2>8. CASE commit_seed(r)
      <3>1. session' = [session EXCEPT ![r] = [session[r] EXCEPT !.pc = "issue", !.added = {}]]
        BY <2>8 DEF commit_seed
      <3>2. [session[r] EXCEPT !.pc = "issue", !.added = {}].pc = "issue"
        BY <2>1 DEF Session
      <3> QED BY <1>2, <3>1, <3>2
    <2>9. CASE issue(r)
      BY <1>5, <2>9 DEF issue
    <2>10. CASE get(r)
      <3>1. PICK s : session' = [session EXCEPT ![r] = s]
        BY <2>10 DEF get, Continue
      <3> QED BY <1>1, <2>10, <3>1
    <2>11. CASE commit_preferences(r) \/ commit_category(r)
      BY <1>2, <1>3, <2>11 DEF commit_preferences, commit_category
    <2>12. CASE list_for_owner(r)
      <3>1. End(r) \/ Continue(r, [session[r] EXCEPT !.pc = "add_category"])
        BY <2>12 DEF list_for_owner
      <3>2. [session[r] EXCEPT !.pc = "add_category"].pc = "add_category"
        BY <2>1 DEF Session
      <3> QED BY <1>5, <2>3, <3>1, <3>2
    <2>13. CASE add_category(r)
      <3>1. PICK rows : \/ End(r)
                        \/ Continue(r, [session[r] EXCEPT !.pc = "commit_category",
                                                          !.added = rows])
        BY <2>13 DEF add_category
      <3>2. [session[r] EXCEPT !.pc = "commit_category", !.added = rows].pc = "commit_category"
        BY <2>1 DEF Session
      <3> QED BY <1>5, <2>3, <3>1, <3>2
    <2> QED BY <1>6, <2>4, <2>5, <2>6, <2>7, <2>8, <2>9, <2>10, <2>11, <2>12, <2>13
            DEF statement
  <1>7. ASSUME NEW r \in Requests, crash(r) PROVE session'[q] = session[q]
    BY <1>5, <1>7 DEF crash
  <1> QED BY <1>4, <1>6, <1>7 DEF Next, vars

LEMMA AsAskedStays == PInv /\ [Next]_vars => PInv'
  <1> SUFFICES ASSUME PInv, [Next]_vars PROVE PInv'
    OBVIOUS
  <1>1. IInv'
    BY Stepping DEF PInv
  <1>2. ASSUME NEW q \in Requests PROVE AsAsked(session[q])'
    <2>1. CASE session'[q].pc # "commit_preferences"
      BY <2>1 DEF AsAsked
    <2>2. CASE session'[q] = session[q]
      <3>1. AsAsked(session[q])
        BY DEF PInv
      <3> QED BY <2>2, <3>1 DEF AsAsked, Preferred
    <2>3. CASE get(q)
      <3>1. PICK row : session'[q] = [session[q] EXCEPT !.pc = "commit_preferences",
                                         !.seen = row, !.now = Preferred(row, session[q].cmd)]
        BY <2>3 DEF get, Continue, PInv, IInv, TypeOK
      <3>2. session[q] \in Session
        BY DEF PInv, IInv, TypeOK
      <3>3. /\ session'[q].seen = row /\ session'[q].cmd = session[q].cmd
            /\ session'[q].now = Preferred(row, session[q].cmd)
        BY <3>1, <3>2 DEF Session
      <3> QED BY <3>3 DEF AsAsked, Preferred
    <2> QED BY <2>1, <2>2, <2>3, OnlyGetPrepares DEF PInv
  <1> QED BY <1>1, <1>2 DEF PInv

\* Only two commits write an account: of a new one, which changes no other, and
\* of preferences.
LEMMA WhoWrites ==
  ASSUME IInv, [Next]_vars, owners' # owners, NEW o \in DOMAIN owners, owners'[o] # owners[o]
  PROVE  \E r \in Requests : commit_preferences(r) /\ session[r].cmd.owner = o
  <1>1. ASSUME NEW r, NEW s, Continue(r, s) PROVE FALSE
    BY <1>1 DEF Continue
  <1>2. ASSUME NEW r \in Requests, statement(r) PROVE commit_preferences(r) \/ commit_owner(r)
    BY <1>1, <1>2 DEF statement, email_exists, add, publish, seed, commit_seed, issue, get,
       list_for_owner, add_category, commit_category, End
  <1>3. ASSUME NEW r \in Requests, commit_owner(r) PROVE FALSE
    <2>1. session[r].owner \notin DOMAIN owners
      BY <1>3 DEF IInv, Steady, commit_owner
    <2> QED BY <1>1, <1>3, <2>1 DEF commit_owner, End
  <1>4. ASSUME NEW r \in Requests, commit_preferences(r) PROVE session[r].cmd.owner = o
    BY <1>4 DEF commit_preferences
  <1> QED BY <1>1, <1>2, <1>3, <1>4 DEF Next, vars, begin, crash, End

\* Whatever else changed since it was loaded, a preference changes to what a
\* request asked for it and nobody else's change of another one is undone.
THEOREM NobodyIsOverruled == Spec => PreferencesKept
  <1> DEFINE Kept == \A o \in DOMAIN owners : \A column \in {"calendar", "language"} :
                        owners'[o][column] # owners[o][column] =>
                            \E r \in Requests : /\ session[r].pc = "commit_preferences"
                                                /\ session'[r] = Idle
                                                /\ session[r].cmd.owner = o
                                                /\ session[r].cmd[column] = owners'[o][column]
  <1>1. ASSUME PInv, [Next]_vars, owners' # owners PROVE Kept
    <2> SUFFICES ASSUME NEW o \in DOMAIN owners, NEW column \in {"calendar", "language"},
                        owners'[o][column] # owners[o][column]
                 PROVE  \E r \in Requests : /\ session[r].pc = "commit_preferences"
                                            /\ session'[r] = Idle
                                            /\ session[r].cmd.owner = o
                                            /\ session[r].cmd[column] = owners'[o][column]
      OBVIOUS
    <2>1. PICK r \in Requests : commit_preferences(r) /\ session[r].cmd.owner = o
      BY <1>1, WhoWrites DEF PInv
    <2> DEFINE s == session[r]
    <2>2. /\ s.pc = "commit_preferences" /\ s.cmd.owner = o
          /\ owners'[o] = update_model(s, owners[o])
          /\ session'[r] = Idle
      BY <1>1, <2>1 DEF commit_preferences, PInv, IInv, TypeOK
    <2>3. s.now = Preferred(s.seen, s.cmd) /\ s.seen \in OwnerRow /\ owners[o] \in OwnerRow
      BY <1>1, <2>2 DEF PInv, AsAsked, IInv, Steady, TypeOK
    <2> HIDE DEF s
    <2>4. s.now[column] # s.seen[column] /\ owners'[o][column] = s.now[column]
      BY <2>2, <2>3 DEF update_model, OwnerRow
    <2>5. s.cmd[column] = s.now[column]
      <3>1. CASE column = "calendar"
        BY <2>3, <2>4, <3>1 DEF Preferred, OwnerRow
      <3>2. CASE column = "language"
        BY <2>3, <2>4, <3>2 DEF Preferred, OwnerRow
      <3> QED BY <3>1, <3>2
    <2> QED BY <2>2, <2>4, <2>5 DEF s
  <1>2. PInv /\ [Next]_vars => [Kept]_owners
    BY <1>1
  <1>3. Init => PInv
    <2>1. Init => \A r \in Requests : AsAsked(session[r])
      BY DEF Init, Idle, AsAsked
    <2> QED BY <2>1, Initially DEF PInv
  <1> QED BY <1>2, <1>3, AsAskedStays, PTL DEF Spec, PreferencesKept
=============================================================================
