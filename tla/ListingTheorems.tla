-------------------------- MODULE ListingTheorems --------------------------
(***************************************************************************)
(* What a client is shown that reads a list to its end, for any number of  *)
(* expenses, commands, queries and any length of a page.  The statement    *)
(* that cuts out a page sees only positions; the invariant says what the   *)
(* positions tell: as long as nobody writes anything into the list, what   *)
(* was shown is among its first `offset` rows (Once), and as long as       *)
(* nobody takes anything out of it, what was not shown is behind them      *)
(* (Through).  The position of a row is the number of rows ahead of it.    *)
(*                                                                         *)
(* What the client is told it adds up to is a fold over sets of any size.  *)
(* The section on sums says what a fold computes, by least counterexample: *)
(* if some number of elements broke the law there would be a least one,    *)
(* and one element fewer would not.                                        *)
(*                                                                         *)
(* What a month's report says of an item in a unit needs no such law: its  *)
(* WHERE clause finds what the list's does, and a group is all of that.    *)
(***************************************************************************)
EXTENDS Listing, FiniteSetTheorems, WellFoundedInduction, TLAPS

Recorded == {id \in Ids : expenses[id] # None}

Ahead(x, query) == {y \in Found(query) : before(y, x)}

Seen == {response.id : response \in walk.shown}

WalkFields == {"query", "pc", "offset", "page", "shown", "repeated", "totals",
               "steady", "grown", "shrunk"}

LTyped ==
    /\ expenses \in [Ids -> Row \cup {None}]
    /\ IsFiniteSet(Recorded)
    /\ currency \in Currencies
    /\ DOMAIN walk = WalkFields
    /\ walk.pc \in {"list", "count", "done", "failed"}
    /\ walk.offset \in Nat
    /\ walk.grown \in BOOLEAN /\ walk.shrunk \in BOOLEAN

\* Where the rows are that the client was shown, and those of the page in hand.
Once ==
    ~walk.grown =>
        /\ walk.repeated = {}
        /\ walk.pc \in {"list", "count"} =>
              \A x \in Seen \cap Found(walk.query) :
                  Cardinality(Ahead(x, walk.query)) < walk.offset
        /\ walk.pc = "count" =>
              /\ Seen \cap DOMAIN walk.page = {}
              /\ \A x \in DOMAIN walk.page \cap Found(walk.query) :
                    Cardinality(Ahead(x, walk.query)) < walk.offset + Limit

\* Where the rows are that stayed where they were, and have not been shown yet.
Through ==
    ~walk.shrunk =>
        /\ walk.pc = "list" =>
              \A x \in walk.steady \ Seen :
                  /\ x \in Found(walk.query)
                  /\ Cardinality(Ahead(x, walk.query)) >= walk.offset
        /\ walk.pc = "count" =>
              \A x \in walk.steady \ Seen :
                  /\ x \in Found(walk.query)
                  /\ \/ x \in DOMAIN walk.page
                     \/ Cardinality(Ahead(x, walk.query)) >= walk.offset + Limit
        /\ walk.pc = "done" => walk.steady \subseteq Seen

LInv == LTyped /\ Once /\ Through
-----------------------------------------------------------------------------
LEMMA LastDay == MaxOrdinal \in Nat
BY SMT DEF MaxOrdinal

\* A date that exists is stored as a date (spend_date.py:46-57).
LEMMA ParsedDate ==
    ASSUME NEW t \in Typed, Exists(t)
    PROVE  parse(t) \in 1..MaxOrdinal
<1>1. CASE t.calendar = Ethiopian
  <2>1. /\ t.date \in [year : Int, month : Int, day : Int]
        /\ validate_ethiopian_date(t.date)
        /\ ethiopian_to_gregorian(t.date) <= MaxOrdinal
    BY <1>1, TypedAssumption DEF Exists
  <2> DEFINE e == t.date
  <2>2. /\ e.year \in Int /\ e.month \in 1..13 /\ e.day \in Int
        /\ e.year >= 1 /\ e.day >= 1
    BY <2>1 DEF validate_ethiopian_date, ethiopian_month_length
  <2> HIDE DEF e
  <2>3. ethiopian_to_gregorian(e) \in Int /\ ethiopian_to_gregorian(e) >= 1
    BY <2>2 DEF ethiopian_to_gregorian, JDEpochOffsetAmeteMihret, GregorianOrdinalToJDN
  <2>. QED BY <1>1, <2>1, <2>3, LastDay DEF parse, e
<1>2. CASE t.calendar # Ethiopian
  BY <1>2, LastDay DEF Exists, parse
<1>. QED BY <1>1, <1>2

\* What is in a list has been recorded, on a day.
LEMMA Rows ==
    ASSUME LTyped, NEW query
    PROVE  /\ Found(query) \subseteq Recorded
           /\ IsFiniteSet(Found(query))
           /\ \A id \in Recorded :
                 id \in Nat /\ expenses[id] \in Row /\ expenses[id].spent_on \in Int
<1>1. Found(query) \subseteq Recorded
  BY DEF Found, Recorded
<1>2. IsFiniteSet(Found(query))
  BY <1>1, FS_Subset DEF LTyped
<1>3. ASSUME NEW id \in Recorded
      PROVE  id \in Nat /\ expenses[id] \in Row /\ expenses[id].spent_on \in Int
  BY <1>3, IdAssumption, LastDay DEF Recorded, LTyped, Row
<1>. QED BY <1>1, <1>2, <1>3

\* Newest first, the id as a tiebreaker, is an order in which no two rows tie
\* (repositories.py:135-137).
LEMMA Ordered ==
    ASSUME LTyped
    PROVE  /\ \A x \in Recorded : ~before(x, x)
           /\ \A x, y \in Recorded : x = y \/ before(x, y) \/ before(y, x)
           /\ \A x, y \in Recorded : ~(before(x, y) /\ before(y, x))
<1>1. \A id \in Recorded : id \in Nat /\ expenses[id].spent_on \in Int
  BY Rows
<1>. QED BY <1>1 DEF before

\* The rows ahead of one, of which it is none.
LEMMA Positions ==
    ASSUME LTyped, NEW query, NEW x
    PROVE  /\ Ahead(x, query) \subseteq Found(query)
           /\ IsFiniteSet(Ahead(x, query))
           /\ Cardinality(Ahead(x, query)) \in Nat
           /\ x \in Recorded => x \notin Ahead(x, query)
           /\ x \in Found(query) => Cardinality(Ahead(x, query)) < Cardinality(Found(query))
<1>1. IsFiniteSet(Found(query)) /\ Found(query) \subseteq Recorded
  BY Rows
<1>2. /\ Ahead(x, query) \subseteq Found(query)
      /\ IsFiniteSet(Ahead(x, query))
      /\ Cardinality(Ahead(x, query)) \in Nat
      /\ Cardinality(Ahead(x, query)) <= Cardinality(Found(query))
      /\ Cardinality(Found(query)) = Cardinality(Ahead(x, query))
            => Ahead(x, query) = Found(query)
      /\ Cardinality(Found(query)) \in Nat
  BY <1>1, FS_Subset, FS_CardinalityType DEF Ahead
<1>3. x \in Recorded => x \notin Ahead(x, query)
  BY Ordered DEF Ahead
<1>. QED BY <1>1, <1>2, <1>3

\* ORDER BY, OFFSET and LIMIT cut out the rows at the positions from `offset`
\* on, at most Limit of them, and no other (repositories.py:133-139).
LEMMA CutOut ==
    ASSUME LTyped, NEW query, NEW offset \in Nat,
           NEW page \in SUBSET Found(query), IsPage(page, Found(query), offset)
    PROVE  \A x \in Found(query) :
              /\ x \in page => /\ Cardinality(Ahead(x, query)) >= offset
                               /\ Cardinality(Ahead(x, query)) < offset + Limit
              /\ x \notin page /\ Cardinality(Ahead(x, query)) >= offset
                    => Cardinality(Ahead(x, query)) >= offset + Limit
<1> DEFINE F == Found(query)
<1>1. F \subseteq Recorded /\ IsFiniteSet(F) /\ Cardinality(F) \in Nat
  BY Rows, FS_CardinalityType
<1>2. PICK S \in SUBSET (F \ page) :
        /\ Leading(S, F) /\ Leading(S \cup page, F)
        /\ Cardinality(S) = Least(offset, Cardinality(F))
        /\ Cardinality(page) = Least(Limit, Cardinality(F) - Cardinality(S))
  BY DEF IsPage
<1> DEFINE T == S \cup page
<1>3. /\ IsFiniteSet(S) /\ Cardinality(S) \in Nat
      /\ Cardinality(S) = Cardinality(F) => S = F
      /\ IsFiniteSet(page) /\ Cardinality(page) \in Nat
      /\ IsFiniteSet(T) /\ Cardinality(T) = Cardinality(S) + Cardinality(page)
      /\ Cardinality(T) = Cardinality(F) => T = F
  <2>1. /\ IsFiniteSet(S) /\ Cardinality(S) \in Nat
        /\ Cardinality(S) = Cardinality(F) => S = F
    BY <1>1, <1>2, FS_Subset, FS_CardinalityType
  <2>2. IsFiniteSet(page) /\ Cardinality(page) \in Nat
    BY <1>1, FS_Subset, FS_CardinalityType
  <2>3. Cardinality(S \cap page) = 0
    <3>1. S \cap page = {}
      BY <1>2
    <3>. QED BY <3>1, FS_EmptySet
  <2>4. IsFiniteSet(T) /\ Cardinality(T) = Cardinality(S) + Cardinality(page)
    <3>1. /\ IsFiniteSet(S \cup page)
          /\ Cardinality(S \cup page)
               = Cardinality(S) + Cardinality(page) - Cardinality(S \cap page)
      BY <2>1, <2>2, FS_Union
    <3>. QED BY <2>1, <2>2, <2>3, <3>1
  <2>5. Cardinality(T) = Cardinality(F) => T = F
    BY <1>1, <1>2, FS_Subset
  <2>. QED BY <2>1, <2>2, <2>4, <2>5
<1>4. Limit \in Nat \ {0}
  BY LimitAssumption
<1> SUFFICES ASSUME NEW x \in F
             PROVE  /\ x \in page => /\ Cardinality(Ahead(x, query)) >= offset
                                     /\ Cardinality(Ahead(x, query)) < offset + Limit
                    /\ x \notin page /\ Cardinality(Ahead(x, query)) >= offset
                          => Cardinality(Ahead(x, query)) >= offset + Limit
  OBVIOUS
<1> DEFINE A == Ahead(x, query)
<1>5. /\ A \subseteq F /\ IsFiniteSet(A) /\ Cardinality(A) \in Nat /\ x \notin A
  BY <1>1, Positions
\* What a leading set leaves out is behind all of it, and what is in it has
\* nothing else ahead.
<1>6. /\ x \notin S => S \subseteq A
      /\ x \notin T => T \subseteq A
      /\ x \in S => A \subseteq S \ {x}
      /\ x \in T => A \subseteq T \ {x}
  BY <1>1, <1>2, <1>5, Ordered DEF Leading, Ahead
<1>7. \A B : IsFiniteSet(B) /\ A \subseteq B \ {x} /\ x \in B => Cardinality(A) < Cardinality(B)
  <2> TAKE B
  <2> HAVE IsFiniteSet(B) /\ A \subseteq B \ {x} /\ x \in B
  <2>1. A \in SUBSET B /\ A # B
    OBVIOUS
  <2>2. Cardinality(A) <= Cardinality(B) /\ Cardinality(A) # Cardinality(B)
    BY <2>1, FS_Subset
  <2>. QED BY <2>2, <1>5, FS_CardinalityType
<1>8. \A B : B \subseteq A => Cardinality(B) <= Cardinality(A)
  BY <1>5, FS_Subset
<1> HIDE DEF A, T, F
<1>9. CASE x \in page
  <2>1. x \notin S /\ x \in T
    BY <1>2, <1>9 DEF T
  <2>2. Cardinality(S) <= Cardinality(A) /\ Cardinality(A) < Cardinality(T)
    BY <1>3, <1>6, <1>7, <1>8, <2>1
  <2>3. Cardinality(S) = offset
    BY <1>1, <1>2, <1>3, <2>1 DEF Least
  <2>4. Cardinality(page) <= Limit
    BY <1>1, <1>2, <1>3, <1>4 DEF Least
  <2>. QED BY <1>3, <1>4, <1>5, <1>9, <2>2, <2>3, <2>4 DEF A
<1>10. CASE x \notin page /\ Cardinality(A) >= offset
  <2>1. x \notin S
    <3> SUFFICES ASSUME x \in S PROVE FALSE
      OBVIOUS
    <3>1. Cardinality(A) < Cardinality(S)
      BY <1>3, <1>6, <1>7
    <3>2. Cardinality(S) <= offset
      BY <1>1, <1>2 DEF Least
    <3>. QED BY <1>3, <1>5, <1>10, <3>1, <3>2
  <2>2. x \notin T
    BY <1>10, <2>1 DEF T
  <2>3. Cardinality(T) <= Cardinality(A)
    BY <1>6, <1>8, <2>2
  <2>4. Cardinality(S) = offset /\ Cardinality(T) # Cardinality(F)
    BY <1>1, <1>2, <1>3, <2>1, <2>2 DEF Least
  <2>5. Cardinality(page) = Limit
    BY <1>1, <1>2, <1>3, <1>4, <2>4 DEF Least
  <2>. QED BY <1>3, <1>4, <1>5, <1>10, <2>3, <2>4, <2>5 DEF A
<1>. QED BY <1>5, <1>9, <1>10 DEF A
-----------------------------------------------------------------------------
(* The writes.                                                             *)

\* One row is another one now, or none, and the walk under way takes notice.
Writes(id) == /\ expenses' \in [Ids -> Row \cup {None}]
              /\ \A j \in Ids \ {id} : expenses'[j] = expenses[j]
              /\ UNCHANGED currency
              /\ Noticed

LEMMA RecordWrites ==
    ASSUME LTyped, NEW id \in Ids, NEW c \in Purchases, record(id, c)
    PROVE  Writes(id)
<1>1. /\ c.spent_on \in Typed /\ c.amount \in Amounts
      /\ c.category_id \in Categories /\ c.line \in Lines \cup {None}
  BY CommandAssumption
<1>2. parse(c.spent_on) \in 1..MaxOrdinal
  BY <1>1, ParsedDate DEF record
<1>3. /\ expenses' = [expenses EXCEPT
                        ![id] = [spent_on |-> parse(c.spent_on), amount |-> c.amount,
                                 currency |-> currency, category_id |-> c.category_id,
                                 line |-> c.line]]
      /\ UNCHANGED currency /\ Noticed
  BY DEF record
<1>. QED BY <1>1, <1>2, <1>3 DEF Writes, LTyped, Row

LEMMA UpdateWrites ==
    ASSUME LTyped, NEW id \in Ids, NEW c \in Updates, update(id, c)
    PROVE  Writes(id)
<1>1. /\ c.spent_on \in Typed \cup {Keep} /\ c.amount \in Amounts \cup {Keep}
      /\ c.category_id \in Categories \cup {Keep} /\ c.line \in Lines \cup {None, Keep}
  BY CommandAssumption
<1>2. c.spent_on # Keep => parse(c.spent_on) \in 1..MaxOrdinal
  BY <1>1, ParsedDate DEF update
<1>3. expenses[id] \in Row
  BY DEF update, LTyped
<1> DEFINE row == [expenses[id] EXCEPT
                     !.spent_on = IF c.spent_on = Keep THEN @ ELSE parse(c.spent_on),
                     !.amount   = IF c.amount = Keep THEN @ ELSE c.amount,
                     !.category_id = IF c.category_id = Keep THEN @ ELSE c.category_id,
                     !.line     = IF c.line = Keep THEN @ ELSE c.line]
<1>4. row \in Row
  BY <1>1, <1>2, <1>3 DEF Row
<1>5. /\ expenses'[id] = row /\ expenses' \in [Ids -> Row \cup {None}]
      /\ \A j \in Ids \ {id} : expenses'[j] = expenses[j]
  BY <1>3, <1>4 DEF update, LTyped, Row
<1>. QED BY <1>5 DEF Writes, update

LEMMA DeleteWrites ==
    ASSUME LTyped, NEW id \in Ids, delete(id)
    PROVE  Writes(id)
BY DEF delete, Writes, LTyped

\* What a walk remembers of a write is what the write does to its list: as long
\* as nothing has come into it, no row has come in front of another; and none
\* has left the front, as long as nothing was taken away.
LEMMA WrittenStep ==
    ASSUME LInv, NEW id \in Ids, Writes(id)
    PROVE  LInv'
<1>1. /\ expenses' \in [Ids -> Row \cup {None}]
      /\ \A j \in Ids \ {id} : expenses'[j] = expenses[j]
      /\ currency' = currency /\ Noticed
  BY DEF Writes
<1>2. IsFiniteSet(Recorded')
  <2>1. Recorded' \subseteq Recorded \cup {id}
    BY <1>1 DEF Recorded
  <2>. QED BY <2>1, FS_AddElement, FS_Subset DEF LInv, LTyped
<1>3. CASE walk.pc \notin {"list", "count"}
  <2>1. walk' = walk
    BY <1>1, <1>3 DEF Noticed
  <2>. QED BY <1>1, <1>2, <1>3, <2>1 DEF LInv, LTyped, Once, Through, Seen
<1>4. CASE walk.pc \in {"list", "count"}
  <2> DEFINE stayed(j) == /\ j \in Found(walk.query) /\ j \in Found(walk.query)'
                          /\ expenses'[j].spent_on = expenses[j].spent_on
  <2>1. /\ DOMAIN walk' = WalkFields
        /\ walk'.query = walk.query /\ walk'.pc = walk.pc /\ walk'.offset = walk.offset
        /\ walk'.page = walk.page /\ walk'.shown = walk.shown
        /\ walk'.repeated = walk.repeated
        /\ walk'.grown \in BOOLEAN /\ walk'.shrunk \in BOOLEAN
    BY <1>1, <1>4 DEF Noticed, LInv, LTyped, WalkFields
  <2>2. \A j \in Ids : j \in Found(walk.query)'
                         <=> expenses'[j] # None /\ matches(expenses'[j], walk.query)
    BY <2>1 DEF Found
  <2>3. /\ \A j \in walk'.steady : j \in walk.steady /\ stayed(j)
        /\ ~walk'.grown => ~walk.grown /\ \A j \in Found(walk.query)' : stayed(j)
        /\ ~walk'.shrunk => ~walk.shrunk /\ \A j \in Found(walk.query) : stayed(j)
    <3>1. /\ walk'.steady = {j \in walk.steady :
                 /\ j \in Found(walk.query)
                 /\ expenses'[j] # None /\ matches(expenses'[j], walk.query)
                 /\ expenses'[j].spent_on = expenses[j].spent_on}
          /\ walk'.grown = (walk.grown \/ \E j \in Ids :
                 /\ expenses'[j] # None /\ matches(expenses'[j], walk.query)
                 /\ ~(/\ j \in Found(walk.query)
                      /\ expenses'[j] # None /\ matches(expenses'[j], walk.query)
                      /\ expenses'[j].spent_on = expenses[j].spent_on))
          /\ walk'.shrunk = (walk.shrunk \/ \E j \in Ids :
                 /\ j \in Found(walk.query)
                 /\ ~(/\ j \in Found(walk.query)
                      /\ expenses'[j] # None /\ matches(expenses'[j], walk.query)
                      /\ expenses'[j].spent_on = expenses[j].spent_on))
      BY <1>1, <1>4 DEF Noticed, LInv, LTyped, WalkFields
    <3>2. Found(walk.query) \subseteq Ids /\ Found(walk.query)' \subseteq Ids
      BY DEF Found
    <3>. QED BY <3>1, <3>2, <2>2
  <2>4. LTyped'
    BY <1>1, <1>2, <1>4, <2>1 DEF LInv, LTyped
  <2>5. Seen' = Seen
    BY <2>1 DEF Seen
  <2> DEFINE q == walk.query
  <2>6. \A x : /\ IsFiniteSet(Ahead(x, q)) /\ Cardinality(Ahead(x, q)) \in Nat
               /\ IsFiniteSet(Ahead(x, q)') /\ Cardinality(Ahead(x, q)') \in Nat
    <3> TAKE x
    <3>1. Ahead(x, q)' \subseteq Recorded'
      BY DEF Ahead, Found, Recorded
    <3>. QED BY <1>2, <3>1, Positions, FS_Subset, FS_CardinalityType DEF LInv
  <2>7. \A x, y : stayed(x) /\ stayed(y) => (before(x, y)' <=> before(x, y))
    BY DEF before
  <2>8. Once'
    <3> SUFFICES ASSUME ~walk'.grown PROVE Once'
      BY DEF Once
    <3>1. \A x \in Found(q)' : /\ x \in Found(q)
                               /\ Cardinality(Ahead(x, q)') <= Cardinality(Ahead(x, q))
      <4> TAKE x \in Found(q)'
      <4>1. x \in Found(q)
        BY <2>3
      <4>2. Ahead(x, q)' \subseteq Ahead(x, q)
        BY <2>3, <2>7 DEF Ahead
      <4>. QED BY <4>1, <4>2, <2>6, FS_Subset
    <3>. QED BY <2>1, <2>3, <2>5, <2>6, <3>1, LimitAssumption DEF Once, LInv, LTyped
  <2>9. Through'
    <3> SUFFICES ASSUME ~walk'.shrunk PROVE Through'
      BY DEF Through
    <3>1. \A x \in Found(q) : /\ x \in Found(q)'
                              /\ Cardinality(Ahead(x, q)) <= Cardinality(Ahead(x, q)')
      <4> TAKE x \in Found(q)
      <4>1. x \in Found(q)'
        BY <2>3
      <4>2. Ahead(x, q) \subseteq Ahead(x, q)'
        BY <2>3, <2>7 DEF Ahead
      <4>. QED BY <4>1, <4>2, <2>6, FS_Subset
    <3>. QED BY <1>4, <2>1, <2>3, <2>5, <2>6, <3>1, LimitAssumption DEF Through, LInv, LTyped
  <2>. QED BY <2>4, <2>8, <2>9 DEF LInv
<1>. QED BY <1>3, <1>4
-----------------------------------------------------------------------------
(* The requests of the client, and a restart.                              *)

\* What the rows say is the rows'.
LEMMA SameRows ==
    ASSUME LTyped, UNCHANGED expenses
    PROVE  /\ \A query : Found(query)' = Found(query)
           /\ \A x, query : Ahead(x, query)' = Ahead(x, query)
           /\ expenses' \in [Ids -> Row \cup {None}] /\ IsFiniteSet(Recorded')
BY DEF LTyped, Recorded, Found, Ahead, before

LEMMA AskStep ==
    ASSUME LInv, NEW query \in Queries, ask(query)
    PROVE  LInv'
<1>1. /\ walk' = [Rest EXCEPT !.query = query, !.pc = "list", !.steady = Found(query)]
      /\ UNCHANGED <<expenses, currency>>
  BY DEF ask
<1>2. /\ DOMAIN walk' = WalkFields
      /\ walk'.query = query /\ walk'.pc = "list" /\ walk'.steady = Found(query)
      /\ walk'.offset = 0 /\ walk'.shown = {} /\ walk'.repeated = {}
      /\ walk'.grown = FALSE /\ walk'.shrunk = FALSE
  BY <1>1 DEF Rest, WalkFields
<1>3. LTyped'
  <2>1. /\ expenses' \in [Ids -> Row \cup {None}] /\ IsFiniteSet(Recorded')
        /\ currency' \in Currencies
    BY <1>1, SameRows DEF LInv, LTyped
  <2>2. walk'.offset \in Nat
    BY <1>2
  <2>3. walk'.grown \in BOOLEAN /\ walk'.shrunk \in BOOLEAN
    BY <1>2, Zenon
  <2>. QED BY <1>2, <2>1, <2>2, <2>3 DEF LTyped
<1>4. Once'
  BY <1>2 DEF Once, Seen
<1>5. Through'
  <2>1. \A x \in Found(query) : Cardinality(Ahead(x, query)) >= 0
    BY Positions DEF LInv
  <2>. QED BY <1>1, <1>2, <2>1, SameRows DEF Through, LInv
<1>. QED BY <1>3, <1>4, <1>5 DEF LInv

LEMMA ListStep ==
    ASSUME LInv, list
    PROVE  LInv'
<1> DEFINE q == walk.query
<1>1. PICK page \in SUBSET Found(q) :
        /\ IsPage(page, Found(q), walk.offset)
        /\ walk' = [walk EXCEPT !.pc = "count", !.page = [id \in page |-> expenses[id]]]
  BY DEF list
<1>2. walk.pc = "list" /\ UNCHANGED <<expenses, currency>>
  BY DEF list
<1>3. /\ DOMAIN walk' = WalkFields
      /\ walk'.query = q /\ walk'.pc = "count" /\ walk'.steady = walk.steady
      /\ walk'.offset = walk.offset /\ walk'.shown = walk.shown
      /\ walk'.repeated = walk.repeated /\ DOMAIN walk'.page = page
      /\ walk'.grown = walk.grown /\ walk'.shrunk = walk.shrunk
  BY <1>1 DEF LInv, LTyped, WalkFields
<1>4. Seen' = Seen
  BY <1>3 DEF Seen
<1>5. LTyped'
  BY <1>2, <1>3, SameRows DEF LInv, LTyped
<1>6. /\ Found(walk.query)' = Found(q)
      /\ \A x : Ahead(x, walk.query)' = Ahead(x, q)
      /\ \A x : Cardinality(Ahead(x, q)) \in Nat
  BY <1>2, <1>3, SameRows, Positions DEF LInv
<1>7. \A x \in Found(q) :
         /\ x \in page => /\ Cardinality(Ahead(x, q)) >= walk.offset
                          /\ Cardinality(Ahead(x, q)) < walk.offset + Limit
         /\ x \notin page /\ Cardinality(Ahead(x, q)) >= walk.offset
               => Cardinality(Ahead(x, q)) >= walk.offset + Limit
  BY <1>1, CutOut DEF LInv, LTyped
<1> HIDE DEF q
<1>8. Once'
  <2> SUFFICES ASSUME ~walk.grown PROVE Once'
    BY <1>3 DEF Once
  <2>1. \A x \in Seen \cap Found(q) : Cardinality(Ahead(x, q)) < walk.offset
    BY <1>2 DEF Once, LInv, q
  <2>2. Seen \cap page = {}
    BY <1>1, <1>6, <1>7, <2>1 DEF LInv, LTyped
  <2>. QED BY <1>1, <1>2, <1>3, <1>4, <1>6, <1>7, <2>1, <2>2 DEF Once, LInv
<1>9. Through'
  BY <1>2, <1>3, <1>4, <1>6, <1>7 DEF Through, LInv, q
<1>. QED BY <1>5, <1>8, <1>9 DEF LInv

\* What the response shows are the rows of the page, by id.
LEMMA ShownRows ==
    ASSUME NEW page
    PROVE  {response.id : response \in ExpenseResponse(page)} = DOMAIN page
<1>1. \A id \in DOMAIN page :
        \E response \in ExpenseResponse(page) : response.id = id
  <2> TAKE id \in DOMAIN page
  <2> DEFINE shown == [id |-> id, amount |-> page[id].amount, currency |-> page[id].currency]
  <2>1. shown \in ExpenseResponse(page) /\ shown.id = id
    BY DEF ExpenseResponse
  <2>. QED BY <2>1
<1>2. \A response \in ExpenseResponse(page) : response.id \in DOMAIN page
  BY DEF ExpenseResponse
<1>. QED BY <1>1, <1>2

LEMMA CountStep ==
    ASSUME LInv, count
    PROVE  LInv'
<1> DEFINE page == walk.page
           q == walk.query
           more == walk.offset + Limit < Cardinality(Found(q))
<1>1. walk.pc = "count" /\ UNCHANGED <<expenses, currency>>
  BY DEF count, Continue
<1>2. CASE ~SameCurrency(page) \/ ~Shows(page)
  <2>1. walk' = [walk EXCEPT !.pc = "failed", !.page = <<>>]
    BY <1>2 DEF count, Continue
  <2>2. /\ DOMAIN walk' = WalkFields /\ walk'.pc = "failed"
        /\ walk'.offset = walk.offset /\ walk'.repeated = walk.repeated
        /\ walk'.grown = walk.grown /\ walk'.shrunk = walk.shrunk
    BY <2>1 DEF LInv, LTyped, WalkFields
  <2>. QED BY <1>1, <2>2, SameRows DEF LInv, LTyped, Once, Through
<1>3. CASE SameCurrency(page) /\ Shows(page)
  <2>1. /\ DOMAIN walk' = WalkFields
        /\ walk'.pc = (IF more THEN "list" ELSE "done")
        /\ walk'.query = q /\ walk'.steady = walk.steady
        /\ walk'.offset = walk.offset + Limit
        /\ walk'.shown = walk.shown \cup ExpenseResponse(page)
        /\ walk'.repeated
             = walk.repeated \cup ({response.id : response \in walk.shown} \cap DOMAIN page)
        /\ walk'.grown = walk.grown /\ walk'.shrunk = walk.shrunk
    BY <1>3 DEF count, Continue, LInv, LTyped, WalkFields
  <2>2. Seen' = Seen \cup DOMAIN page
    <3>1. Seen' = Seen \cup {response.id : response \in ExpenseResponse(page)}
      BY <2>1 DEF Seen
    <3>. QED BY <3>1, ShownRows
  <2>3. LTyped'
    BY <1>1, <2>1, SameRows, LimitAssumption DEF LInv, LTyped
  <2>4. /\ Found(walk.query)' = Found(q)
        /\ \A x : Ahead(x, walk.query)' = Ahead(x, q)
        /\ \A x : Cardinality(Ahead(x, q)) \in Nat
        /\ \A x \in Found(q) : Cardinality(Ahead(x, q)) < Cardinality(Found(q))
    <3>1. Found(q) \subseteq Recorded
      BY Rows DEF LInv
    <3>. QED BY <1>1, <2>1, <3>1, SameRows, Positions DEF LInv
  <2>5. walk.offset \in Nat /\ Limit \in Nat \ {0} /\ Cardinality(Found(q)) \in Nat
    BY Rows, FS_CardinalityType, LimitAssumption DEF LInv, LTyped
  <2>6. Once'
    <3> SUFFICES ASSUME ~walk.grown PROVE Once'
      BY <2>1 DEF Once
    <3>1. /\ walk.repeated = {} /\ Seen \cap DOMAIN page = {}
          /\ \A x \in Seen \cap Found(q) : Cardinality(Ahead(x, q)) < walk.offset
          /\ \A x \in DOMAIN page \cap Found(q) :
                Cardinality(Ahead(x, q)) < walk.offset + Limit
      BY <1>1 DEF Once, LInv
    <3>2. walk'.repeated = {}
      BY <2>1, <3>1 DEF Seen
    <3>3. \A x \in Seen' \cap Found(q) : Cardinality(Ahead(x, q)) < walk.offset + Limit
      BY <2>2, <2>4, <2>5, <3>1
    <3>. QED BY <2>1, <2>4, <3>2, <3>3 DEF Once
  <2>7. Through'
    <3> SUFFICES ASSUME ~walk.shrunk PROVE Through'
      BY <2>1 DEF Through
    <3>1. \A x \in walk.steady \ Seen' :
             /\ x \in Found(q) /\ Cardinality(Ahead(x, q)) >= walk.offset + Limit
      BY <1>1, <2>2 DEF Through, LInv
    <3>2. ~more => walk.steady \subseteq Seen'
      BY <2>4, <2>5, <3>1
    <3>. QED BY <2>1, <2>4, <3>1, <3>2 DEF Through
  <2>. QED BY <2>3, <2>6, <2>7 DEF LInv
<1>. QED BY <1>2, <1>3

LEMMA RestartStep ==
    ASSUME LInv, NEW c \in Currencies, restart(c)
    PROVE  LInv'
<1>1. /\ currency' = c /\ UNCHANGED expenses
      /\ walk' = IF walk.pc = "count" THEN [walk EXCEPT !.pc = "failed", !.page = <<>>] ELSE walk
  BY DEF restart
<1>2. CASE walk.pc = "count"
  <2>1. /\ DOMAIN walk' = WalkFields /\ walk'.pc = "failed"
        /\ walk'.offset = walk.offset /\ walk'.repeated = walk.repeated
        /\ walk'.grown = walk.grown /\ walk'.shrunk = walk.shrunk
    BY <1>1, <1>2 DEF LInv, LTyped, WalkFields
  <2>. QED BY <1>1, <2>1, SameRows DEF LInv, LTyped, Once, Through
<1>3. CASE walk.pc # "count"
  <2>1. walk' = walk
    BY <1>1, <1>3
  <2>2. /\ LTyped' /\ Seen' = Seen
        /\ Found(walk.query)' = Found(walk.query)
        /\ \A x : Ahead(x, walk.query)' = Ahead(x, walk.query)
    BY <1>1, <2>1, SameRows DEF LInv, LTyped, Seen
  <2>. QED BY <1>3, <2>1, <2>2 DEF LInv, LTyped, Once, Through
<1>. QED BY <1>2, <1>3
-----------------------------------------------------------------------------
LEMMA LInvStep == LInv /\ [Next]_vars => LInv'
<1> SUFFICES ASSUME LInv, [Next]_vars PROVE LInv'
  OBVIOUS
<1>1. ASSUME NEW query \in Queries, ask(query) PROVE LInv'
  BY <1>1, AskStep
<1>2. CASE list
  BY <1>2, ListStep
<1>3. CASE count
  BY <1>3, CountStep
<1>4. ASSUME NEW id \in Ids, NEW c \in Purchases, record(id, c) PROVE LInv'
  <2>1. Writes(id)
    BY <1>4, RecordWrites DEF LInv
  <2>. QED BY <2>1, WrittenStep
<1>5. ASSUME NEW id \in Ids, NEW c \in Updates, update(id, c) PROVE LInv'
  <2>1. Writes(id)
    BY <1>5, UpdateWrites DEF LInv
  <2>. QED BY <2>1, WrittenStep
<1>6. ASSUME NEW id \in Ids, delete(id) PROVE LInv'
  <2>1. Writes(id)
    BY <1>6, DeleteWrites DEF LInv
  <2>. QED BY <2>1, WrittenStep
<1>7. ASSUME NEW c \in Currencies, restart(c) PROVE LInv'
  BY <1>7, RestartStep
<1>8. CASE UNCHANGED vars
  <2>1. walk' = walk /\ expenses' = expenses /\ currency' = currency
    BY <1>8 DEF vars
  <2>2. /\ LTyped' /\ Seen' = Seen
        /\ Found(walk.query)' = Found(walk.query)
        /\ \A x : Ahead(x, walk.query)' = Ahead(x, walk.query)
    BY <2>1, SameRows DEF LInv, LTyped, Seen
  <2>. QED BY <2>1, <2>2 DEF LInv, LTyped, Once, Through
<1>. QED BY <1>1, <1>2, <1>3, <1>4, <1>5, <1>6, <1>7, <1>8 DEF Next

LEMMA LInvInit == Init => LInv
<1> SUFFICES ASSUME Init PROVE LInv
  OBVIOUS
<1>1. Recorded = {}
  BY DEF Init, Recorded
<1>2. LTyped
  BY <1>1, FS_EmptySet DEF LTyped, Init, Rest, WalkFields
<1>3. Once /\ Through
  BY DEF Once, Through, Init, Rest
<1>. QED BY <1>2, <1>3 DEF LInv

\* For any number of expenses and any length of a page, a client that reads the
\* list to its end sees no expense twice, whatever is deleted meanwhile, unless
\* an expense came into the list or moved within it (repositories.py:133-139).
THEOREM ShownOnce == Spec => []NothingTwice
<1>1. LInv => NothingTwice
  BY DEF LInv, Once, NothingTwice
<1>. QED BY <1>1, LInvInit, LInvStep, PTL DEF Spec

\* And it misses none that stayed where it was, whatever is recorded meanwhile,
\* unless an expense left the list or moved within it (repositories.py:135-136).
THEOREM AllShown == Spec => []NothingMissed
<1>1. LInv => NothingMissed
  BY DEF LInv, Through, NothingMissed, Seen
<1>. QED BY <1>1, LInvInit, LInvStep, PTL DEF Spec
-----------------------------------------------------------------------------
(* Sums.                                                                   *)

\* What holds of 0, and of n + 1 whenever of n, holds of every number.
LEMMA EveryNumber ==
    ASSUME NEW good \in SUBSET Nat, 0 \in good, \A n \in good : n + 1 \in good
    PROVE  good = Nat
<1> SUFFICES ASSUME Nat \ good # {} PROVE FALSE
  OBVIOUS
<1>1. PICK n \in Nat \ good : \A y \in Nat \ good : ~(<<y, n>> \in OpToRel(<, Nat))
  BY NatLessThanWellFounded, WFMin
<1>2. n # 0 /\ n \in Nat
  BY <1>1
<1>3. n - 1 \in Nat /\ n - 1 < n /\ (n - 1) + 1 = n
  BY <1>2
<1>4. n - 1 \in good
  BY <1>1, <1>3 DEF OpToRel
<1>5. (n - 1) + 1 \in good
  BY <1>4
<1>. QED BY <1>1, <1>3, <1>5

\* What holds of the empty set, and of a set with one element more, holds of the
\* finite set they are subsets of.
LEMMA EverySubset ==
    ASSUME NEW S, IsFiniteSet(S), NEW good \in SUBSET SUBSET S, {} \in good,
           \A T \in good, x \in S : x \notin T => T \cup {x} \in good
    PROVE  S \in good
<1> DEFINE sized == {n \in Nat : \A T \in SUBSET S : Cardinality(T) = n => T \in good}
<1>1. \A T \in SUBSET S : IsFiniteSet(T) /\ Cardinality(T) \in Nat
  BY FS_Subset, FS_CardinalityType
<1>2. 0 \in sized
  BY <1>1, FS_EmptySet
<1>3. ASSUME NEW n \in sized PROVE n + 1 \in sized
  <2> SUFFICES ASSUME NEW T \in SUBSET S, Cardinality(T) = n + 1 PROVE T \in good
    BY <1>3
  <2>1. PICK x \in T : TRUE
    <3>1. Cardinality(T) # 0
      BY <1>3
    <3>. QED BY <3>1, FS_EmptySet
  <2>2. Cardinality(T \ {x}) = n
    BY <1>1, <1>3, <2>1, FS_RemoveElement
  <2>3. T \ {x} \in good
    BY <1>3, <2>2
  <2>4. T = (T \ {x}) \cup {x} /\ x \in S
    BY <2>1
  <2>. QED BY <2>3, <2>4
<1>4. sized = Nat
  BY <1>2, <1>3, EveryNumber
<1>. QED BY <1>1, <1>4

pick(s) == CHOOSE x \in s : TRUE

\* f adds up the values v of each subset of S, as the folds do.
Adds(f, v, S) ==
    f = [s \in SUBSET S |-> IF s = {} THEN 0 ELSE v[pick(s)] + f[s \ {pick(s)}]]

Sum(v, S) == (CHOOSE f : Adds(f, v, S))[S]

LEMMA Picked == ASSUME NEW s, s # {} PROVE pick(s) \in s
BY DEF pick

\* There is such an f.
LEMMA AddsUp ==
    ASSUME NEW S, IsFiniteSet(S), NEW v, \A x \in S : v[x] \in Int
    PROVE  \E f \in [SUBSET S -> Int] : Adds(f, v, S)
<1> DEFINE Small(n) == {s \in SUBSET S : Cardinality(s) <= n}
           Value(f, s) == IF s = {} THEN 0 ELSE v[pick(s)] + f[s \ {pick(s)}]
           Up(f, n) == f \in [Small(n) -> Int] /\ \A s \in Small(n) : f[s] = Value(f, s)
           good == {n \in Nat : \E f : Up(f, n)}
<1>1. \A s \in SUBSET S : IsFiniteSet(s) /\ Cardinality(s) \in Nat
                          /\ Cardinality(s) <= Cardinality(S)
  BY FS_Subset, FS_CardinalityType
<1>2. ASSUME NEW s \in SUBSET S, s # {}
      PROVE  /\ pick(s) \in S /\ v[pick(s)] \in Int /\ s \ {pick(s)} \in SUBSET S
             /\ Cardinality(s \ {pick(s)}) = Cardinality(s) - 1
  BY <1>1, <1>2, Picked, FS_RemoveElement
<1>3. 0 \in good
  <2>1. \A s \in Small(0) : s = {}
    BY <1>1, FS_EmptySet
  <2>2. Up([s \in Small(0) |-> 0], 0)
    BY <2>1
  <2>. QED BY <2>2
<1>4. ASSUME NEW n \in good PROVE n + 1 \in good
  <2>1. PICK f : Up(f, n)
    BY <1>4
  <2> DEFINE g == [s \in Small(n + 1) |-> Value(f, s)]
  <2>2. ASSUME NEW s \in Small(n + 1), s # {}
        PROVE  /\ s \ {pick(s)} \in Small(n) /\ s \ {pick(s)} \in Small(n + 1)
               /\ f[s \ {pick(s)}] \in Int /\ v[pick(s)] \in Int
               /\ g[s \ {pick(s)}] = f[s \ {pick(s)}]
    <3>1. s \ {pick(s)} \in Small(n) /\ s \ {pick(s)} \in Small(n + 1) /\ v[pick(s)] \in Int
      BY <1>1, <1>2, <1>4, <2>2
    <3>2. f[s \ {pick(s)}] \in Int /\ f[s \ {pick(s)}] = Value(f, s \ {pick(s)})
      BY <2>1, <3>1
    <3>. QED BY <3>1, <3>2
  <2> HIDE DEF Small
  <2>3. \A s \in Small(n + 1) : g[s] \in Int /\ g[s] = Value(g, s)
    <3> TAKE s \in Small(n + 1)
    <3>1. CASE s = {}
      BY <3>1
    <3>2. CASE s # {}
      <4>1. g[s] = v[pick(s)] + f[s \ {pick(s)}]
        BY <3>2
      <4> HIDE DEF g
      <4>2. /\ f[s \ {pick(s)}] \in Int /\ v[pick(s)] \in Int
            /\ g[s \ {pick(s)}] = f[s \ {pick(s)}]
        BY <2>2, <3>2
      <4>. QED BY <3>2, <4>1, <4>2
    <3>. QED BY <3>1, <3>2
  <2>4. g \in [Small(n + 1) -> Int]
    BY <2>3
  <2> HIDE DEF g
  <2>5. Up(g, n + 1)
    BY <2>3, <2>4
  <2>6. n + 1 \in Nat
    BY <1>4
  <2> HIDE DEF Up
  <2>7. \E h : Up(h, n + 1)
    BY <2>5
  <2>. QED BY <2>6, <2>7
<1>5. Cardinality(S) \in good
  <2> HIDE DEF good
  <2>1. good \in SUBSET Nat
    BY DEF good
  <2>2. good = Nat
    BY <1>3, <1>4, <2>1, EveryNumber
  <2>. QED BY <1>1, <2>2
<1>6. Small(Cardinality(S)) = SUBSET S
  BY <1>1
<1>7. PICK f : Up(f, Cardinality(S))
  BY <1>5
<1> HIDE DEF Small
<1>8. f \in [SUBSET S -> Int] /\ \A s \in SUBSET S : f[s] = Value(f, s)
  BY <1>6, <1>7
<1>9. Adds(f, v, S)
  BY <1>8 DEF Adds
<1>. QED BY <1>8, <1>9

\* And no other that differs from it.
LEMMA AddsUpOnce ==
    ASSUME NEW S, IsFiniteSet(S), NEW v, NEW f, NEW g, Adds(f, v, S), Adds(g, v, S)
    PROVE  f = g
<1> DEFINE good == {n \in Nat : \A s \in SUBSET S : Cardinality(s) = n => f[s] = g[s]}
<1>1. \A s \in SUBSET S : IsFiniteSet(s) /\ Cardinality(s) \in Nat
  BY FS_Subset, FS_CardinalityType
<1>2. /\ f = [s \in SUBSET S |-> IF s = {} THEN 0 ELSE v[pick(s)] + f[s \ {pick(s)}]]
      /\ g = [s \in SUBSET S |-> IF s = {} THEN 0 ELSE v[pick(s)] + g[s \ {pick(s)}]]
  BY DEF Adds
<1>3. 0 \in good
  BY <1>1, <1>2, FS_EmptySet
<1>4. ASSUME NEW n \in good PROVE n + 1 \in good
  <2> SUFFICES ASSUME NEW s \in SUBSET S, Cardinality(s) = n + 1 PROVE f[s] = g[s]
    BY <1>4
  <2>1. s # {} /\ pick(s) \in s
    BY <1>4, FS_EmptySet, Picked
  <2>2. s \ {pick(s)} \in SUBSET S /\ Cardinality(s \ {pick(s)}) = n
    BY <1>1, <1>4, <2>1, FS_RemoveElement
  <2>3. f[s \ {pick(s)}] = g[s \ {pick(s)}]
    BY <1>4, <2>2
  <2>4. /\ f[s] = v[pick(s)] + f[s \ {pick(s)}]
        /\ g[s] = v[pick(s)] + g[s \ {pick(s)}]
    BY <1>2, <2>1
  <2>. QED BY <2>3, <2>4
<1>5. good = Nat
  <2> HIDE DEF good
  <2>1. good \in SUBSET Nat
    BY DEF good
  <2>. QED BY <1>3, <1>4, <2>1, EveryNumber
<1>6. \A s \in SUBSET S : f[s] = g[s]
  BY <1>1, <1>5
<1>. QED BY <1>2, <1>6

LEMMA SumIs ==
    ASSUME NEW S, IsFiniteSet(S), NEW v, NEW f, Adds(f, v, S)
    PROVE  \A T \in SUBSET S : Sum(v, T) = f[T]
<1> TAKE T \in SUBSET S
<1> DEFINE h == [s \in SUBSET T |-> f[s]]
<1>1. f = [s \in SUBSET S |-> IF s = {} THEN 0 ELSE v[pick(s)] + f[s \ {pick(s)}]]
  BY DEF Adds
<1>2. \A s \in SUBSET T : /\ h[s] = f[s] /\ s \ {pick(s)} \in SUBSET T
                          /\ f[s] = IF s = {} THEN 0 ELSE v[pick(s)] + f[s \ {pick(s)}]
  <2> TAKE s \in SUBSET T
  <2>1. s \in SUBSET S /\ s \ {pick(s)} \in SUBSET T
    OBVIOUS
  <2>2. f[s] = IF s = {} THEN 0 ELSE v[pick(s)] + f[s \ {pick(s)}]
    BY <1>1, <2>1
  <2>. QED BY <2>1, <2>2
<1>3. \A s \in SUBSET T : h[s] = IF s = {} THEN 0 ELSE v[pick(s)] + h[s \ {pick(s)}]
  <2> TAKE s \in SUBSET T
  <2>1. h[s \ {pick(s)}] = f[s \ {pick(s)}]
    BY <1>2
  <2> HIDE DEF h
  <2>. QED BY <1>2, <2>1
<1>4. h = [s \in SUBSET T |-> h[s]]
  OBVIOUS
<1> HIDE DEF h
<1>5. Adds(h, v, T)
  BY <1>3, <1>4 DEF Adds
<1>6. IsFiniteSet(T)
  BY FS_Subset
<1>7. Adds((CHOOSE g : Adds(g, v, T)), v, T)
  BY <1>5
<1>8. (CHOOSE g : Adds(g, v, T)) = h
  BY <1>5, <1>6, <1>7, AddsUpOnce
<1>. QED BY <1>2, <1>8 DEF Sum

\* Whatever element is added first, the sum is the same.
LEMMA SumOne ==
    ASSUME NEW S, IsFiniteSet(S), NEW v, \A x \in S : v[x] \in Int
    PROVE  /\ Sum(v, S) \in Int
           /\ Sum(v, {}) = 0
           /\ \A x \in S : Sum(v, S) = v[x] + Sum(v, S \ {x})
<1>1. PICK f \in [SUBSET S -> Int] : Adds(f, v, S)
  BY AddsUp
<1>2. \A s \in SUBSET S : /\ f[s] \in Int
                          /\ f[s] = IF s = {} THEN 0 ELSE v[pick(s)] + f[s \ {pick(s)}]
  BY <1>1 DEF Adds
<1>3. \A T \in SUBSET S : Sum(v, T) = f[T]
  BY <1>1, SumIs
<1> DEFINE good == {n \in Nat : \A T \in SUBSET S :
                      Cardinality(T) = n => \A x \in T : f[T] = v[x] + f[T \ {x}]}
<1>4. \A s \in SUBSET S : IsFiniteSet(s) /\ Cardinality(s) \in Nat
  BY FS_Subset, FS_CardinalityType
<1>5. 0 \in good
  <2>1. \A T \in SUBSET S : Cardinality(T) = 0 => T = {}
    BY <1>4, FS_EmptySet
  <2>. QED BY <2>1
<1>6. ASSUME NEW n \in good PROVE n + 1 \in good
  <2> SUFFICES ASSUME NEW T \in SUBSET S, Cardinality(T) = n + 1, NEW x \in T
               PROVE  f[T] = v[x] + f[T \ {x}]
    BY <1>6
  <2> DEFINE p == pick(T)
  <2>1. p \in T
    BY Picked
  <2>2. f[T] = v[p] + f[T \ {p}]
    BY <1>2, <2>1
  <2>3. CASE x = p
    BY <2>2, <2>3
  <2>4. CASE x # p
    <3>1. /\ T \ {p} \in SUBSET S /\ x \in T \ {p} /\ Cardinality(T \ {p}) = n
          /\ T \ {x} \in SUBSET S /\ p \in T \ {x} /\ Cardinality(T \ {x}) = n
      BY <1>4, <1>6, <2>1, <2>4, FS_RemoveElement
    <3>2. /\ f[T \ {p}] = v[x] + f[(T \ {p}) \ {x}]
          /\ f[T \ {x}] = v[p] + f[(T \ {x}) \ {p}]
      BY <1>6, <3>1
    <3>3. (T \ {p}) \ {x} = (T \ {x}) \ {p} /\ (T \ {p}) \ {x} \in SUBSET S
      OBVIOUS
    <3>4. f[(T \ {x}) \ {p}] \in Int /\ v[x] \in Int /\ v[p] \in Int
      BY <1>2, <2>1, <3>3
    <3> HIDE DEF p
    <3>5. f[(T \ {p}) \ {x}] = f[(T \ {x}) \ {p}]
      BY <3>3
    <3> DEFINE a == f[T \ {p}]
               b == f[T \ {x}]
               c == f[(T \ {x}) \ {p}]
    <3>6. a = v[x] + c /\ b = v[p] + c /\ f[T] = v[p] + a
      BY <2>2, <3>2, <3>5
    <3>7. c \in Int
      BY <3>4
    <3> HIDE DEF a, b, c
    <3>8. f[T] = v[x] + b
      BY <3>4, <3>6, <3>7
    <3>. QED BY <3>8 DEF b
  <2>. QED BY <2>3, <2>4
<1>7. good = Nat
  <2> HIDE DEF good
  <2>1. good \in SUBSET Nat
    BY DEF good
  <2>. QED BY <1>5, <1>6, <2>1, EveryNumber
<1>8. \A x \in S : f[S] = v[x] + f[S \ {x}]
  BY <1>4, <1>7
<1>. QED BY <1>2, <1>3, <1>8

LEMMA SumSame ==
    ASSUME NEW S, IsFiniteSet(S), NEW v, NEW w, \A x \in S : v[x] \in Int /\ w[x] = v[x]
    PROVE  Sum(v, S) = Sum(w, S)
<1>1. PICK f : Adds(f, v, S)
  BY AddsUp
<1>2. \A s \in SUBSET S : s # {} => v[pick(s)] = w[pick(s)]
  BY Picked
<1>3. Adds(f, w, S)
  <2>1. f = [s \in SUBSET S |-> IF s = {} THEN 0 ELSE v[pick(s)] + f[s \ {pick(s)}]]
    BY <1>1 DEF Adds
  <2>2. f = [s \in SUBSET S |-> IF s = {} THEN 0 ELSE w[pick(s)] + f[s \ {pick(s)}]]
    BY <1>2, <2>1
  <2>. QED BY <2>2 DEF Adds
<1>. QED BY <1>1, <1>3, SumIs

\* The sum over two sets apart is the sum of the sums.
LEMMA SumApart ==
    ASSUME NEW A, NEW B, IsFiniteSet(A), IsFiniteSet(B), A \cap B = {},
           NEW v, \A x \in A \cup B : v[x] \in Int
    PROVE  Sum(v, A \cup B) = Sum(v, A) + Sum(v, B)
<1> DEFINE good == {T \in SUBSET B : Sum(v, A \cup T) = Sum(v, A) + Sum(v, T)}
<1>1. \A T \in SUBSET B : /\ IsFiniteSet(T) /\ IsFiniteSet(A \cup T)
                          /\ Sum(v, T) \in Int /\ Sum(v, A \cup T) \in Int
  <2> TAKE T \in SUBSET B
  <2>1. IsFiniteSet(T)
    BY FS_Subset
  <2>2. IsFiniteSet(A \cup T)
    BY <2>1, FS_Union
  <2>. QED BY <2>1, <2>2, SumOne
<1>2. {} \in good
  <2>1. A \cup {} = A /\ Sum(v, A) \in Int /\ Sum(v, {}) = 0
    BY SumOne
  <2>. QED BY <2>1
<1>3. ASSUME NEW T \in good, NEW x \in B, x \notin T PROVE T \cup {x} \in good
  <2> DEFINE U == T \cup {x}
  <2>1. U \in SUBSET B /\ x \in U /\ U \ {x} = T
    BY <1>3
  <2>2. x \in A \cup U /\ (A \cup U) \ {x} = A \cup T
    BY <1>3, <2>1
  <2>3. v[x] \in Int /\ \A y \in U : v[y] \in Int
    BY <2>1
  <2>4. Sum(v, U) = v[x] + Sum(v, T)
    <3>1. IsFiniteSet(U)
      BY <1>1, <2>1
    <3> HIDE DEF U
    <3>2. Sum(v, U) = v[x] + Sum(v, U \ {x})
      BY <2>1, <2>3, <3>1, SumOne
    <3>. QED BY <2>1, <3>2
  <2>5. Sum(v, A \cup U) = v[x] + Sum(v, A \cup T)
    <3>1. IsFiniteSet(A \cup U) /\ \A y \in A \cup U : v[y] \in Int
      BY <1>1, <2>1
    <3>2. Sum(v, A \cup U) = v[x] + Sum(v, (A \cup U) \ {x})
      BY <2>2, <3>1, SumOne
    <3>. QED BY <2>2, <3>2
  <2>6. Sum(v, A) \in Int /\ Sum(v, T) \in Int
    BY <1>1, SumOne
  <2> HIDE DEF U
  <2>7. Sum(v, A \cup U) = Sum(v, A) + Sum(v, U)
    BY <1>3, <2>3, <2>4, <2>5, <2>6
  <2>. QED BY <2>1, <2>7 DEF U
<1>4. B \in good
  <2> HIDE DEF good
  <2>1. good \in SUBSET SUBSET B
    BY DEF good
  <2>. QED BY <1>2, <1>3, <2>1, EverySubset
<1>. QED BY <1>4

\* The total of some responses is the sum of their amounts (money.py:140-145).
LEMMA SumMoney ==
    ASSUME NEW S, IsFiniteSet(S), \A x \in S : x.amount \in Int
    PROVE  sum_money(S) = Sum([x \in S |-> x.amount], S)
<1> DEFINE v == [x \in S |-> x.amount]
           Folds(f) == f = [s \in SUBSET S |-> IF s = {} THEN 0 ELSE
                              AmountIn(CHOOSE x \in s : TRUE) + f[s \ {CHOOSE x \in s : TRUE}]]
<1>1. sum_money(S) = (CHOOSE f : Folds(f))[S]
  BY DEF sum_money, MapThenSumSet, MapThenFoldSet
<1>2. \A s \in SUBSET S : s # {} => v[pick(s)] = AmountIn(pick(s))
  BY Picked DEF AmountIn
<1>3. \A f : Folds(f) <=> Adds(f, v, S)
  <2> TAKE f
  <2> DEFINE a == [s \in SUBSET S |-> IF s = {} THEN 0 ELSE
                     AmountIn(CHOOSE x \in s : TRUE) + f[s \ {CHOOSE x \in s : TRUE}]]
             b == [s \in SUBSET S |-> IF s = {} THEN 0 ELSE v[pick(s)] + f[s \ {pick(s)}]]
  <2> HIDE DEF v
  <2>1. a = b
    BY <1>2 DEF pick
  <2>. QED BY <2>1 DEF Adds
<1>4. \E f : Adds(f, v, S)
  BY AddsUp
<1> HIDE DEF Folds, v
<1>5. Adds((CHOOSE f : Folds(f)), v, S)
  BY <1>3, <1>4
<1>6. Sum(v, S) = (CHOOSE f : Folds(f))[S]
  BY <1>5, SumIs
<1>. QED BY <1>1, <1>6 DEF v

LEMMA SumMoneyApart ==
    ASSUME NEW A, NEW B, IsFiniteSet(A), IsFiniteSet(B), A \cap B = {},
           \A x \in A \cup B : x.amount \in Int
    PROVE  /\ sum_money(A \cup B) = sum_money(A) + sum_money(B)
           /\ sum_money(A) \in Int /\ sum_money(B) \in Int
<1> DEFINE v == [x \in A \cup B |-> x.amount]
<1>1. /\ \A x \in A \cup B : v[x] = x.amount /\ v[x] \in Int
      /\ IsFiniteSet(A \cup B)
  BY FS_Union
<1>2. sum_money(A) = Sum(v, A)
  <2> DEFINE w == [x \in A |-> x.amount]
  <2>1. \A x \in A : w[x] \in Int /\ v[x] = w[x]
    BY <1>1
  <2> HIDE DEF v
  <2>2. Sum(w, A) = Sum(v, A)
    <3> HIDE DEF w
    <3>. QED BY <2>1, SumSame
  <2>. QED BY <2>2, SumMoney
<1>3. sum_money(B) = Sum(v, B)
  <2> DEFINE w == [x \in B |-> x.amount]
  <2>1. \A x \in B : w[x] \in Int /\ v[x] = w[x]
    BY <1>1
  <2> HIDE DEF v
  <2>2. Sum(w, B) = Sum(v, B)
    <3> HIDE DEF w
    <3>. QED BY <2>1, SumSame
  <2>. QED BY <2>2, SumMoney
<1>4. sum_money(A \cup B) = Sum(v, A \cup B)
  BY <1>1, SumMoney
<1> HIDE DEF v
<1>5. Sum(v, A \cup B) = Sum(v, A) + Sum(v, B)
  BY <1>1, SumApart
<1>6. Sum(v, A) \in Int /\ Sum(v, B) \in Int
  <2>1. (\A x \in A : v[x] \in Int) /\ (\A x \in B : v[x] \in Int)
    BY <1>1
  <2>. QED BY <2>1, SumOne
<1>. QED BY <1>2, <1>3, <1>4, <1>5, <1>6
-----------------------------------------------------------------------------
(* The totals of the pages.                                                *)

\* What the walk holds are amounts of money.
Money ==
    /\ walk.totals \in [Currencies -> Int]
    /\ IsFiniteSet(walk.shown)
    /\ \A response \in walk.shown : response.amount \in Int
    /\ IsFiniteSet(DOMAIN walk.page)
    /\ \A id \in DOMAIN walk.page : walk.page[id].amount \in Int

MInv == LInv /\ Money /\ TotalsAddUp

ShownIn(c) == {response \in walk.shown : response.currency = c}

LEMMA Untouched ==
    ASSUME MInv, walk'.page = walk.page, walk'.shown = walk.shown, walk'.totals = walk.totals,
           ~walk'.grown => ~walk.grown
    PROVE  Money' /\ TotalsAddUp'
BY DEF MInv, Money, TotalsAddUp

LEMMA NoticedMoney ==
    ASSUME MInv, Noticed
    PROVE  Money' /\ TotalsAddUp'
<1>1. /\ walk'.page = walk.page /\ walk'.shown = walk.shown /\ walk'.totals = walk.totals
      /\ ~walk'.grown => ~walk.grown
  <2>1. CASE walk.pc \notin {"list", "count"}
    BY <2>1 DEF Noticed
  <2>2. CASE walk.pc \in {"list", "count"}
    BY <2>2 DEF Noticed, MInv, LInv, LTyped, WalkFields
  <2>. QED BY <2>1, <2>2
<1>. QED BY <1>1, Untouched

LEMMA AskMoney ==
    ASSUME MInv, NEW query, ask(query)
    PROVE  Money' /\ TotalsAddUp'
<1>1. /\ walk'.page = <<>> /\ walk'.shown = {} /\ walk'.totals = [c \in Currencies |-> 0]
  BY DEF ask, Rest
<1>2. IsFiniteSet({}) /\ DOMAIN <<>> = {}
  BY FS_EmptySet
<1>3. Money'
  BY <1>1, <1>2 DEF Money
<1>4. sum_money({}) = 0
  <2>1. sum_money({}) = Sum([x \in {} |-> x.amount], {})
    BY FS_EmptySet, SumMoney
  <2>2. Sum([x \in {} |-> x.amount], {}) = 0
    BY FS_EmptySet, SumOne
  <2>. QED BY <2>1, <2>2
<1>5. TotalsAddUp'
  <2>1. \A c \in Currencies : /\ walk'.totals[c] = 0
                              /\ {r \in walk'.shown : r.currency = c} = {}
    BY <1>1
  <2>. QED BY <1>4, <2>1 DEF TotalsAddUp
<1>. QED BY <1>3, <1>5

LEMMA ListMoney ==
    ASSUME MInv, list
    PROVE  Money' /\ TotalsAddUp'
<1>1. PICK page \in SUBSET Found(walk.query) :
        walk' = [walk EXCEPT !.pc = "count", !.page = [id \in page |-> expenses[id]]]
  BY DEF list
<1>2. /\ walk'.page = [id \in page |-> expenses[id]]
      /\ walk'.shown = walk.shown /\ walk'.totals = walk.totals /\ walk'.grown = walk.grown
  BY <1>1 DEF MInv, LInv, LTyped, WalkFields
<1>3. IsFiniteSet(page) /\ \A id \in page : expenses[id].amount \in Int
  <2>1. IsFiniteSet(page) /\ page \subseteq Recorded
    BY Rows, FS_Subset DEF MInv, LInv
  <2>2. \A id \in page : expenses[id] \in Row
    BY <2>1, Rows DEF MInv, LInv
  <2>3. \A id \in page : expenses[id].amount \in Amounts
    BY <2>2 DEF Row
  <2>4. Amounts \subseteq Int
    BY LimitAssumption
  <2>. QED BY <2>1, <2>3, <2>4
<1>4. Money'
  BY <1>2, <1>3 DEF Money, MInv
<1>5. TotalsAddUp'
  BY <1>2 DEF MInv, TotalsAddUp
<1>. QED BY <1>4, <1>5

LEMMA RestartMoney ==
    ASSUME MInv, NEW c, restart(c)
    PROVE  Money' /\ TotalsAddUp'
<1>1. CASE walk.pc # "count"
  <2>1. walk' = walk
    BY <1>1 DEF restart
  <2>. QED BY <2>1, Untouched
<1>2. CASE walk.pc = "count"
  <2>1. /\ walk'.page = <<>> /\ walk'.shown = walk.shown
        /\ walk'.totals = walk.totals /\ walk'.grown = walk.grown
    BY <1>2 DEF restart, MInv, LInv, LTyped, WalkFields
  <2>2. IsFiniteSet({}) /\ DOMAIN <<>> = {}
    BY FS_EmptySet
  <2>3. Money'
    BY <2>1, <2>2 DEF Money, MInv
  <2>4. TotalsAddUp'
    BY <2>1 DEF MInv, TotalsAddUp
  <2>. QED BY <2>3, <2>4
<1>. QED BY <1>1, <1>2

\* What a page adds to the totals is what it adds to what was shown, all of it in
\* the currency of the process (expenses.py:196-222).
LEMMA CountMoney ==
    ASSUME MInv, count
    PROVE  Money' /\ TotalsAddUp'
<1> DEFINE page == walk.page
           items == ExpenseResponse(page)
<1>1. CASE ~SameCurrency(page) \/ ~Shows(page)
  <2>1. /\ walk'.page = <<>> /\ walk'.shown = walk.shown
        /\ walk'.totals = walk.totals /\ walk'.grown = walk.grown
    BY <1>1 DEF count, Continue, MInv, LInv, LTyped, WalkFields
  <2>2. IsFiniteSet({}) /\ DOMAIN <<>> = {}
    BY FS_EmptySet
  <2>3. Money'
    BY <2>1, <2>2 DEF Money, MInv
  <2>4. TotalsAddUp'
    BY <2>1 DEF MInv, TotalsAddUp
  <2>. QED BY <2>3, <2>4
<1>2. CASE SameCurrency(page) /\ Shows(page)
  <2>1. /\ walk'.page = <<>> /\ walk'.shown = walk.shown \cup items
        /\ walk'.totals = [walk.totals EXCEPT ![currency] = @ + sum_money(items)]
        /\ walk'.grown = walk.grown
        /\ walk.pc = "count" /\ currency \in Currencies
    BY <1>2 DEF count, Continue, MInv, LInv, LTyped, WalkFields
  <2>2. /\ IsFiniteSet(items)
        /\ \A r \in items : r.id \in DOMAIN page /\ r.amount \in Int /\ r.currency = currency
    <3> DEFINE response(id) == [id |-> id, amount |-> page[id].amount,
                                currency |-> page[id].currency]
               f == [id \in DOMAIN page |-> response(id)]
    <3>1. IsFiniteSet(DOMAIN page) /\ \A id \in DOMAIN page : page[id].amount \in Int
      BY DEF MInv, Money
    <3>2. items = {f[id] : id \in DOMAIN page}
      BY DEF ExpenseResponse
    <3>3. f \in Surjection(DOMAIN page, items)
      BY <3>2 DEF Surjection
    <3>4. \A id \in DOMAIN page : page[id].currency = currency
      BY <1>2 DEF SameCurrency
    <3>5. \A r \in items : r.id \in DOMAIN page /\ r.amount \in Int /\ r.currency = currency
      BY <3>1, <3>4 DEF ExpenseResponse
    <3> HIDE DEF f, items
    <3>6. IsFiniteSet(items)
      BY <3>1, <3>3, FS_Surjection
    <3>. QED BY <3>5, <3>6
  <2> HIDE DEF items
  <2>3. Money'
    <3>1. IsFiniteSet(walk'.shown) /\ \A r \in walk'.shown : r.amount \in Int
      <4>1. IsFiniteSet(walk.shown) /\ \A r \in walk.shown : r.amount \in Int
        BY DEF MInv, Money
      <4>2. IsFiniteSet(walk.shown \cup items)
        BY <2>2, <4>1, FS_Union
      <4>. QED BY <2>1, <2>2, <4>1, <4>2
    <3>2. sum_money(items) \in Int
      <4>1. IsFiniteSet({}) /\ items \cap {} = {} /\ \A x \in items \cup {} : x.amount \in Int
        BY <2>2, FS_EmptySet
      <4>. QED BY <2>2, <4>1, SumMoneyApart
    <3>3. walk'.totals \in [Currencies -> Int]
      BY <2>1, <3>2 DEF MInv, Money
    <3>4. IsFiniteSet(DOMAIN walk'.page) /\ \A id \in DOMAIN walk'.page : FALSE
      <4>1. DOMAIN <<>> = {}
        OBVIOUS
      <4>. QED BY <2>1, <4>1, FS_EmptySet
    <3>. QED BY <3>1, <3>3, <3>4 DEF Money
  <2>4. TotalsAddUp'
    <3> SUFFICES ASSUME ~walk.grown, NEW c \in Currencies
                 PROVE  walk'.totals[c] = sum_money({r \in walk'.shown : r.currency = c})
      BY <2>1 DEF TotalsAddUp
    <3>1. /\ walk.totals \in [Currencies -> Int]
          /\ walk.totals[c] = sum_money(ShownIn(c))
      BY DEF MInv, Money, TotalsAddUp, ShownIn
    <3>2. CASE c # currency
      <4>1. {r \in walk'.shown : r.currency = c} = ShownIn(c)
        BY <2>1, <2>2, <3>2 DEF ShownIn
      <4>. QED BY <2>1, <3>1, <3>2, <4>1
    <3>3. CASE c = currency
      <4>1. {r \in walk'.shown : r.currency = c} = ShownIn(c) \cup items
        BY <2>1, <2>2, <3>3 DEF ShownIn
      <4>2. ShownIn(c) \cap items = {}
        <5>1. Seen \cap DOMAIN page = {}
          BY <2>1 DEF MInv, LInv, Once
        <5>. QED BY <2>2, <5>1 DEF Seen, ShownIn
      <4>3. IsFiniteSet(ShownIn(c)) /\ \A r \in ShownIn(c) : r.amount \in Int
        BY FS_Subset DEF MInv, Money, ShownIn
      <4>4. \A r \in ShownIn(c) \cup items : r.amount \in Int
        BY <2>2, <4>3
      <4>5. sum_money(ShownIn(c) \cup items) = sum_money(ShownIn(c)) + sum_money(items)
        BY <2>2, <4>2, <4>3, <4>4, SumMoneyApart
      <4>6. walk'.totals[c] = walk.totals[c] + sum_money(items)
        BY <2>1, <3>1, <3>3
      <4>. QED BY <3>1, <4>1, <4>5, <4>6
    <3>. QED BY <3>2, <3>3
  <2>. QED BY <2>3, <2>4
<1>. QED BY <1>1, <1>2

LEMMA MInvStep == MInv /\ [Next]_vars => MInv'
<1> SUFFICES ASSUME MInv, [Next]_vars PROVE MInv'
  OBVIOUS
<1>1. LInv'
  BY LInvStep DEF MInv
<1>2. ASSUME NEW query \in Queries, ask(query) PROVE Money' /\ TotalsAddUp'
  BY <1>2, AskMoney
<1>3. CASE list
  BY <1>1, <1>3, ListMoney DEF MInv
<1>4. CASE count
  BY <1>1, <1>4, CountMoney DEF MInv
<1>5. ASSUME NEW id \in Ids,
             \/ \E c \in Purchases : record(id, c)
             \/ \E c \in Updates : update(id, c)
             \/ delete(id)
      PROVE  Money' /\ TotalsAddUp'
  <2>1. Noticed
    BY <1>5 DEF record, update, delete
  <2>. QED BY <2>1, NoticedMoney
<1>6. ASSUME NEW c \in Currencies, restart(c) PROVE Money' /\ TotalsAddUp'
  BY <1>6, RestartMoney
<1>7. CASE UNCHANGED vars
  <2>1. walk' = walk
    BY <1>7 DEF vars
  <2>. QED BY <1>1, <2>1, Untouched DEF MInv
<1>. QED BY <1>1, <1>2, <1>3, <1>4, <1>5, <1>6, <1>7 DEF Next, MInv

LEMMA MInvInit == Init => MInv
<1> SUFFICES ASSUME Init PROVE MInv
  OBVIOUS
<1>1. walk.page = <<>> /\ walk.shown = {} /\ walk.totals = [c \in Currencies |-> 0]
  BY DEF Init, Rest
<1>2. IsFiniteSet({}) /\ DOMAIN <<>> = {}
  BY FS_EmptySet
<1>3. Money
  BY <1>1, <1>2 DEF Money
<1>4. sum_money({}) = 0
  <2>1. sum_money({}) = Sum([x \in {} |-> x.amount], {})
    BY FS_EmptySet, SumMoney
  <2>2. Sum([x \in {} |-> x.amount], {}) = 0
    BY FS_EmptySet, SumOne
  <2>. QED BY <2>1, <2>2
<1>5. TotalsAddUp
  <2>1. \A c \in Currencies : /\ walk.totals[c] = 0
                              /\ {r \in walk.shown : r.currency = c} = {}
    BY <1>1
  <2>. QED BY <1>4, <2>1 DEF TotalsAddUp
<1>. QED BY <1>3, <1>5, LInvInit DEF MInv

\* For any number of expenses, currencies and pages, what a client was told that
\* the pages come to is what it was shown, currency by currency, whatever the
\* default currency was when an expense or a page was written, unless an expense
\* came into the list meanwhile (money.py:140-145, expenses.py:196-222).
THEOREM TotalsAgree == Spec => []TotalsAddUp
<1>1. MInv => TotalsAddUp
  BY DEF MInv
<1>. QED BY <1>1, MInvInit, MInvStep, PTL DEF Spec
-----------------------------------------------------------------------------
(* The months.                                                             *)

\* The theorems of the calendar kernel; its wall, of which they say nothing, is
\* one that never leaves 1 Meskerem 1.
Meskerem == [year |-> 1, month |-> 1, day |-> 1]
August == [year |-> 8, month |-> 8, day |-> 27]
Kernel == INSTANCE CalendarTheorems
            WITH FirstDay <- 2796, LastDay <- 2796, FirstEt <- Meskerem, FirstGreg <- August,
                 today <- 2796, et <- Meskerem, greg <- August

LEMMA KernelWindow == Kernel!WindowAssumption
<1>1. 2796 \in 1..Kernel!MaxOrdinal /\ 2796 \in 2796..Kernel!MaxOrdinal
  <2>1. Kernel!MaxOrdinal \in Int /\ Kernel!MaxOrdinal >= 2796
    BY SMT DEF Kernel!MaxOrdinal
  <2>. QED BY <2>1
<1>2. Meskerem \in Kernel!EthiopianDate /\ Kernel!ethiopian_to_gregorian(Meskerem) = 2796
  BY SMT DEF Meskerem, Kernel!EthiopianDate, Kernel!validate_ethiopian_date,
      Kernel!ethiopian_month_length, Kernel!ethiopian_to_gregorian,
      Kernel!JDEpochOffsetAmeteMihret, Kernel!GregorianOrdinalToJDN
<1>3. August \in [year : Int, month : 1..12, day : 1..31]
  BY DEF August
<1>4. August.day <= Kernel!monthrange(August.year, August.month)
  BY DEF August, Kernel!monthrange
<1>5. Kernel!toordinal(August.year, August.month, August.day) = 2796
  BY DEF August, Kernel!toordinal, Kernel!DaysBeforeYear, Kernel!DaysBeforeMonth,
      Kernel!IsGregorianLeap
<1>. QED BY <1>1, <1>2, <1>3, <1>4, <1>5 DEF Kernel!WindowAssumption

LEMMA SameKernel ==
    ASSUME NEW n, NEW p, NEW kind
    PROVE  /\ from_date(n, kind) = Kernel!from_date(n, kind)
           /\ contains(p, n) <=> Kernel!contains(p, n)
           /\ Period = Kernel!Period
           /\ CalendarKind = Kernel!CalendarKind
           /\ Ethiopian = Kernel!Ethiopian
<1>1. from_date(n, kind) = Kernel!from_date(n, kind)
  BY DEF from_date, gregorian_to_ethiopian, JDEpochOffsetAmeteMihret,
         GregorianOrdinalToJDN, YearOf, MonthOf, IsGregorianLeap, monthrange,
         DaysBeforeYear, DaysBeforeMonth, toordinal, Ethiopian,
         Kernel!from_date, Kernel!gregorian_to_ethiopian,
         Kernel!JDEpochOffsetAmeteMihret, Kernel!GregorianOrdinalToJDN, Kernel!YearOf,
         Kernel!MonthOf, Kernel!IsGregorianLeap, Kernel!monthrange,
         Kernel!DaysBeforeYear, Kernel!DaysBeforeMonth, Kernel!toordinal,
         Kernel!Ethiopian
<1>2. \A d : day(p, d) = Kernel!day(p, d)
  BY DEF day, length_in_days, ethiopian_month_length, is_ethiopian_leap_year,
         ethiopian_to_gregorian, JDEpochOffsetAmeteMihret, GregorianOrdinalToJDN,
         IsGregorianLeap, monthrange, DaysBeforeYear, DaysBeforeMonth, toordinal,
         Ethiopian,
         Kernel!day, Kernel!length_in_days, Kernel!ethiopian_month_length,
         Kernel!is_ethiopian_leap_year, Kernel!ethiopian_to_gregorian,
         Kernel!JDEpochOffsetAmeteMihret, Kernel!GregorianOrdinalToJDN,
         Kernel!IsGregorianLeap, Kernel!monthrange, Kernel!DaysBeforeYear,
         Kernel!DaysBeforeMonth, Kernel!toordinal, Kernel!Ethiopian
<1>3. length_in_days(p) = Kernel!length_in_days(p)
  BY DEF length_in_days, ethiopian_month_length, is_ethiopian_leap_year, monthrange,
         IsGregorianLeap, Ethiopian,
         Kernel!length_in_days, Kernel!ethiopian_month_length,
         Kernel!is_ethiopian_leap_year, Kernel!monthrange, Kernel!IsGregorianLeap,
         Kernel!Ethiopian
<1>4. gregorian_span(p) = Kernel!gregorian_span(p)
  BY <1>2, <1>3 DEF gregorian_span, Kernel!gregorian_span
<1>5. contains(p, n) <=> Kernel!contains(p, n)
  BY <1>4 DEF contains, Kernel!contains
<1>6. /\ Period = Kernel!Period /\ CalendarKind = Kernel!CalendarKind
      /\ Ethiopian = Kernel!Ethiopian
  BY DEF Period, CalendarKind, months_per_year, Ethiopian, Gregorian,
         Kernel!Period, Kernel!CalendarKind, Kernel!months_per_year, Kernel!Ethiopian,
         Kernel!Gregorian
<1>. QED BY <1>1, <1>5, <1>6

\* A day that is shown in the Ethiopian calendar is not before its first one
\* (spend_date.py:97-111).
LEMMA Described ==
    ASSUME NEW n \in Int, describes(n)
    PROVE  n >= 2796
<1> DEFINE d == n - 2431
           c == d \div 1461
           r == d % 1461
<1>1. c \in Int /\ r \in 0..1460 /\ d = 1461 * c + r
  OBVIOUS
<1>2. gregorian_to_ethiopian(n).year = 4 * c + r \div 365 - r \div 1460
  BY DEF gregorian_to_ethiopian, GregorianOrdinalToJDN, JDEpochOffsetAmeteMihret
<1>3. gregorian_to_ethiopian(n).year >= 1
  BY DEF describes, validate_ethiopian_date
<1> HIDE DEF c, r
<1>4. 4 * c + r \div 365 - r \div 1460 >= 1
  BY <1>2, <1>3
<1>5. c >= 0
  BY <1>1, <1>4
<1>6. c = 0 => r >= 365
  BY <1>1, <1>4
<1>. QED BY <1>1, <1>5, <1>6

\* The list of a month is what was bought on the days of that month
\* (expenses.py:165-172, repositories.py:120-131).
LEMMA ListOfAMonth ==
    ASSUME LTyped, NEW p \in Months, NEW id \in Ids, expenses[id] # None
    PROVE  id \in Found(OfMonth(p)) <=> contains(p, expenses[id].spent_on)
<1>1. OfMonth(p).period = p /\ p # None /\ OfMonth(p).category_ids = {}
  BY QueryAssumption DEF OfMonth
<1>2. Spans[OfMonth(p)] = gregorian_span(p)
  <2>1. OfMonth(p) \in Queries \cup {OfMonth(q) : q \in Months}
    OBVIOUS
  <2>2. Spans[OfMonth(p)] = SpanOf(OfMonth(p))
    BY <2>1 DEF Spans
  <2>. QED BY <1>1, <2>2 DEF SpanOf
<1>3. matches(expenses[id], OfMonth(p)) <=> contains(p, expenses[id].spent_on)
  BY <1>1, <1>2 DEF matches, contains
<1>. QED BY <1>3 DEF Found

\* Where people may ask for any Period, an expense is listed under one month of
\* each calendar, whatever its day, the months of either being what they are
\* (spend_date.py:68-69, expenses.py:165-172).
THEOREM FiledOnce == ASSUME Months = Period PROVE Spec => []FiledUnderOneMonth
<1>1. ASSUME LTyped, NEW id \in Ids, NEW kind \in CalendarKind, expenses[id] # None,
             kind = Ethiopian => describes(expenses[id].spent_on)
      PROVE  {p \in Months : p.calendar = kind /\ id \in Found(OfMonth(p))}
               = {from_date(expenses[id].spent_on, kind)}
  <2> DEFINE n == expenses[id].spent_on
             f == from_date(n, kind)
  <2>1. n \in Int /\ n >= 1
    BY <1>1, LastDay DEF LTyped, Row
  <2>2. /\ kind \in Kernel!CalendarKind
        /\ n >= IF kind = Kernel!Ethiopian THEN Kernel!FirstMeskerem ELSE 1
    <3>1. kind \in Kernel!CalendarKind /\ Ethiopian = Kernel!Ethiopian
      BY SameKernel
    <3>2. kind = Ethiopian => n >= 2796
      BY <1>1, <2>1, Described
    <3>. QED BY <2>1, <3>1, <3>2 DEF Kernel!FirstMeskerem
  <2>3. /\ Kernel!from_date(n, kind) \in Kernel!Period
        /\ \A p \in Kernel!Period : p.calendar = kind =>
              (Kernel!contains(p, n) <=> p = Kernel!from_date(n, kind))
    <3> HIDE DEF n, f
    <3>. QED BY <2>1, <2>2, KernelWindow, Kernel!InOnePeriod DEF Kernel!WindowAssumption
  <2>4. f \in Period /\ f.calendar = kind
    BY <2>3, SameKernel DEF from_date
  <2>5. \A p \in Months : p.calendar = kind => (id \in Found(OfMonth(p)) <=> p = f)
    BY <1>1, <2>3, SameKernel, ListOfAMonth
  <2>. QED BY <2>4, <2>5
<1>2. LInv => FiledUnderOneMonth
  BY <1>1 DEF LInv, FiledUnderOneMonth
<1>. QED BY <1>2, LInvInit, LInvStep, PTL DEF Spec
-----------------------------------------------------------------------------
(* The report of a month.                                                  *)

\* The two WHERE clauses agree: what is reported is what is listed with an item
\* line (repositories.py:122-131 and 193-199).
LEMMA UsedIsListed ==
    ASSUME LTyped, NEW p \in Months
    PROVE  Used(p) = {id \in Found(OfMonth(p)) : expenses[id].line # None}
<1>1. Since[p] = gregorian_span(p).first /\ Until[p] = gregorian_span(p).last
  BY DEF Since, Until
<1>2. \A id \in Ids : expenses[id] # None =>
         (id \in Found(OfMonth(p)) <=> contains(p, expenses[id].spent_on))
  BY ListOfAMonth
<1>3. Found(OfMonth(p)) \subseteq {id \in Ids : expenses[id] # None}
  BY DEF Found
<1>4. \A id \in Ids : expenses[id] # None =>
         (used(expenses[id], p) <=> /\ expenses[id].line # None
                                    /\ contains(p, expenses[id].spent_on))
  BY <1>1 DEF used, contains
<1>. QED BY <1>2, <1>3, <1>4 DEF Used

\* A group is what is listed of the item and the unit of any of its rows, and
\* whatever is listed of an item in a unit is a group (repositories.py:200).
LEMMA GroupIsListed ==
    ASSUME LTyped, NEW p \in Months
    PROVE  /\ \A g \in Groups(p) :
                 /\ g # {}
                 /\ \A id \in g : g = Listed(p, expenses[id].line.item, expenses[id].line.unit)
           /\ \A item, unit : Listed(p, item, unit) # {} => Listed(p, item, unit) \in Groups(p)
<1>1. \A item, unit : Listed(p, item, unit) =
         {id \in Used(p) : group_by(expenses[id]) = <<item, unit>>}
  BY UsedIsListed DEF Listed, group_by
<1>2. ASSUME NEW g \in Groups(p)
      PROVE  /\ g # {}
             /\ \A id \in g : g = Listed(p, expenses[id].line.item, expenses[id].line.unit)
  <2>1. PICK x \in Used(p) : g = {id \in Used(p) : group_by(expenses[id]) = group_by(expenses[x])}
    BY DEF Groups
  <2>2. \A id \in g : group_by(expenses[id]) = group_by(expenses[x])
    BY <2>1
  <2>3. \A id \in g : g = Listed(p, expenses[id].line.item, expenses[id].line.unit)
    BY <1>1, <2>1, <2>2 DEF group_by
  <2>. QED BY <2>1, <2>3
<1>3. ASSUME NEW item, NEW unit, Listed(p, item, unit) # {}
      PROVE  Listed(p, item, unit) \in Groups(p)
  <2>1. PICK x \in Used(p) : group_by(expenses[x]) = <<item, unit>>
    BY <1>1, <1>3
  <2>. QED BY <1>1, <2>1 DEF Groups
<1>. QED BY <1>2, <1>3

\* Of an item in a unit there is one line, and it is of what is listed of them,
\* or there is none.
LEMMA LinesOfAUnit ==
    ASSUME LTyped, NEW p \in Months, NEW item, NEW unit
    PROVE  {l \in item_usage(p) : l.item = item /\ l.unit = unit}
             = IF Listed(p, item, unit) = {} THEN {} ELSE {ItemUsageLine(Listed(p, item, unit))}
<1> DEFINE bought == Listed(p, item, unit)
<1>1. \A g : /\ ItemUsageLine(g).item = expenses[CHOOSE id \in g : TRUE].line.item
             /\ ItemUsageLine(g).unit = expenses[CHOOSE id \in g : TRUE].line.unit
  BY DEF ItemUsageLine
<1>2. \A g \in Groups(p) :
         /\ g # {}
         /\ g = Listed(p, ItemUsageLine(g).item, ItemUsageLine(g).unit)
  <2> TAKE g \in Groups(p)
  <2>1. g # {} /\ (CHOOSE id \in g : TRUE) \in g
    BY GroupIsListed
  <2>. QED BY <1>1, <2>1, GroupIsListed
<1>3. \A l \in item_usage(p) : l.item = item /\ l.unit = unit =>
         bought # {} /\ l = ItemUsageLine(bought)
  BY <1>2 DEF item_usage
<1>4. bought # {} => /\ ItemUsageLine(bought) \in item_usage(p)
                     /\ ItemUsageLine(bought).item = item
                     /\ ItemUsageLine(bought).unit = unit
  <2> SUFFICES ASSUME bought # {}
               PROVE  /\ ItemUsageLine(bought) \in item_usage(p)
                      /\ ItemUsageLine(bought).item = item
                      /\ ItemUsageLine(bought).unit = unit
    OBVIOUS
  <2>1. bought \in Groups(p)
    BY GroupIsListed
  <2>2. \A id \in bought : expenses[id].line.item = item /\ expenses[id].line.unit = unit
    BY DEF Listed
  <2>3. (CHOOSE id \in bought : TRUE) \in bought
    OBVIOUS
  <2>4. ItemUsageLine(bought) \in item_usage(p)
    BY <2>1 DEF item_usage
  <2> HIDE DEF bought
  <2>. QED BY <1>1, <2>2, <2>3, <2>4
<1> HIDE DEF bought
<1>. QED BY <1>3, <1>4 DEF bought

\* For any number of expenses, items and units, in any currencies, a month's
\* report says of each item in each unit what the month's list shows of it, once
\* (item_usage.py:42-76, repositories.py:175-206).
THEOREM ReportsAgree == Spec => []ReportsWhatIsListed
<1>1. LTyped => ReportsWhatIsListed
  <2> SUFFICES ASSUME LTyped, NEW p \in Months,
                      NEW item \in {l.item : l \in Lines}, NEW unit \in {l.unit : l \in Lines}
               PROVE  LET bought == Listed(p, item, unit)
                          lines  == {l \in item_usage(p) : l.item = item /\ l.unit = unit}
                      IN /\ Cardinality(lines) = IF bought = {} THEN 0 ELSE 1
                         /\ \A l \in lines :
                               /\ l.total_quantity = TotalOf(bought, quantity)
                               /\ l.entry_count = Cardinality(bought)
                               /\ (\A id \in bought : expenses[id].currency = currency) =>
                                     l.total_amount = [minor_units |-> TotalOf(bought, amount_of),
                                                       currency |-> currency]
    BY DEF ReportsWhatIsListed
  <2> DEFINE bought == Listed(p, item, unit)
             lines  == {l \in item_usage(p) : l.item = item /\ l.unit = unit}
  <2>1. lines = IF bought = {} THEN {} ELSE {ItemUsageLine(bought)}
    BY LinesOfAUnit
  <2>2. /\ ItemUsageLine(bought).total_quantity = TotalOf(bought, quantity)
        /\ ItemUsageLine(bought).entry_count = Cardinality(bought)
        /\ ItemUsageLine(bought).total_amount
             = [minor_units |-> TotalOf(bought, amount_of), currency |-> currency]
    BY DEF ItemUsageLine
  <2>3. Cardinality(lines) = IF bought = {} THEN 0 ELSE 1
    <3> HIDE DEF bought, lines
    <3>. QED BY <2>1, FS_EmptySet, FS_Singleton
  <2>4. \A l \in lines : l = ItemUsageLine(bought)
    <3> HIDE DEF bought, lines
    <3>. QED BY <2>1
  <2>. QED BY <2>2, <2>3, <2>4
<1>. QED BY <1>1, LInvInit, LInvStep, PTL DEF Spec, LInv
=============================================================================
