----------------------------- MODULE PaidMonths -----------------------------
(***************************************************************************)
(* What a Fixed Monthly Expense promises about money, without spans,       *)
(* calendars or pauses: a book of the months that were paid, one payment a *)
(* month, beside the amount the commitment stands at.  An entry changes    *)
(* only when it is corrected or undone by name, and the committed amount   *)
(* only when nothing else does, so that a later price never rewrites what  *)
(* was paid (FR-5.7).                                                      *)
(***************************************************************************)
EXTENDS Integers

CONSTANTS Money,         \* [minor, currency] amounts a caller can name
          Month          \* the months of the commitment's own calendar

VARIABLES paid,          \* month -> what was paid, over the months paid so far
          committed      \* what a month not paid yet costs

vars == <<paid, committed>>

Positive(m) == m.minor > 0

Init == /\ paid = [p \in {} |-> 0]
        /\ committed \in {m \in Money : Positive(m)}

Pay(p, m) ==
    /\ p \notin DOMAIN paid
    /\ Positive(m) /\ m.currency = committed.currency
    /\ paid' = [q \in DOMAIN paid \cup {p} |-> IF q = p THEN m ELSE paid[q]]
    /\ UNCHANGED committed

Undo(p) ==
    /\ p \in DOMAIN paid
    /\ paid' = [q \in DOMAIN paid \ {p} |-> paid[q]]
    /\ UNCHANGED committed

Correct(p, m) ==
    /\ p \in DOMAIN paid
    /\ Positive(m) /\ m.currency = committed.currency
    /\ paid' = [paid EXCEPT ![p] = m]
    /\ UNCHANGED committed

Recommit(m) ==
    /\ Positive(m) /\ m.currency = committed.currency
    /\ committed' = m
    /\ UNCHANGED paid

Next == \/ \E p \in Month, m \in Money : Pay(p, m) \/ Correct(p, m)
        \/ \E p \in Month : Undo(p)
        \/ \E m \in Money : Recommit(m)

Spec == Init /\ [][Next]_vars
=============================================================================
