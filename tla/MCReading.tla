----------------------------- MODULE MCReading -----------------------------
EXTENDS Reading, MCLedger

Query(op, e) == [op |-> op, owner |-> o1, expense |-> e]

Screens == {Query("list", None), Query("get", e1), Query("item_usage", None)}
=============================================================================
