--------------------------- MODULE MCCalendarWalk ---------------------------
(* A window that opens on 1 January 1900, 23 Tahsas 1892. *)
EXTENDS CalendarWalk

Et1900   == [year |-> 1892, month |-> 4, day |-> 23]
Greg1900 == [year |-> 1900, month |-> 1, day |-> 1]
=============================================================================
