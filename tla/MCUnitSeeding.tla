--------------------------- MODULE MCUnitSeeding ---------------------------
EXTENDS UnitSeeding

CONSTANTS p1, p2, r1, r2

SeedList == <<"kg", "bag">>

\* str.split() takes a tab away, and str.replace(" ", "") does not.
Stored   == [t \in {"kg", "B ag", "ba<tab>g", "crate"} |->
               CASE t = "kg" -> "kg" [] t = "crate" -> "crate" [] OTHER -> "bag"]
LookedUp == [t \in {"kg", "B ag", "ba<tab>g", "crate"} |->
               CASE t = "B ag" -> "bag" [] OTHER -> t]
=============================================================================
