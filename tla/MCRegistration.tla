--------------------------- MODULE MCRegistration ---------------------------
EXTENDS Registration

CONSTANTS o1, o2, r1, r2, r3

Lowered == [t \in {"Sara@kise.et", "sara@kise.et", "abel@kise.et"} |->
              IF t = "abel@kise.et" THEN "abel@kise.et" ELSE "sara@kise.et"]

Starters == <<"food", "rent">>

Ask(op) == [op |-> op, typed |-> None, owner |-> None, key |-> None,
            calendar |-> None, language |-> None]

Register(t) == [Ask("register") EXCEPT !.typed = t, !.calendar = "ethiopian", !.language = "am"]
Create(o, k) == [Ask("create_category") EXCEPT !.owner = o, !.key = k]
Update(o)    == [Ask("update_preferences") EXCEPT !.owner = o]

Asked == {Register(t) : t \in {"Sara@kise.et", "sara@kise.et", "abel@kise.et"}}
         \cup {Create(o1, "rent"), [Update(o1) EXCEPT !.calendar = "gregorian"],
               [Update(o1) EXCEPT !.calendar = "ethiopian", !.language = "en"]}
=============================================================================
