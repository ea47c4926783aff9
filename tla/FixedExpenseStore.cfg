CONSTANTS
    r1 = r1
    r2 = r2
    r3 = r3
    s1 = s1
    s2 = s2
    Requests = {r1, r2, r3}
    SettlementIds = {s1, s2}
    Anchor = "ethiopian"
    Month <- Months
    Money <- Birr
    Open = Open
    MaxEdits = 3
    None = None
SPECIFICATION Spec
SYMMETRY Alike
INVARIANTS OneSettlementPerPeriod WholeUnlessStale
PROPERTY OnlyWhatWasAsked
CHECK_DEADLOCK FALSE
