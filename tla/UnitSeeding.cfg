SPECIFICATION FairSpec
CONSTANTS
    p1 = p1
    p2 = p2
    r1 = r1
    r2 = r2
    None = None
    Processes = {p1, p2}
    Requests = {r1, r2}
    Codes = {"kg", "bag", "ba<tab>g", "crate"}
    Defaults <- SeedList
    Typed = {"kg", "B ag", "ba<tab>g", "crate"}
    CodeOf <- Stored
    LookupOf <- LookedUp
INVARIANTS OneUnitPerCode SystemUnitsTogether SeededUnlessExtended
PROPERTY ComesUp
