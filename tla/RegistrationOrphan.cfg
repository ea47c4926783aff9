SPECIFICATION Spec
CONSTANTS
    o1 = o1
    o2 = o2
    r1 = r1
    r2 = r2
    r3 = r3
    None = None
    Requests = {r1, r2, r3}
    OwnerIds = {o1, o2}
    Typed = {"Sara@kise.et", "sara@kise.et", "abel@kise.et"}
    Emails = {"sara@kise.et", "abel@kise.et"}
    AddressOf <- Lowered
    Keys = {"food", "rent", "books"}
    Defaults <- Starters
    Calendars = {"ethiopian", "gregorian"}
    Languages = {"am", "en"}
    Commands <- Asked
INVARIANT AccountsHaveCategories
