SPECIFICATION Spec
CONSTANTS
    o1 = o1
    o2 = o2
    r1 = r1
    r2 = r2
    r3 = r3
    c1 = c1
    c2 = c2
    i1 = i1
    i2 = i2
    e1 = e1
    e2 = e2
    kg = kg
    None = None
    Clear = Clear
    Owners = {o1, o2}
    Requests = {r1, r2}
    CategoryIds = {c1, c2}
    ItemIds = {i1, i2}
    ExpenseIds = {e1}
    Names = {"Food", "FOOD", "Drinks"}
    KeyOf <- Folded
    Quantities = {0, 1, 2}
    Units = {kg}
    Commands <- Lines
INVARIANT ItemLinesWhole
