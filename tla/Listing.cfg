CONSTANTS
    Ids = {1, 2, 3}
    Typed <- Dates
    Amounts = {5, 7}
    Currencies = {"ETB", "USD"}
    Categories = {"food", "rent"}
    Lines <- Bought
    Purchases <- Shopping
    Updates <- Edits
    Months <- AroundNewYear
    Queries <- Screens
    Limit = 2
    MaxQuantity = 3
    None = None
    Keep = Keep
SPECIFICATION Spec
INVARIANTS NothingMissed NothingTwice TotalsAddUp FiledUnderOneMonth ReportsWhatIsListed
