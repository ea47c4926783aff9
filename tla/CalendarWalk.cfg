CONSTANTS
    FirstDay = 693596
    LastDay = 767009
    FirstEt <- Et1900
    FirstGreg <- Greg1900
SPECIFICATION Spec
INVARIANT TypeOK
INVARIANT ConversionFollowsTheCalendar
INVARIANT PeriodsTileTheDays
INVARIANT CounterpartSharesTheMostDays
INVARIANT LabelNamesEveryMonth
INVARIANT MonthsLaterKeepTheirOrder
CHECK_DEADLOCK FALSE
