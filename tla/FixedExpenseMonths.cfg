CONSTANTS
    Named <- Asked
    Month <- GrIndexes
    AnchorOf <- ToGregorian
    OtherMonths <- EtMonths
    Money <- Amounts
    Details = {d1, d2}
    Open = Open
SPECIFICATION Spec
INVARIANT OneOccurrencePerMonth
