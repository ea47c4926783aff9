CONSTANTS
    Named <- Asked
    Month <- EtIndexes
    AnchorOf <- ToEthiopian
    OtherMonths <- GrMonths
    Money <- Amounts
    Details = {d1, d2}
    Open = Open
SPECIFICATION Spec
INVARIANT TypeOK
INVARIANT OneSettlementPerPeriod
INVARIANT SettlementsReachable
INVARIANT OneCurrency
INVARIANT PaymentsAreReported
PROPERTY KeepsTheBook
