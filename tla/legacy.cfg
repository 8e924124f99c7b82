SPECIFICATION Spec
CONSTANTS
    timer = timer
    others = others
    Callers = {timer, others}
    Kinds <- MCKinds
    Amounts = {20}
    MinEntry = 10
    Fee = 1
    LaunchDay = 0
    FetchLimit = 3
    FundingValid = FALSE
    OpsValid = FALSE
    MaxDay = 3
    MaxDeposits = 2
    MaxIncidents = 1
INVARIANTS TypeOK OneRecordPerDay DrawsSettleTheirDay PayoutsMatchRecords CompletedMeansPaid PaidTwiceOnlyAfterTrouble
PROPERTIES RecordsKept CompletedStays DaysAreDrawn
CHECK_DEADLOCK FALSE
