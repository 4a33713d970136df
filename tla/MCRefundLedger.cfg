SPECIFICATION FairSpec
CONSTANTS
    first = first
    second = second
    Refunds = {first, second}
    Total = 4
    Fee = 1
    Amounts = {1, 3}
    MaxVersions = 2
    Days <- MCDays
INVARIANTS
    NeverUnderstated
    RefundedMeansAll
    FeeFollowsLedger
    RefundedIsSumOfSuccessful
PROPERTIES
    SucceededIsBooked
CHECK_DEADLOCK FALSE
