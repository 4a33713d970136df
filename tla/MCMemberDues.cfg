CONSTANTS
    Joins = 2
    Budgets <- OneTheme
SPECIFICATION MCSpec
INVARIANTS HistoryKept DuesFollowStripe DoubleChargeExplained
PROPERTIES SuppressionKept RowConverges
CHECK_DEADLOCK FALSE
