SPECIFICATION FairSpec
CONSTANTS
    w1 = w1
    w2 = w2
    Workers = {w1, w2}
    MaxAttempts = 3
    Events = {"DELIVERED", "BOUNCED", "FAILED"}
    Idempotent = FALSE
INVARIANTS
    DuplicatesExplained
    BlankExplained
PROPERTIES
    ReportsOnlyAdvance
    RetriesEnd
CHECK_DEADLOCK FALSE
