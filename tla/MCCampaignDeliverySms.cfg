CONSTANTS
    Contacts = {ann, bob}
    Tests = {test}
    MaxAttempts = 2
    Segments = 1
    Included = 1
    Budgets <- OneOfEach
SPECIFICATION SmsSpec
INVARIANT SmsLimitKept
CHECK_DEADLOCK FALSE
