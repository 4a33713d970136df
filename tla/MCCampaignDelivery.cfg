CONSTANTS
    Contacts = {ann, bob}
    Tests = {test}
    MaxAttempts = 2
    Segments = 1
    Included = 2
    Budgets <- OneOfEach
SPECIFICATION MCSpec
INVARIANTS WithinAllowance ReservationsAgree
  
CHECK_DEADLOCK FALSE
