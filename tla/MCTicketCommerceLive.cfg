SPECIFICATION FairSpec
CONSTANTS
    alice = alice
    bob = bob
    standard = standard
    None = None
    Registrations = {alice}
    TicketTypes = {standard}
    MaxOrders = 2
    Capacity = 2
    Quantity <- LastTicket
    MaxPerOrder = 2
    MaxGuests = 1
    Responses = {"GOING"}
    PaidKinds = {"completed"}
    Repeats = {}
    NoReceipt = {alice}
PROPERTIES
    CapturedIsHonoured
    HoldsExpire
CHECK_DEADLOCK FALSE
