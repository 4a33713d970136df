SPECIFICATION Spec
CONSTANTS
    alice = alice
    bob = bob
    standard = standard
    None = None
    Registrations = {alice, bob}
    TicketTypes = {standard}
    MaxOrders = 2
    Capacity = 2
    Quantity <- LastTicket
    MaxPerOrder = 1
    MaxGuests = 0
    Responses = {"GOING", "MAYBE"}
    PaidKinds = {"completed"}
    Repeats = {"completed", "declined", "expired"}
    NoReceipt = {}
INVARIANTS
    HoldTracksOrder
    SettledMeansCaptured
    OversellExplained
PROPERTIES
    SettledIsFinal
    KeepsPromises
SYMMETRY Symmetry
CHECK_DEADLOCK FALSE
