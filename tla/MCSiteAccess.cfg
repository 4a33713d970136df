SPECIFICATION Spec
CONSTANTS
    ann = ann
    ben = ben
    Owner = Owner
    Nobody = Nobody
    Admins = {ann, ben}
    OwnerMay = {"suspend", "resume", "hold", "unhold"}
    MaxEvents = 3
    MaxSecond = 1
    MaxRequests = 1
INVARIANTS
    LiveSiteIsEntitled
    NewestDecides
PROPERTY DeletesInGoodOrder
SYMMETRY Symmetry
CHECK_DEADLOCK FALSE
