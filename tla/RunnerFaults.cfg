SPECIFICATION FairSpec
CONSTANTS
    Pairs = {p1}
    NoPair = NoPair
    MaxOrders = 2
    MaxRetries = 3
    BrokerActs = {"stop"}
    Faults = {"unreachable", "lost_reply", "restart"}
    MaxFaults = 1
    EntrySizes = {2}
    MaxUnits = 3
    MaxPendingTicks = 2
    MaxTranches = 3
    ProfitLevels = 2
    ScalePercent = 33
    Jobs = {"rollover"}
PROPERTIES TableConverges PendingResolved DegradedPlacesNoOrder
CHECK_DEADLOCK FALSE
