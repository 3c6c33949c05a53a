SPECIFICATION Spec
CONSTANTS
    Pairs = {p1}
    NoPair = NoPair
    MaxOrders = 4
    MaxRetries = 3
    BrokerActs = {"stop", "cancel"}
    Faults = {}
    MaxFaults = 0
    EntrySizes = {2, 5}
    MaxUnits = 5
    MaxPendingTicks = 2
    MaxTranches = 3
    ProfitLevels = 2
    ScalePercent = 33
    Jobs = {}
INVARIANTS TypeOK LiveOrdersTracked ExposureWithinOneOrder AbortClearsTable
CHECK_DEADLOCK FALSE
