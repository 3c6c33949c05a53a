SPECIFICATION Spec
CONSTANTS
    Pairs = {p1}
    NoPair = NoPair
    MaxOrders = 4
    MaxRetries = 3
    BrokerActs = {"stop"}
    Faults = {"restart"}
    MaxFaults = 2
    EntrySizes = {2}
    MaxUnits = 3
    MaxPendingTicks = 2
    MaxTranches = 3
    ProfitLevels = 2
    ScalePercent = 33
    Jobs = {}
INVARIANTS TranchesWithinLimit IdleStopKeepsProgress
CHECK_DEADLOCK FALSE
