SPECIFICATION FairSpec
CONSTANTS
    Pairs = {p1}
    NoPair = NoPair
    MaxOrders = 3
    MaxRetries = 3
    BrokerActs = {"stop"}
    Faults = {}
    MaxFaults = 0
    EntrySizes = {3}
    MaxUnits = 3
    MaxPendingTicks = 2
    MaxTranches = 3
    ProfitLevels = 2
    ScalePercent = 33
    Jobs = {"weekend", "rollover"}
INVARIANTS LiveOrdersTracked
PROPERTIES OrdersResolved MandateRefined
CHECK_DEADLOCK FALSE
