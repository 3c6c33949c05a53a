SPECIFICATION Spec
CONSTANTS
    Pairs = {p1}
    NoPair = NoPair
    MaxOrders = 2
    MaxRetries = 3
    BrokerActs = {}
    Faults = {}
    MaxFaults = 0
    EntrySizes = {2}
    MaxUnits = 3
    MaxPendingTicks = 2
    MaxTranches = 3
    ProfitLevels = 2
    ScalePercent = 33
    Jobs = {}
PROPERTY FilledOrdersPromoted
CHECK_DEADLOCK FALSE
