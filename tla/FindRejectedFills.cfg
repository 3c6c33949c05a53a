SPECIFICATION PaperSpec
CONSTANTS
    MaxPaperOrders = 2
    Lots = {0, 1, 2}
    PaperPrices = {98, 100}
    Leverage = 50
    InitialBalance = 5
    Commission = 0
    Slippages = {0, 1}
    SwapRate = 1
PROPERTY InactiveNeverFills
CHECK_DEADLOCK FALSE
