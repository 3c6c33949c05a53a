\* One component at a time, each on the smallest instance that shows its cases.
SPECIFICATION PlatformSpec
CONSTANTS
    Prices = {1000, 1080}
    Atrs = {10, 20}
    MaxStopTrades = 2
    MaxLost = 1
    StopMult = 3
    TrailMult = 2
    ActivatePct = 5
    ProfitScale <- Scale
    MinSeverity = 1
    MaxMisses = 2
    MaxUpdates = 2
    MaxBotRestarts = 1
    MaxClosed = 4
    MaxVersions = 3
    RecentTrades = 3
    MinRecent = 1
    ShadowTrades = 2
    MaxPaperOrders = 2
    Lots = {0, 1, 2}
    PaperPrices = {98, 100}
    Leverage = 50
    InitialBalance = 5
    Commission = 0
    Slippages = {0, 1}
    SwapRate = 1
    MaxBars = 4
    Closes = {96, 100, 107}
    BarAtr = 2
    Capital = 1000
    SizePct = 10
    Fee = 90
    Slip = 1
    OptimizedRegimes = {"trend_low_vol", "range_high_vol"}
    MaxParamSets = 3
    Strengths = {40, 60, 100}
    StaticEvents <- File
    FeedEvents <- Feed
    BojEvents = {"boj"}
    Meetings = {11}
    EventWindow = 1
    BojWindow = 2
    DaySlots = 6
    LastSlot = 13
    HistoryDays = 7
    Horizon = 5
    DayCloses = {1, 2}
    Holidays <- Free
    WeekDays = 3
    WeeklyMaPeriod = 2
    TrainDays = 3
    TestDays = 1
    StepDays = 1
    MinTrainBars = 2
    MinTestBars = 1
    ParamGrid = {1, 2}
    CurveDays = 4
    PairEquities = {98, 101}
    PortfolioCapital = 20
    TradeResults <- Results
    TradeSwaps = {1}
    Marks <- MarkSet
    DurationLimit = 2
INVARIANTS
    PlatformTypeOK
    MissMeansIdleMarket
    ArtifactsAreKept
    FilterIsEarned
    NetPositionIsFills
    
    EntryAvoidsEvents
    NoLookAhead
    ReportsAreRight
PROPERTIES
    StopsRatchet
    DeliveryRefined
    ActiveSetsAreMeasured
CHECK_DEADLOCK FALSE
