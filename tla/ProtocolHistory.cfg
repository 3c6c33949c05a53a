SPECIFICATION FairSpec
CONSTANTS
    Levels = {84, 100}
    Closes = {0}
    Opens = {FALSE}
    Duration = 3
    MaxDate = 3
    MaxRestarts = 2
    MinTrades = 0
    DegradeDD = 10
    DegradeLosing = 1
    DegradeCB = 1
    DegradeWin = 30
    AbortDD = 15
    AbortLosing = 2
    AbortCB = 2
    AbortWin = 20
    RecoverDD = 8
    RecoverProfit = 1
    RecoverQuiet = 1
INVARIANTS TypeOK HistoryStored DatesIncreasing StatusSaved SofterFirst
PROPERTIES AbortHappens JournalRefined
CHECK_DEADLOCK FALSE
