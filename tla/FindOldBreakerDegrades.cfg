SPECIFICATION Spec
CONSTANTS
    Levels = {90, 91, 100}
    Closes = {0}
    Opens = {FALSE}
    Duration = 9
    MaxDate = 3
    MaxRestarts = 0
    MinTrades = 10
    DegradeDD = 10
    DegradeLosing = 2
    DegradeCB = 1
    DegradeWin = 30
    AbortDD = 15
    AbortLosing = 3
    AbortCB = 2
    AbortWin = 20
    RecoverDD = 8
    RecoverProfit = 1
    RecoverQuiet = 1
PROPERTY DegradedByTodaysBreaker
CHECK_DEADLOCK FALSE
