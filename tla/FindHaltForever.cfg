SPECIFICATION Spec
CONSTANTS
    Levels = {96, 100}
    InitialEquity = 100
    MaxDate = 4
    WeekLength = 7
    DailyLimit = 3
    WeeklyLimit = 7
    DrawdownLimit = 20
    HaltDD = 15
    CautionDD = 10
    VixLevels = {20}
    NoVix = NoVix
    VixHigh = 25
    VixClear = 23
    BaseUnits = 10
    Sizes = {4, 9}
    MaxRestarts = 0
INVARIANT HaltExpires
