SPECIFICATION Spec
CONSTANTS
    Levels = {84, 88, 92, 105}
    InitialEquity = 100
    MaxDate = 2
    WeekLength = 7
    DailyLimit = 3
    WeeklyLimit = 7
    DrawdownLimit = 20
    HaltDD = 15
    CautionDD = 10
    VixLevels = {84, 88, 92, 105}
    NoVix = NoVix
    VixHigh = 25
    VixClear = 23
    BaseUnits = 10
    Sizes = {4, 9}
    MaxRestarts = 1
INVARIANTS TypeOK 
PROPERTIES HaltAnnouncementKept CautionAnnouncementKept
