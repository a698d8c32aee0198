SPECIFICATION Spec
CONSTANTS
    Tokens <- AllTokens
    MaxNodes = 3
    MaxText = 1
    Keys = {1, 2}
    MaxIndex = 5
    Bytes = {1, 9, 34, 38, 60, 61, 127, 128, 194, 255}
    MaxBytes = 4
    Starts = {18991230, 20000131, 20991201, 19961130, 10101, 99991201}
    MaxDays = 500
INVARIANTS NothingLost ParentLive CutRefused FindComplete TextSurvives DatesAgree
CHECK_DEADLOCK FALSE
