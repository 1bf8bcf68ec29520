SPECIFICATION FormatSpec
CONSTANTS
    Word = 64
    Room = 18
    Calls <- MCLeft
PROPERTY MeansWhatItSays
CHECK_DEADLOCK FALSE
