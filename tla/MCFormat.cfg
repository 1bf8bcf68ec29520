SPECIFICATION FormatSpec
CONSTANTS
    Word = 64
    Room = 18
    Calls <- MCCalls
INVARIANTS TypeOK NumbersReadBack
PROPERTIES MeansWhatItSays FormatReturns
CHECK_DEADLOCK FALSE
