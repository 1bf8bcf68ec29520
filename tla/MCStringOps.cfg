SPECIFICATION LoopsSpec
CONSTANTS
    MemSize = 7
    Contents <- MCContents
    Calls <- MCCalls
    MaxCalls = 2
INVARIANTS TypeOK
PROPERTIES KeepsPromise
CHECK_DEADLOCK FALSE
