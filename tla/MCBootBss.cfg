SPECIFICATION Spec
CONSTANTS
    SECTSIZE = 2
    Sectors = 12
    ADDRESSES = 24
    RegSize = 2
    LbaTop = 2
    HEADER = 2
    HDRSECTS = 2
    Images <- MCImages
    Unreadable <- MCUnreadable
INVARIANT BssZeroed
CHECK_DEADLOCK FALSE
