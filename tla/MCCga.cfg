SPECIFICATION LineSpec
CONSTANTS
    CRT_ROWS = 3
    CRT_COLS = 2
    RegSize = 4
    Chars = {65}
    Attributes = {255}
    BiosCell <- MCBiosCell
    BUFSIZE = 5
    Prompts <- MCPrompts
    Typed = {4, 8, 10, 13, 32, 65}
INVARIANTS TypeOK CursorFollows LineShown SerialShown
PROPERTIES ShowsTerminal LineEdited
