SPECIFICATION Spec
CONSTANTS
    TrapStack = 14
    ProgramStack = 13
    Exceptions = {3, 17}
    Irqs = {0, 1}
    EipCount = 2
    Depth = 1
    TickWrap = 2
    MaxTraps = 3
INVARIANTS TypeOK PrivilegeAgrees FrameBuilt
PROPERTIES ProgramGoesOn
