SPECIFICATION Spec
CONSTANTS
    Drivers <- MCDrivers
    BiosMasks <- MCBiosMasks
    DidInitAtBoot = {FALSE}
    CONSBUFSIZE = 3
    SerialBytes = {65}
    ScanCodes = {30}
    Burst = 5

PROPERTIES BufferIsFifo
