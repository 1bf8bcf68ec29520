SPECIFICATION Spec
CONSTANTS
    Drivers <- MCDrivers
    BiosMasks <- MCBiosMasks
    DidInitAtBoot = {FALSE}
    CONSBUFSIZE = 3
    SerialBytes <- MCSerialBytes
    ScanCodes <- MCScanCodes
    Burst = 3
INVARIANTS TypeOK DevicesEnabled
PROPERTIES BufferIsQueue FifoWithinCapacity CallReturns
