SPECIFICATION PicSpec
CONSTANTS
    Drivers <- MCDrivers
    BiosMasks <- MCBiosMasks
    DidInitAtBoot = {FALSE}
INVARIANT SpecialMaskCleared
