SPECIFICATION PicSpec
CONSTANTS
    Drivers <- MCDrivers
    BiosMasks <- MCBiosMasks
    DidInitAtBoot = {FALSE, TRUE}
INVARIANTS PicTypeOK ExactlyEnabled ChipsProgrammed
PROPERTIES EnableOnlyOpens EnabledBecomesOpen
