SPECIFICATION Spec
CONSTANTS
    Keys <- MCKeys
    MaxHeld = 3
    Backlog = 1
INVARIANTS TypeOK NoStuckModifier NoLostModifier CapsFollows RightCharacter RebootOnlyByChord PrefixRemembered
