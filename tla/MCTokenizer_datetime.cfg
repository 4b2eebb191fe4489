\* A local date-time in the last place.
CONSTANTS
    Documents <- LateDateTimes
    Writable <- Written
    Specifications = {"1.0"}
    cValueNestingLimit = 2
    cBareKeyCharacterLimit = 5
    cStringCharacterLimit = 5
    cIntOrFloatCharacterLimit = 8
    Bits = 8
SPECIFICATION TokenizerSpec
INVARIANT DeliversOnlyToml
CHECK_DEADLOCK FALSE
