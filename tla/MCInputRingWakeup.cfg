\* The claim NoSleepOverSamples.
SPECIFICATION Spec
CONSTANTS
    Capacity = 6
    MaxRead = 4
    MaxFloats = 8
    MaxPurges = 1
INVARIANT NoSleepOverSamples
CHECK_DEADLOCK FALSE
