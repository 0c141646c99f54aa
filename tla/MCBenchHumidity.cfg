SPECIFICATION Spec
CONSTANTS
    Images <- MCImages
    Frames <- MCFrames
    Sweep <- MCSweep
    MaxFlips = 0
CHECK_DEADLOCK FALSE
INVARIANTS
    HumidityInRange
