SPECIFICATION Spec
CONSTANTS
    Images <- MCImages
    Frames <- MCFrames
    Sweep <- MCSweep
    MaxFlips = 3
CHECK_DEADLOCK FALSE
INVARIANTS
    ReadingsInRange
    MissedCalibration
    CorruptionRefused
    AlertsComplete
PROPERTIES
    OrderKept
    BmeOrderKept
