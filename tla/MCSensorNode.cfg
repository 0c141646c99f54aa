SPECIFICATION Spec
INVARIANTS
    TypeOK
    NoStaleReading
    CO2FollowsTrigger
    AttributesTogether
PROPERTIES
    KeepsMeasuring
