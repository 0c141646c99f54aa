SPECIFICATION Spec
INVARIANTS
    SoilTempMeasured
