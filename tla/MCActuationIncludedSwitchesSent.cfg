SPECIFICATION Spec
CONSTANTS
    Endpoints <- MCEndpoints
    Dimmable <- MCDimmable
    Servos <- MCServos
    Site = "gh1"
    LongName = "longName"
    Node = "n1"
    Messages <- MCMessages
    Identified <- MCServos
    MaxAir = 3
PROPERTIES
    IncludedSwitchesSent
