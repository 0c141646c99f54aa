SPECIFICATION Spec
CONSTANTS
    Endpoints <- MCEndpoints
    Dimmable <- MCDimmable
    Servos <- MCServos
    Site = "gh1"
    LongName = "longName"
    Node = "n1"
    Messages <- MCMessages
    Identified <- MCIdentified
    MaxAir = 2
INVARIANTS
    TypeOK
    CopiesAgree
    SettledAsCommanded
PROPERTIES
    ImplementsPanel
