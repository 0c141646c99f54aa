SPECIFICATION BSpec
CONSTANTS
    MaxRetry = 5
INVARIANTS
    BTypeOK
    RunningMeansFormed
    NoCommandDropped
    ConnectedSettles
    PortalAfterRetries
PROPERTIES
    StateForward
    BootCompletes
    SubscriptionAsked
    MqttFlagSettles
    DisconnectionAnswered
