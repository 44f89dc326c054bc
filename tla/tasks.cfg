\* Two events and SIGINT at any time
SPECIFICATION FairSpec
CONSTANTS
    MaxSize = 2
    MaxEvents = 2
INVARIANTS
    TypeOK
    NoEventSleeps
PROPERTIES
    Delivers
    GatewayStops
CHECK_DEADLOCK FALSE
