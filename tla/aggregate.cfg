\* Two clients of the aggregating gateway
SPECIFICATION FairSpec
CONSTANTS
    Clients <- Sensors
    Kinds <- Asks
    MaxTableSize = 1
    MaxRetryCnt = 1
    MaxMsgId = 1
    MaxPacketId = 3
    MaxQueue = 2
    MaxFaults = 1
INVARIANTS
    TypeOK
    TableOK
PROPERTIES
    Exchanges
    ProxyRecovers
CHECK_DEADLOCK FALSE
