\* Fairness of the program and of time only: the network and the gateway may stop.
\* REGISTER and REGACK may come more than once; every CONNECT is accepted.
SPECIFICATION FairSpec
CONSTANTS
    Loss = TRUE
    Duplicated = {"REGISTER", "REGACK"}
    SendErrors = FALSE
    Capacity = 2
    IdModulus = 65536
    Timers = {"ping", "publish"}
    MaxRetry = 1
    Uninit = {9}
    WillFlags = {FALSE}
    MaxMsgID = 4
    TopicNames = {1, 2}
    MaxInflight = 10
    MaxTopicID = 3
    MaxQueue = 1
    BrokerRefuses = FALSE
INVARIANTS
    LinkInvariant
    SlotInvariant
PROPERTY
    Responsive
CHECK_DEADLOCK FALSE
