\* A second REGACK for the first topic ends the registration of the second.
SPECIFICATION Spec
CONSTANTS
    Loss = TRUE
    Duplicated = {}
    SendErrors = FALSE
    Capacity = 2
    IdModulus = 65536
    Timers = {"ping", "publish"}
    MaxRetry = 1
    Uninit = {9}
    WillFlags = {FALSE}
    MaxMsgID = 4
    TopicNames = {1, 2}
    MaxInflight = 10
    MaxTopicID = 3
    MaxQueue = 1
    BrokerRefuses = FALSE
INVARIANT
    PublishOnlyRegistered
CHECK_DEADLOCK FALSE
