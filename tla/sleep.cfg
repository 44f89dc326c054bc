\* MQTTSN_SleepV2: nothing is lost, everything may be late; the program may be killed once.
SPECIFICATION FairSpec
CONSTANTS
    Loss = FALSE
    Duplicated = {}
    SendErrors = FALSE
    Capacity = 10
    IdModulus = 65536
    Timers = {"sleep"}
    MaxRetry = 0
    Uninit = {9}
    Programs = {"SleepV2"}
    Wildcards = {TRUE, FALSE}
    WillFlags = {FALSE}
    MaxMsgID = 2
    TopicNames = {1, 2, 3, 4}
    MaxInflight = 10
    MaxTopicID = 3
    MaxQueue = 1
    BrokerRefuses = FALSE
    MaxSaved = 2
    BrokerQos = {1, 2}
    MaxPublishes = 1
    MaxRestarts = 1
INVARIANTS
    AckedIsKept
    AwakeHasReason
PROPERTIES
    Responsive
CHECK_DEADLOCK FALSE
