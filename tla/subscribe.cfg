\* MQTTSN_SubscribeV2 and MQTTSN_PubSubV2, with and without a wildcard; no duplicates.
SPECIFICATION Spec
CONSTANTS
    Loss = TRUE
    Duplicated = {}
    SendErrors = TRUE
    Capacity = 2
    IdModulus = 65536
    Timers = {"ping", "publish"}
    MaxRetry = 0
    Uninit = {9}
    Programs = {"SubscribeV2", "PubSubV2"}
    Wildcards = {TRUE, FALSE}
    WillFlags = {TRUE, FALSE}
    MaxMsgID = 2
    TopicNames = {1, 2, 3, 4}
    MaxInflight = 10
    MaxTopicID = 3
    MaxQueue = 1
    BrokerRefuses = TRUE
    MaxSaved = 2
    BrokerQos = {1, 2}
    MaxPublishes = 1
    MaxRestarts = 0
INVARIANTS
    TypeOK
    SubscriptionAgrees
    AckedIsShown
CHECK_DEADLOCK FALSE
