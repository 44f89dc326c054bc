\* No duplicates: datagrams are lost and reordered, sendto fails, the broker may refuse.
SPECIFICATION Spec
CONSTANTS
    Loss = TRUE
    Duplicated = {}
    SendErrors = TRUE
    Capacity = 2
    IdModulus = 65536
    Timers = {"ping", "publish"}
    MaxRetry = 1
    Uninit = {9}
    WillFlags = {TRUE, FALSE}
    MaxMsgID = 4
    TopicNames = {1, 2}
    MaxInflight = 10
    MaxTopicID = 3
    MaxQueue = 1
    BrokerRefuses = TRUE
INVARIANTS
    TypeOK
    RegisteredTopics
    SessionHasLink
    TopicsAgree
    FirstTopicKnown
    WaitedIsTopic
    PubackIsWaitedFor
CHECK_DEADLOCK FALSE
