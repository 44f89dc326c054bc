CONSTANTS
    Names <- MCNames
    PredefinedIds <- MCPredefinedIds
    GatewayIds = {"id1"}
    SubscribeList <- MCSubscribeList
    Tests <- MCTests
    MaxTests = 3
    RetryCount = 1
    SleepPings = 2
    MaxFaults = 1
SPECIFICATION FairSpec
INVARIANTS TypeOK DoneIsHandled SubscriptionsKept
PROPERTIES TestsEnd SleeperWakes
CHECK_DEADLOCK FALSE
