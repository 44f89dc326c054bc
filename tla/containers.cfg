\* Every class; lists of up to four elements, trees of up to eight.
SPECIFICATION Spec
CONSTANTS
    Classes = {"Que", "List", "TopicIdMap", "WaitREGACKPacketList", "MessageIdTable", "ClientList", "Topics", "ForwarderList", "Forwarder", "LTopicTable", "AggregateTopicElement", "Tree23"}
    Nodes = {1, 2, 3, 4}
    Keys = {1, 2, 3, 4}
    PredefinedKeys = {3, 4}
    MaxElements = 2
    TreeKeys = {1, 2, 3, 4, 5, 6, 7, 8}
    TreeValues = {1, 2}
INVARIANTS
    ListsAgree
    TreeHolds
CHECK_DEADLOCK FALSE
