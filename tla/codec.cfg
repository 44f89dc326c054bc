SPECIFICATION Spec
CONSTANTS
    Ids = {1, 258, 65535}
    TextLengths = {0, 1, 2, 3, 119, 120, 121, 122, 123, 124, 125, 126, 127, 128, 244, 245, 246, 247, 248, 249, 250, 251, 252, 253, 254, 255, 256, 1000, 1001, 1009, 1010, 1013, 1014, 1015}
    ShortLengths = {0, 1, 3, 249, 1013, 1014}
INVARIANTS
    TypeOK
    SentIsRead
    NodeIsKnown
    BuffersSuffice
    UnreadIsKnown
    IdIsReplaced
    MeaningKept
CHECK_DEADLOCK FALSE
