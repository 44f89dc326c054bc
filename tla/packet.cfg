\* Every payload up to one beyond what the buffer of readMsg takes.
SPECIFICATION Spec
CONSTANTS
    Q_BUF_LEN = 1600
    MaxPayload = 1700
INVARIANTS
    ArrivesWhole
    LongIsRejected
CHECK_DEADLOCK FALSE
