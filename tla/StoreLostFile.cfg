SPECIFICATION BlameSpec
CONSTANTS
    NULL = NULL
    u1 = u1
    u2 = u2
    u3 = u3
    u4 = u4
    Requests = {u1, u2}
    Hash <- Contents
    Faults = {"lost_ack"}
INVARIANT RowHasFile
CHECK_DEADLOCK FALSE
