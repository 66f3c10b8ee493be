SPECIFICATION BlameSpec
CONSTANTS
    NULL = NULL
    u1 = u1
    u2 = u2
    u3 = u3
    u4 = u4
    Requests = {u1, u2, u3, u4}
    Hash <- Contents
    Faults = {"cancel_open", "lookup_error", "cancel_commit", "create_error", "lost_ack", "cancel_delete", "unlink_error", "crash"}
SYMMETRY RequestSymmetry
INVARIANT OnePerHash
INVARIANT CreatedHasFile
INVARIANT PartsExplained
INVARIANT OrphansExplained
INVARIANT MissingExplained
CHECK_DEADLOCK FALSE
