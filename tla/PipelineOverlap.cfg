SPECIFICATION ShutdownSpec
CONSTANTS
    NULL = NULL
    Instances = {w1}
    WorkerIds = {w1}
    WorkerId <- OwnIds
    TaskIds = {1}
    Gens = {1, 2}
    MaxConcurrency <- TwoSlots
    MaxBatchSize = 1
    LeaseSeconds = 1
    MaxRetries = 1
    MaxSkew = 1
    Faults = {"crash", "stop", "db_error", "lost_ack", "renew_error", "stall"}
INVARIANT TypeOK
INVARIANT LockIffInFlight
INVARIANT ResultsMatchStatus
INVARIANT RetryBudget
INVARIANT NoLeakedSlot
INVARIANT CleanStop
PROPERTY DoneIsFinal
PROPERTY ImplementsContract
