SPECIFICATION Spec
CONSTANTS
    NULL = NULL
    Instances = {w1, w2}
    WorkerIds = {w1, w2}
    WorkerId <- OwnIds
    TaskIds = {1}
    Gens = {1, 2}
    MaxConcurrency <- UnequalSlots
    MaxBatchSize = 1
    LeaseSeconds = 2
    MaxRetries = 2
    MaxSkew = 0
    Faults = {"crash", "stop", "db_error", "lost_ack"}
INVARIANT SoleHolder
INVARIANT DoneHasTranscript
PROPERTY StateMachine
