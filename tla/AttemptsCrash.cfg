SPECIFICATION AttemptSpec
CONSTANTS
    NULL = NULL
    Instances = {w1}
    WorkerIds = {w1}
    WorkerId <- OwnIds
    TaskIds = {1}
    Gens = {1, 2}
    MaxConcurrency <- TwoSlots
    MaxBatchSize = 2
    LeaseSeconds = 1
    MaxRetries = 1
    MaxSkew = 0
    Faults = {"crash"}
INVARIANT AttemptBound
