SPECIFICATION RecoverySpec
CONSTANTS
    NULL = NULL
    Instances = {w1, w2}
    WorkerIds = {w1, w2}
    WorkerId <- OwnIds
    TaskIds = {1}
    Gens = {1, 2}
    MaxConcurrency <- OneSlot
    MaxBatchSize = 1
    LeaseSeconds = 1
    MaxRetries = 1
    MaxSkew = 1
    Faults = {"crash", "stop", "db_error", "lost_ack", "renew_error", "stall"}
PROPERTY EveryTaskEnds
PROPERTY SlotsComeBack
PROPERTY LeaseRespected
