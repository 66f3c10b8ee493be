SPECIFICATION Spec
CONSTANTS
    Tasks = {t1, t2, t3, t4}
    MaxConcurrency = 3
    MaxBatchSize = 2
    PollIdle = 1
    FullSleep = 1
    ErrorSleep = 2
    ReclaimInterval = 2
    MaxFailures = 1
    Horizon = 9
SYMMETRY TaskSymmetry
INVARIANT TypeOK
INVARIANT ConcurrencyBound
INVARIANT NoOverlooked
INVARIANT PromptPickup
INVARIANT PickupBound
INVARIANT SweepBound
