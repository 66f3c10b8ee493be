SPECIFICATION Spec
CONSTANTS
    NULL = NULL
    a = a
    b = b
    c = c
    fixed = fixed
    Instances <- MCInstances
    Configured <- MCConfigured
    Dir <- MCDir
    WorkerIds <- MCWorkerIds
    TaskIds = {1}
    MaxLives = 3
    LeaseSeconds = 1
    MaxRetries = 0
    MaxSkew = 0
INVARIANT TypeOK
INVARIANT RestartFrees
PROPERTY NoTheft
PROPERTY IdentityKept
