SPECIFICATION Spec
CONSTANTS
    NULL = NULL
    MaxRetries = 3
    BaseBackoff = 1
    RetryAfters = {0, 3}
    MaxChunks = 2
INVARIANT TypeOK
INVARIANT RequestBudget
INVARIANT WaitBudget
INVARIANT NoInnerSummary
INVARIANT OneEnding
