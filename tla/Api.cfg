SPECIFICATION ApiSpec
CONSTANTS
    TaskIds = {1}
    MaxRetries = 1
    Requests = {q1, q2}
SYMMETRY RequestSymmetry
INVARIANT TypeOK
INVARIANT RetryAnswers
INVARIANT ReadAnswers
INVARIANT NeverTakenBack
