SPECIFICATION ApiSpec
CONSTANTS
    TaskIds = {1}
    MaxRetries = 0
    Requests = {q1, q2}
SYMMETRY RequestSymmetry
INVARIANT RefusedOnlyDone
