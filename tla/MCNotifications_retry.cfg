\* One e-mail and one worker that does not crash.
CONSTANTS
    Jobs = {j1}
    Workers = {w1}
    MaxAttempts = 3
    MaxCrashes = 0
SPECIFICATION Spec
INVARIANT FailedIsRetried
CHECK_DEADLOCK FALSE
