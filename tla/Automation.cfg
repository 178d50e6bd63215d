SPECIFICATION FairSpec
CONSTANTS
    Workers = {w1}
    Runs = {r1, r2}
    NSteps = 2
    MaxAttempts = 2
    Concurrency = 1
    EagerDlq = TRUE
    MaxReplays = 1
    MaxMishaps = 1
CHECK_DEADLOCK FALSE
INVARIANTS StepOrder SucceededRanEveryStep FailedIsDeadLettered
PROPERTIES RunsFinish
