SPECIFICATION JobsSpec
CONSTANTS
    r1 = r1
    r2 = r2
    d1 = d1
    Reports = {r1}
    FailedDeliveries = {d1}
    BatchLimit = 1
    MaxAttempts = 2
    MaxFailures = 2
    MaxOperatorSteps = 1
INVARIANTS
    FailureOnRecord
PROPERTIES
    JobsFinish
CHECK_DEADLOCK FALSE
