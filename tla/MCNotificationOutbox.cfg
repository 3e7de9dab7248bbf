SPECIFICATION Spec
CONSTANTS
    n1 = n1
    n2 = n2
    Logs = {n1, n2}
    BatchLimit = 2
    MaxAttempts = 2
    MaxOperatorSteps = 2
    MaxCancels = 1
    MaxDeaths = 1
INVARIANTS
    AcceptedAsReported
PROPERTIES
    CancelledStays
    EvidenceReachesLog
CHECK_DEADLOCK FALSE
