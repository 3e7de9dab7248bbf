SPECIFICATION Spec
CONSTANTS
    tablet1 = tablet1
    tablet2 = tablet2
    low = low
    high = high
    Devices = {tablet1, tablet2}
    Scores = {low}
    OfficeScores = {high}
    Outcomes = {"disputed"}
    AfterSubmission = {"submitted"}
    MaxEdits = 2
    MaxKeys = 2
    MaxPending = 2
    MaxEvents = 1
INVARIANTS
    AppliedOnce
    InformedChange
    HoldNeedsDecision
    NoCommandVanishes

    
CHECK_DEADLOCK FALSE
