SPECIFICATION Spec
CONSTANTS
    e1 = e1
    day1 = day1
    Receipts = {e1}
    Days = {day1}
    MaxAttempts = 2
    MaxManagerSteps = 1
    MaxChanges = 3
    MaxDeaths = 1
INVARIANTS
    EmailedOnce

    
CHECK_DEADLOCK FALSE
