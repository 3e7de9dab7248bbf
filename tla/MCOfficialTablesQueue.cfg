SPECIFICATION FairSpec
CONSTANTS
    m1 = m1
    m2 = m2
    u1 = u1
    nil = nil
    win = win
    plain = plain
    stage = stage
    j1 = j1
    j2 = j2
    Matches = {m1}
    Users = {u1}
    NoUser = NoUser
    Validators = {u1}
    Approvers = {u1}
    ClubReps = {u1}
    Scores = {nil, win}
    ZeroZero = nil
    NoPeriods = NoPeriods
    Editions <- BothEditions
    Tables = {stage}
    Linked = {stage}
    Feeding = {stage}
    Scope <- EveryMatch
    Jobs = {j1, j2}
    Priority <- TwoPriorities
    TableOf <- StageJobs
    BatchLimit = 1
    MaxAttempts = 2
    MaxOperatorRetries = 1
    ManualInclusion = FALSE
INVARIANTS
    ProgressionFinal
PROPERTIES
    JobsFinish
CHECK_DEADLOCK FALSE
