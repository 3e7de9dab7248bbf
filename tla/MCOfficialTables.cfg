SPECIFICATION Spec
CONSTANTS
    m1 = m1
    m2 = m2
    u1 = u1
    nil = nil
    win = win
    plain = plain
    stage = stage
    j1 = j1
    j2 = j2
    Matches = {m1, m2}
    Users = {u1}
    NoUser = NoUser
    Validators = {u1}
    Approvers = {u1}
    ClubReps = {u1}
    Scores = {nil, win}
    ZeroZero = nil
    NoPeriods = NoPeriods
    Editions <- NoReviewEdition
    Tables = {plain, stage}
    Linked = {stage}
    Feeding = {}
    Scope <- EveryMatch
    Jobs = {}
    Priority <- TwoPriorities
    TableOf <- StageJobs
    BatchLimit = 20
    MaxAttempts = 3
    MaxOperatorRetries = 0
    ManualInclusion = FALSE
SYMMETRY MatchSymmetry
INVARIANTS
    SnapshotCurrent
    TableShowsSnapshot
PROPERTIES
    TablesFollowDecisions
CHECK_DEADLOCK FALSE
