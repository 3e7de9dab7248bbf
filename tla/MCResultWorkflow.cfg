SPECIFICATION MatchSpec
CONSTANTS
    m1 = m1
    u1 = u1
    u2 = u2
    u3 = u3
    nil = nil
    win = win
    Matches = {m1}
    Users = {u1, u2, u3}
    NoUser = NoUser
    Validators = {u1, u2, u3}
    Approvers = {u1, u2, u3}
    ClubReps = {u1, u2, u3}
    Scores = {nil, win}
    ZeroZero = nil
    NoPeriods = NoPeriods
    Editions <- AllPolicies
SYMMETRY Permute
CHECK_DEADLOCK FALSE
INVARIANTS
    DutiesSeparated
PROPERTIES
    WithdrawalReopens
    ImplementsLedger
