SPECIFICATION Spec
CONSTANTS
    final = final
    opening = opening
    planner = planner
    director = director
    Fixtures = {opening, final}
    Placeholders = {final}
    Slots = {1, 2}
    People = {planner, director}
    Policies <- BothPolicies
    Overlapping <- Guarded
    ScheduleIds = {1, 2}
    ReviewIds = {1, 2}
    PublicationIds = {1, 2}
    MaxEdits = 2
SYMMETRY Alike
INVARIANTS
    ReviewedContent
    OneLivePublication
    LivePlanKept
    MatchesFollowLive
    
CHECK_DEADLOCK FALSE
