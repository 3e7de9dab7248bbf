SPECIFICATION Spec
CONSTANTS
    member = member
    referee = referee
    club = club
    c1 = c1
    c2 = c2
    Nobody = Nobody
    Officials = {member, referee}
    Clubs = {club}
    Members <- ClubMembers
    Coordinators = {c1, c2}
    Owners = {c1, Nobody}
    Times = {1, 3}
    Required = 1
    Slow = {"complete", "reset"}
    Meanwhile = {"replan", "resolve", "escalate"}
    AssignmentIds = {1, 2}
    TodoIds = {1, 2, 3}
    MaxChanges = 1
INVARIANTS
    ReplacedForGood
    TodosCatchUp

    
CHECK_DEADLOCK FALSE
