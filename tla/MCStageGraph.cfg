SPECIFICATION GraphSpec
CONSTANTS
    Graphs <- GeneratedStages
    NoTeam = NoTeam
    Draw = Draw
    NoPair = NoPair
INVARIANTS
    FixturesFollowResults
    NoTeamTwiceInRound
    FavouritesMeetLate
    EveryMatchExists
PROPERTIES
    PlayedMatchKeepsTeams
