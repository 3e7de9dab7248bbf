---------------------------- MODULE MCStageGraph ----------------------------
(* Stages as the generator builds them, of up to eight teams.              *)
EXTENDS StageGraph, Brackets

(* A stage of count teams with the generated fixtures; a bracket has no legs. *)
Stage(entries, count, full, legs, fed, feeds) ==
    LET entry(f) == CHOOSE e \in entries : e.id = f
        ids == {e.id : e \in entries}
    IN  [teams |-> 1..count, full |-> full, legs |-> legs,
         knockout |-> legs = 0, fed |-> fed, feeds |-> feeds,
         sides |-> [f \in ids |-> entry(f).sides],
         round |-> [f \in ids |-> entry(f).round]]

BracketStage(count, full, fed) ==
    Stage(Knockout(count, full, fed), count, full, 0, fed, FALSE)
LeagueStage(count, double, fed, feeds) ==
    Stage(RoundRobin(count, double), count, FALSE, IF double THEN 2 ELSE 1, fed, feeds)

GeneratedStages ==
    {BracketStage(count, full, FALSE) : count \in 2..8, full \in BOOLEAN}
    \cup {BracketStage(count, FALSE, TRUE) : count \in 3..5}
    \cup {LeagueStage(3, FALSE, FALSE, TRUE), LeagueStage(3, TRUE, TRUE, FALSE),
          LeagueStage(4, FALSE, FALSE, FALSE)}

-----------------------------------------------------------------------------
Players(f) == {team[f]["home"], team[f]["away"]} \ {NoTeam}

(* No team is in two fixtures of a round, whatever the results: rounds are  *)
(* planned as units that can be played side by side (_planning_sorted).     *)
NoTeamTwiceInRound ==
    \A f, g \in Fixtures :
        f # g /\ graph.round[f] = graph.round[g]
            => Players(f) \cap Players(g) = {}

(* Before round r of R, none of the best 2^(R-r) seeds meets another: the   *)
(* seed order keeps favourites apart for as long as a bracket can.          *)
FavouritesMeetLate ==
    graph.knockout =>
        LET last == Rounds(Cardinality(graph.teams)) IN
        \A f \in Fixtures :
            f[1] = 0 /\ match[f] # "none"
                => \E t \in TeamsOf(f) : t > 2^(last - graph.round[f])

(* Every match of the competition exists from the start: a bracket has as   *)
(* many as the format wizard counted (bracket_match_count "mirrors the shape *)
(* built by the stage graph engine"), in a round robin every two teams meet  *)
(* as often as it has legs.                                                  *)
MatchesOf(a, b) ==
    {f \in Fixtures : {Of(graph, f, s) : s \in Side} = {a, b}}
EveryMatchExists ==
    prepared =>
        IF graph.knockout
        THEN Cardinality({f \in Fixtures : ~IsBye(f)})
               = BracketMatchCount(Cardinality(graph.teams), graph.full)
        ELSE \A a, b \in graph.teams : a # b => Cardinality(MatchesOf(a, b)) = graph.legs
=============================================================================
