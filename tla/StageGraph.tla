----------------------------- MODULE StageGraph -----------------------------
(***************************************************************************)
(* A prepared stage of sports_federation_format: its fixtures, the matches *)
(* they become, and how results travel along the fixtures' sources.        *)
(*                                                                         *)
(* A stage graph says where both sides of a fixture come from: a seed of   *)
(* the stage, or the winner or loser of an earlier fixture.  A team is     *)
(* named by the seed it holds.  The result workflow (module                *)
(* ResultWorkflow) is abstracted to the phases that the graph tells apart. *)
(***************************************************************************)
EXTENDS Naturals

CONSTANTS
    Graphs,            \* the stage graphs a behaviour may start with
    NoTeam,            \* an empty side
    Draw,              \* the outcome of a tie that nothing decides
    NoPair             \* a fixture without operational match

Side == {"home", "away"}
Opposite(s) == IF s = "home" THEN "away" ELSE "home"

(* g.sides[f][s] is a source: <<"seed", t>>, <<"winner", f>>, <<"loser", f>> *)
(* or <<"nobody", 0>>, the side of a bye; g.teams are the seeds.             *)
Kind(g, f, s) == g.sides[f][s][1]
Of(g, f, s) == g.sides[f][s][2]
Bye(g, f) == \E s \in Side : Kind(g, f, s) = "nobody"

WellFormed(g) ==
    /\ {g.fed, g.knockout, g.feeds} \subseteq BOOLEAN
    /\ g.teams # {}
    /\ \A f \in DOMAIN g.sides, s \in Side :
          g.sides[f][s] = <<Kind(g, f, s), Of(g, f, s)>>
    /\ \A f \in DOMAIN g.sides, s \in Side :
          \/ Kind(g, f, s) = "seed" /\ Of(g, f, s) \in g.teams
          \/ Kind(g, f, s) = "nobody" /\ Kind(g, f, Opposite(s)) = "seed"
          \/ Kind(g, f, s) = "winner" /\ Of(g, f, s) \in DOMAIN g.sides
          \/ /\ Kind(g, f, s) = "loser" /\ Of(g, f, s) \in DOMAIN g.sides
             /\ ~Bye(g, Of(g, f, s))

ASSUME GraphsAssumption ==
    /\ \A g \in Graphs : WellFormed(g) /\ {NoTeam, Draw} \cap g.teams = {}
    /\ NoTeam # Draw

VARIABLES
    graph,      \* the stage, its fixtures and their sources
    prepared,   \* fixtures have been generated
    arrived,    \* teams of the stage participants
    team,       \* team[f]["home"], team[f]["away"]
    match,      \* phase of the operational match
    pairing,    \* the teams of the operational match
    outcome,    \* the team an approved match is decided for
    applied     \* outgoing progressions are applied

graphVars == <<graph, prepared, arrived, team, match, pairing, outcome, applied>>

Fixtures == DOMAIN graph.sides
IsBye(f) == Bye(graph, f)
Nobody == [s \in Side |-> NoTeam]

(* "played" is every match that has started or has a result that is not    *)
(* official: nothing that was played may be taken back by a correction of  *)
(* an earlier match.                                                       *)
Phases == {"none", "unplayed", "played", "approved"}

GraphTypeOK ==
    /\ graph \in Graphs
    /\ {prepared, applied} \subseteq BOOLEAN
    /\ arrived \subseteq graph.teams
    /\ team \in [Fixtures -> [Side -> graph.teams \cup {NoTeam}]]
    /\ match \in [Fixtures -> Phases]
    /\ pairing \in [Fixtures -> [Side -> graph.teams] \cup {NoPair}]
    /\ outcome \in [Fixtures -> graph.teams \cup {NoTeam}]

GraphInit ==
    /\ graph \in Graphs
    /\ prepared = FALSE
    /\ arrived = {}
    /\ team = [f \in Fixtures |-> Nobody]
    /\ match = [f \in Fixtures |-> "none"]
    /\ pairing = [f \in Fixtures |-> NoPair]
    /\ outcome = [f \in Fixtures |-> NoTeam]
    /\ applied = FALSE

-----------------------------------------------------------------------------
(* Teams reach their fixtures. *)

(* The only team of a fixture that nobody else can enter: it advances. *)
ByeTeam(f) ==
    IF Kind(graph, f, "home") = "nobody" THEN Of(graph, f, "away") ELSE Of(graph, f, "home")

(* What a side shows once seeds have their teams and byes are resolved. *)
EnteringTeam(f, s) ==
    CASE Kind(graph, f, s) = "seed" -> Of(graph, f, s)
      [] Kind(graph, f, s) = "winner" /\ IsBye(Of(graph, f, s)) -> ByeTeam(Of(graph, f, s))
      [] OTHER -> NoTeam

(* Fixtures whose second team has become known get their match. *)
Playable(f) == \A s \in Side : team'[f][s] # NoTeam

Materialize(F, phase) ==
    LET new == {f \in F : match[f] = "none" /\ Playable(f)} IN
    /\ match' = [f \in Fixtures |-> IF f \in new THEN "unplayed" ELSE phase[f]]
    /\ pairing' = [f \in Fixtures |-> IF f \in new THEN team'[f] ELSE pairing[f]]

EnterTeams ==
    /\ arrived' = graph.teams
    /\ team' = [f \in Fixtures |-> [s \in Side |-> EnteringTeam(f, s)]]
    /\ Materialize(Fixtures, match)
    /\ UNCHANGED outcome

(* A root stage is prepared with the registered teams, all others with      *)
(* placeholders; a stage that already has its matches keeps them.           *)
PrepareStage ==
    /\ ~prepared
    /\ ~graph.fed
    /\ prepared' = TRUE
    /\ EnterTeams
    /\ UNCHANGED <<graph, applied>>

PreparePlaceholderStage ==
    /\ ~prepared
    /\ graph.fed
    /\ prepared' = TRUE
    /\ UNCHANGED <<graph, arrived, team, match, pairing, outcome, applied>>

(* Another stage is frozen and sends the teams of some ranks; the last ones *)
(* to arrive fill the placeholders.                                         *)
ApplyProgression(T) ==
    /\ prepared /\ graph.fed
    /\ T # {}
    /\ IF arrived \cup T = graph.teams
       THEN EnterTeams
       ELSE /\ arrived' = arrived \cup T
            /\ UNCHANGED <<team, match, pairing, outcome>>
    /\ UNCHANGED <<graph, prepared, applied>>

-----------------------------------------------------------------------------
(* Matches are played and decided. *)

(* The match starts, is scored, submitted, verified, or captured on court. *)
PlayMatch(f) ==
    /\ match[f] = "unplayed"
    /\ match' = [match EXCEPT ![f] = "played"]
    /\ UNCHANGED <<graph, prepared, arrived, team, pairing, outcome, applied>>

(* Its result is reset and the match cancelled and drafted again. *)
ReplanMatch(f) ==
    /\ match[f] = "played"
    /\ match' = [match EXCEPT ![f] = "unplayed"]
    /\ UNCHANGED <<graph, prepared, arrived, team, pairing, outcome, applied>>

Beaten(f, winner) ==
    IF winner = pairing[f]["home"] THEN pairing[f]["away"] ELSE pairing[f]["home"]

TeamsOf(f) == {pairing[f]["home"], pairing[f]["away"]}

(* The winner of the fixture, or nobody: an undecided tie is refused for a  *)
(* bracket by the bridge, and for every stage by the engine.                *)
DecidesWinner(o) == o # Draw

(* The teams that the outcome o of f sends on to later fixtures. *)
ResolvedTeamMutant(f, o, g, s) ==
    IF graph.sides[g][s] \in {<<"winner", f>>, <<"loser", f>>} THEN o ELSE team[g][s]
ResolvedTeam(f, o, g, s) ==
    CASE graph.sides[g][s] = <<"winner", f>> -> o
      [] graph.sides[g][s] = <<"loser", f>> -> Beaten(f, o)
      [] OTHER -> team[g][s]

Dependants(f) ==
    {g \in Fixtures : \E s \in Side : graph.sides[g][s] \in {<<"winner", f>>, <<"loser", f>>}}

ApproveFixture(f, o) ==
    /\ match[f] = "played"
    /\ o \in TeamsOf(f) \cup {Draw}
    /\ DecidesWinner(o)
    /\ outcome' = [outcome EXCEPT ![f] = o]
    /\ team' = [g \in Fixtures |-> [s \in Side |-> ResolvedTeam(f, o, g, s)]]
    /\ Materialize(Dependants(f), [match EXCEPT ![f] = "approved"])
    /\ UNCHANGED <<graph, prepared, arrived, applied>>

(* Later fixtures that already show a team of f. *)
ShowsTeamOf(f, g) ==
    \E s \in Side : graph.sides[g][s] \in {<<"winner", f>>, <<"loser", f>>}
                    /\ team[g][s] # NoTeam

UnplayedMutant(g) == match[g] # "approved"
Unplayed(g) == match[g] \in {"none", "unplayed"}

ReopenedTeam(f, g, s) ==
    IF graph.sides[g][s] \in {<<"winner", f>>, <<"loser", f>>} THEN NoTeam ELSE team[g][s]

(* Contest, correction or reset of an official result.  The follow-ups lose *)
(* the team and their match, unless one was played.  Nothing was decided    *)
(* beyond them, so the code's recursion ends there.                         *)
WithdrawResult(f) ==
    LET targets == {g \in Fixtures : ShowsTeamOf(f, g)} IN
    /\ match[f] = "approved"
    /\ ~applied
    /\ \A g \in targets : Unplayed(g)
    /\ team' = [g \in Fixtures |-> [s \in Side |-> ReopenedTeam(f, g, s)]]
    /\ match' = [g \in Fixtures |-> IF g \in targets THEN "none"
                                    ELSE IF g = f THEN "played" ELSE match[g]]
    /\ pairing' = [g \in Fixtures |-> IF g \in targets THEN NoPair ELSE pairing[g]]
    /\ outcome' = [outcome EXCEPT ![f] = NoTeam]
    /\ UNCHANGED <<graph, prepared, arrived, applied>>

(* The freeze of a stage that feeds another one applies its progressions; a *)
(* stage without fixtures passes the same check.  The freeze of any other   *)
(* stage changes nothing here: a withdrawal takes its snapshot back.        *)
FreezeStandings ==
    /\ graph.feeds
    /\ prepared => \A f \in Fixtures :
                      match[f] = "approved" \/ (IsBye(f) /\ arrived = graph.teams)
    /\ applied' = TRUE
    /\ UNCHANGED <<graph, prepared, arrived, team, match, pairing, outcome>>

GraphNext ==
    \/ PrepareStage
    \/ PreparePlaceholderStage
    \/ \E T \in SUBSET (graph.teams \ arrived) : ApplyProgression(T)
    \/ \E f \in Fixtures : PlayMatch(f) \/ ReplanMatch(f) \/ WithdrawResult(f)
    \/ \E f \in Fixtures, o \in graph.teams \cup {Draw} : ApproveFixture(f, o)
    \/ FreezeStandings

GraphSpec == GraphInit /\ [][GraphNext]_graphVars

-----------------------------------------------------------------------------
(* The team that a source decides for now. *)
DecidedTeam(src) ==
    CASE src[1] = "seed" -> IF prepared /\ arrived = graph.teams THEN src[2] ELSE NoTeam
      [] src[1] = "winner" /\ IsBye(src[2]) ->
            IF prepared /\ arrived = graph.teams THEN ByeTeam(src[2]) ELSE NoTeam
      [] src[1] = "winner" /\ ~IsBye(src[2]) -> outcome[src[2]]
      [] src[1] = "loser" ->
            IF match[src[2]] = "approved" THEN Beaten(src[2], outcome[src[2]]) ELSE NoTeam
      [] OTHER -> NoTeam

(* Every side shows exactly the team that its source decides for: none is  *)
(* missing once the earlier match is decided, none is left over from a      *)
(* withdrawn result (resolve_dependants and reopen_dependants).             *)
SidesFollowResults ==
    \A f \in Fixtures, s \in Side : team[f][s] = DecidedTeam(graph.sides[f][s])

(* A fixture has an operational match exactly when both its teams are known, *)
(* and the match is between them (_check_logical_fixture_alignment, which    *)
(* only a write to the match checks).                                        *)
MatchShowsFixture ==
    \A f \in Fixtures :
        IF \E s \in Side : team[f][s] = NoTeam
        THEN match[f] = "none" /\ pairing[f] = NoPair
        ELSE match[f] # "none" /\ pairing[f] = team[f]

(* Both: results move the sides, and the sides their matches.               *)
FixturesFollowResults == SidesFollowResults /\ MatchShowsFixture

(* Whatever is corrected, the teams of a match that was played stay        *)
(* (_assert_match_unplayed).                                                *)
PlayedMatchKeepsTeams ==
    [][\A f \in Fixtures :
          match[f] \in {"played", "approved"}
              => team'[f] = team[f] /\ pairing'[f] = pairing[f]]_graphVars
=============================================================================
