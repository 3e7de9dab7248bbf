------------------------------ MODULE Brackets ------------------------------
(***************************************************************************)
(* The stage graphs that sports_federation_format generates: brackets, with *)
(* or without matches for every place, and round robins.  A fixture is a   *)
(* triple: <<0, round, position>> in the tree of a bracket or a round      *)
(* robin, <<lo, hi, position>> in the classification of the places lo..hi. *)
(***************************************************************************)
EXTENDS Integers, Sequences, FiniteSets, FiniteSetsExt, SequencesExt

SeedSource(t) == <<"seed", t>>
WinnerOf(f) == <<"winner", f>>
LoserOf(f) == <<"loser", f>>
NobodySource == <<"nobody", 0>>

(* A fixture before it is put into a stage. *)
Entry(id, round, home, away) ==
    [id |-> id, round |-> round, sides |-> [home |-> home, away |-> away]]

-----------------------------------------------------------------------------
(* Brackets *)

SeedOrderMutant(size) ==
    [i \in 1..size |-> IF i % 2 = 1 THEN (i + 1) \div 2 ELSE size + 1 - (i \div 2)]
RECURSIVE SeedOrder(_)
SeedOrder(size) ==
    IF size = 2 THEN <<1, 2>>
    ELSE LET half == SeedOrder(size \div 2) IN
         [i \in 1..size |-> IF i % 2 = 1 THEN half[(i + 1) \div 2]
                            ELSE size + 1 - half[i \div 2]]

(* The number of rounds: ceil(log2(count)). *)
Rounds(count) == CHOOSE r \in 1..count : 2^r >= count /\ 2^(r - 1) < count

SeedOrNobody(count, t) == IF t <= count THEN SeedSource(t) ELSE NobodySource

(* The tree: seeds meet in round 1, winners of neighbours after it. *)
TreeFixture(count, r, i) ==
    LET order == SeedOrder(2^Rounds(count)) IN
    IF r = 1
    THEN Entry(<<0, r, i>>, r, SeedOrNobody(count, order[2 * i - 1]),
                               SeedOrNobody(count, order[2 * i]))
    ELSE Entry(<<0, r, i>>, r, WinnerOf(<<0, r - 1, 2 * i - 1>>),
                               WinnerOf(<<0, r - 1, 2 * i>>))

TreeRound(count, r) == [i \in 1..2^(Rounds(count) - r) |-> TreeFixture(count, r, i)]

(* Two of team, team, source, source: a placeholder's seed is neither. *)
CanProduceLoserMutant(placeholders, e) == e.round > 1
CanProduceLoser(placeholders, e) ==
    /\ NobodySource \notin {e.sides.home, e.sides.away}
    /\ placeholders => e.round > 1

NextRound(rnd) == rnd + 1

(* Matches for the places lo..hi between the teams of these sources, from   *)
(* round rnd on.                                                            *)
RECURSIVE Classification(_, _, _, _)
Classification(sources, lo, hi, rnd) ==
    LET n == Len(sources)
        played == [k \in 1..(n \div 2) |->
                      Entry(<<lo, hi, k>>, rnd, sources[2 * k - 1], sources[2 * k])]
        winners == [k \in 1..Len(played) |-> WinnerOf(played[k].id)]
                      \o (IF n % 2 = 1 THEN <<sources[n]>> ELSE <<>>)
        losers == [k \in 1..Len(played) |-> LoserOf(played[k].id)]
        split == lo + Len(winners) - 1
    IN  IF n < 2 THEN {}
        ELSE IF n = 2 THEN ToSet(played)
        ELSE ToSet(played)
             \cup Classification(winners, lo, split, NextRound(rnd))
             \cup Classification(losers, split + 1, hi, NextRound(rnd))

(* The last rounds' losers play for the best places. *)
RECURSIVE Placement(_, _, _, _, _)
Placement(count, placeholders, r, rank, rnd) ==
    IF r = 0 THEN {}
    ELSE LET cohort == SelectSeq(TreeRound(count, r),
                                 LAMBDA e : CanProduceLoser(placeholders, e))
             sources == [k \in 1..Len(cohort) |-> LoserOf(cohort[k].id)]
             n == Len(sources)
             here == IF n < 2 THEN {}
                     ELSE Classification(sources, rank, Min({count, rank + n - 1}), NextRound(rnd))
             last == Max({rnd} \cup {e.round : e \in here})
         IN  here \cup Placement(count, placeholders, r - 1, IF n > 1 THEN rank + n ELSE rank, last)

Knockout(count, full, placeholders) ==
    UNION {ToSet(TreeRound(count, r)) : r \in 1..Rounds(count)}
    \cup (IF full THEN Placement(count, placeholders, Rounds(count) - 1, 3, Rounds(count))
          ELSE {})

-----------------------------------------------------------------------------
(* Round robins by the circle method: the first place stays, all others     *)
(* move on by one.                                                          *)

RotatedMutant(work) == <<work[1], work[Len(work)]>> \o SubSeq(work, 3, Len(work))
Rotated(work) == <<work[1], work[Len(work)]>> \o SubSeq(work, 2, Len(work) - 1)

RECURSIVE Circle(_, _)
Circle(size, round) ==
    IF round = 1 THEN [i \in 1..size |-> i] ELSE Rotated(Circle(size, round - 1))

RoundRobin(count, double) ==
    LET size == count + (count % 2)
        Pair(r, i) == LET first == Circle(size, r)[i]
                          second == Circle(size, r)[size + 1 - i]
                      IN  IF r % 2 = 1 THEN <<first, second>> ELSE <<second, first>>
        single == {Entry(<<0, r, i>>, r, SeedSource(Pair(r, i)[1]), SeedSource(Pair(r, i)[2])) :
                      r \in 1..(size - 1), i \in 1..(size \div 2)}
        met == {e \in single : e.sides.home[2] <= count /\ e.sides.away[2] <= count}
        Return(e) == Entry(<<0, e.round + size - 1, e.id[3]>>, e.round + size - 1,
                           e.sides.away, e.sides.home)
    IN  met \cup (IF double THEN {Return(e) : e \in met} ELSE {})

-----------------------------------------------------------------------------
(* What the format wizard promises: the playable matches of a bracket.      *)

RECURSIVE ClassificationCount(_)
ClassificationCount(sources) ==
    IF sources < 2 THEN 0
    ELSE IF sources = 2 THEN 1
    ELSE LET matches == sources \div 2 IN
         matches + ClassificationCount(matches + (sources % 2)) + ClassificationCount(matches)

(* Losers of a tree round: all but the byes of round 1. *)
LosersOf(count, r) == IF r = 1 THEN count - 2^(Rounds(count) - 1) ELSE 2^(Rounds(count) - r)

BracketMatchCount(count, full) ==
    LET Classified(r) == ClassificationCount(LosersOf(count, r)) IN
    count - 1 + (IF full THEN MapThenSumSet(Classified, 1..(Rounds(count) - 1)) ELSE 0)
=============================================================================
