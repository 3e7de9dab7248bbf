----------------------- MODULE MatchdayOperationsProofs -----------------------
(***************************************************************************)
(* The match day for any number of matches, slots, changes and incidents,   *)
(* and any two commands that overlap.                                       *)
(*                                                                         *)
(* A database keeps DayOK: the changes of each match are a chain from its   *)
(* published slot to the slot and time it has (Chain).  A chain speaks of   *)
(* one match, and whoever records a change writes its match (Advance), so   *)
(* of two transactions that overlap one alone has touched it: joined row by *)
(* row, they leave each match as one of them left it.                       *)
(*                                                                         *)
(* Nothing is left behind (ClosedOK) as long as no closing overlaps with    *)
(* anything: what may overlap then leaves a closed day alone (Calm).        *)
(***************************************************************************)
EXTENDS MatchdayOperations, FiniteSetTheorems, TLAPS

(* What closes a day overlaps with nothing. *)
ClosingsAlone == Overlapping \cap {"close", "cron", "result"} = {}

Tables(day, match, deviation, incident) ==
    [day |-> day, match |-> match, deviation |-> deviation, incident |-> incident]

DayRow(x) == x = [state |-> x.state, how |-> x.how]
MatchRow(x) ==
    /\ x.linked \in BOOLEAN
    /\ x.linked => x = [linked |-> TRUE, state |-> x.state, official |-> x.official,
                        slot |-> x.slot, status |-> x.status, writeDate |-> x.writeDate,
                        date |-> x.date]
DeviationRow(x) ==
    x # NoRow =>
        /\ x = [state |-> x.state, match |-> x.match, new |-> x.new, old |-> x.old]
        /\ x.state \in {"move", "delay", "postpone", "cancel"} /\ x.match \in Matches

Shape(d) ==
    /\ d = Tables(d.day, d.match, d.deviation, d.incident)
    /\ d.day = <<d.day[1]>> /\ DayRow(d.day[1])
    /\ d.match = [m \in Matches |-> d.match[m]]
    /\ d.deviation = [i \in DeviationIds |-> d.deviation[i]]
    /\ d.incident = [i \in IncidentIds |-> d.incident[i]]
    /\ \A m \in Matches : MatchRow(d.match[m])
    /\ \A i \in DeviationIds : DeviationRow(d.deviation[i])

(* The changes of a match, the slot they leave it in, and the delays after   *)
(* the last other change.                                                   *)
LogOf(d, m) == {i \in DeviationIds : d.deviation[i] # NoRow /\ d.deviation[i].match = m}
DelaysOf(d, m) ==
    {i \in LogOf(d, m) : \A j \in LogOf(d, m) : j >= i => d.deviation[j].state = "delay"}
SlotAfter(d, m, log) == IF log = {} THEN Plan[m] ELSE LeftIn(d.deviation[Max(log)])
Shown(m, slot) == IF slot = NoSlot THEN Plan[m] ELSE slot

HasLast(S) == S = {} \/ \E i \in S : \A j \in S : j <= i
Earlier(d, m, i) == {j \in LogOf(d, m) : j < i}

Chain(d, m) ==
    LET x == d.match[m] IN
    /\ IsFiniteSet(LogOf(d, m)) /\ HasLast(LogOf(d, m))
    /\ \A i \in LogOf(d, m) : HasLast(Earlier(d, m, i))
    /\ ~x.linked => LogOf(d, m) = {}
    /\ x.linked =>
        /\ \A i \in LogOf(d, m) : d.deviation[i].old = Shown(m, SlotAfter(d, m, Earlier(d, m, i)))
        /\ x.slot \in Slots \cup {NoSlot}
        /\ x.slot = SlotAfter(d, m, LogOf(d, m))
        /\ x.slot = NoSlot => DelaysOf(d, m) = {}
        /\ x.date = IF x.slot = NoSlot THEN NoDate
                    ELSE [slot |-> x.slot, late |-> Cardinality(DelaysOf(d, m))]
        /\ x.writeDate \in {0} \cup LogOf(d, m)

(* A closed day was closed in some way, and without force only when nothing  *)
(* was left.                                                                *)
ClosedOK(d) ==
    /\ Day(d).how # "not closed" => Day(d).state = "closed"
    /\ Day(d).how \in {"complete", "automatic"} => Unresolved(d) = {} /\ Waiting(d) = {}

Sound(d) == Shape(d) /\ \A m \in Matches : Chain(d, m)
DayOK(d) == Sound(d) /\ (ClosingsAlone => ClosedOK(d))

(* Recorded changes stay, and whoever records one writes its match. *)
Advance(d, e) ==
    \A i \in DeviationIds :
        /\ d.deviation[i] # NoRow => e.deviation[i] = d.deviation[i]
        /\ e.deviation[i] # d.deviation[i] =>
              e.match[e.deviation[i].match] # d.match[e.deviation[i].match]

(* What a command does that closes nothing. *)
Calm(d, e) ==
    /\ Day(e).how = Day(d).how
    /\ Day(d).state = "closed" => e.day = d.day /\ e.incident = d.incident
    /\ Linked(d) \subseteq Linked(e)

-----------------------------------------------------------------------------
(* The last of a chain. *)
LEMMA LastIs ==
    ASSUME NEW S \in SUBSET Nat, NEW i \in S, \A j \in S : j <= i
    PROVE  Max(S) = i
<1>1. \A x \in S : (\A y \in S : x >= y) <=> x = i
  OBVIOUS
<1>2. Max(S) \in S /\ \A y \in S : Max(S) >= y
  BY <1>1 DEF Max
<1>3. QED
  BY <1>1, <1>2

LEMMA LastIn ==
    ASSUME NEW S \in SUBSET Nat, HasLast(S), S # {}
    PROVE  Max(S) \in S
<1>1. PICK i \in S : \A j \in S : j <= i
  BY DEF HasLast
<1>2. QED
  BY <1>1, LastIs

LEMMA IdsAndSlots ==
    /\ DeviationIds \subseteq Nat /\ 0 \notin DeviationIds /\ IncidentIds \subseteq Nat
    /\ Slots \subseteq Nat /\ NoSlot \notin Slots
    /\ \A m \in Matches : Plan[m] \in Slots
  BY DayAssumption DEF NoSlot

LEMMA NewIds ==
    ASSUME NEW d, NEW t, NEW i \in NewId(d, t), DOMAIN d[t] \subseteq Nat
    PROVE  /\ i \in DOMAIN d[t] /\ d[t][i] = NoRow
           /\ \A j \in DOMAIN d[t] : d[t][j] # NoRow => j < i
<1> DEFINE taken == {j \in DOMAIN d[t] :
                     d[t][j] # NoRow \/ (slow.running /\ <<t, j>> \in DOMAIN slow.mine)}
<1>1. i \in DOMAIN d[t] /\ (\A j \in taken : i > j)
  BY DEF NewId
<1>2. i \in Nat
  BY <1>1
<1>3. i \notin taken
  BY <1>1, <1>2
<1>4. \A j \in taken : j < i
  BY <1>1, <1>2
<1>5. QED
  BY <1>1, <1>3, <1>4

LEMMA NewRows ==
    ASSUME NEW d, Shape(d)
    PROVE  /\ \A i \in NewId(d, "incident") : i \in IncidentIds
           /\ \A i \in NewId(d, "deviation") :
                 /\ i \in DeviationIds /\ d.deviation[i] = NoRow
                 /\ \A j \in DeviationIds : d.deviation[j] # NoRow => j < i
<1>1. DOMAIN d.deviation = DeviationIds /\ DOMAIN d.incident = IncidentIds
  BY DEF Shape
<1>2. d["deviation"] = d.deviation /\ d["incident"] = d.incident
  OBVIOUS
<1>3. DOMAIN d["deviation"] \subseteq Nat /\ DOMAIN d["incident"] \subseteq Nat
  BY <1>1, <1>2, IdsAndSlots
<1>4. \A i \in NewId(d, "incident") : i \in DOMAIN d["incident"]
  BY <1>3, NewIds
<1>5. \A i \in NewId(d, "deviation") :
        /\ i \in DOMAIN d["deviation"] /\ d["deviation"][i] = NoRow
        /\ \A j \in DOMAIN d["deviation"] : d["deviation"][j] # NoRow => j < i
  BY <1>3, NewIds
<1>6. QED
  BY <1>1, <1>2, <1>4, <1>5

-----------------------------------------------------------------------------
(* A chain speaks of one match and its changes. *)
SameSlot(x, y) ==
    /\ y.linked = x.linked
    /\ x.linked => y.slot = x.slot /\ y.date = x.date /\ y.writeDate = x.writeDate

LEMMA ChainSame ==
    ASSUME NEW d, NEW e, NEW m \in Matches, Chain(d, m),
           SameSlot(d.match[m], e.match[m]),
           LogOf(e, m) = LogOf(d, m), \A i \in LogOf(d, m) : e.deviation[i] = d.deviation[i]
    PROVE  Chain(e, m)
<1>1. LogOf(d, m) \in SUBSET Nat
  BY IdsAndSlots DEF LogOf
<1>2. DelaysOf(e, m) = DelaysOf(d, m)
  BY DEF DelaysOf
<1>3. ASSUME NEW S \in SUBSET LogOf(d, m), HasLast(S)
      PROVE  SlotAfter(e, m, S) = SlotAfter(d, m, S)
  <2>1. CASE S = {}
    BY <2>1 DEF SlotAfter
  <2>2. CASE S # {}
    <3>1. Max(S) \in S
      BY <1>1, <1>3, <2>2, LastIn
    <3>2. e.deviation[Max(S)] = d.deviation[Max(S)]
      BY <3>1
    <3>3. QED
      BY <3>2 DEF SlotAfter
  <2>3. QED
    BY <2>1, <2>2
<1>4. \A i : Earlier(e, m, i) = Earlier(d, m, i)
  BY DEF Earlier
<1>5. \A i \in LogOf(d, m) : SlotAfter(e, m, Earlier(d, m, i)) = SlotAfter(d, m, Earlier(d, m, i))
  BY <1>3 DEF Chain, Earlier
<1>6. SlotAfter(e, m, LogOf(d, m)) = SlotAfter(d, m, LogOf(d, m))
  BY <1>3 DEF Chain
<1>7. IsFiniteSet(LogOf(e, m)) /\ HasLast(LogOf(e, m))
      /\ \A i \in LogOf(e, m) : HasLast(Earlier(e, m, i))
  BY <1>4 DEF Chain
<1>8. CASE ~d.match[m].linked
  BY <1>7, <1>8 DEF Chain, SameSlot
<1>9. CASE d.match[m].linked
  <2>1. \A i \in LogOf(e, m) : e.deviation[i].old = Shown(m, SlotAfter(e, m, Earlier(e, m, i)))
    BY <1>4, <1>5, <1>9 DEF Chain
  <2>2. e.match[m].linked /\ e.match[m].slot = d.match[m].slot
        /\ e.match[m].date = d.match[m].date /\ e.match[m].writeDate = d.match[m].writeDate
    BY <1>9 DEF SameSlot
  <2>3. /\ e.match[m].slot \in Slots \cup {NoSlot}
        /\ e.match[m].slot = SlotAfter(e, m, LogOf(e, m))
        /\ e.match[m].slot = NoSlot => DelaysOf(e, m) = {}
        /\ e.match[m].date = IF e.match[m].slot = NoSlot THEN NoDate
                             ELSE [slot |-> e.match[m].slot, late |-> Cardinality(DelaysOf(e, m))]
        /\ e.match[m].writeDate \in {0} \cup LogOf(e, m)
    BY <1>2, <1>6, <1>9, <2>2 DEF Chain
  <2>4. QED
    BY <1>7, <2>1, <2>2, <2>3 DEF Chain
<1>10. QED
  BY <1>8, <1>9 DEF SameSlot

(* A match that is linked late is in its published slot. *)
LEMMA ChainStarts ==
    ASSUME NEW e, NEW m \in Matches, LogOf(e, m) = {}, e.match[m] = PlannedMatch(m)
    PROVE  Chain(e, m)
<1>1. /\ e.match[m].linked /\ e.match[m].slot = Plan[m] /\ e.match[m].writeDate = 0
      /\ e.match[m].date = [slot |-> Plan[m], late |-> 0]
  BY DEF PlannedMatch
<1>2. IsFiniteSet(LogOf(e, m)) /\ HasLast(LogOf(e, m))
  BY FS_EmptySet DEF HasLast
<1>3. DelaysOf(e, m) = {} /\ Cardinality(DelaysOf(e, m)) = 0
  BY FS_EmptySet DEF DelaysOf
<1>4. SlotAfter(e, m, LogOf(e, m)) = Plan[m] /\ Plan[m] \in Slots /\ Plan[m] # NoSlot
  BY IdsAndSlots DEF SlotAfter
<1>5. QED
  BY <1>1, <1>2, <1>3, <1>4 DEF Chain

(* A change of a match with a new number, last in its chain. *)
Changes(x, v, y) ==
    \/ /\ v.state = "move" /\ v.new \in Slots /\ y.slot = v.new
       /\ y.date = [slot |-> v.new, late |-> 0]
    \/ /\ v.state = "delay" /\ y.slot = v.old
       /\ y.date = [slot |-> IF x.date = NoDate THEN v.old ELSE x.date.slot,
                    late |-> x.date.late + 1]
    \/ v.state \in {"postpone", "cancel"} /\ y.slot = NoSlot /\ y.date = NoDate

LEMMA ChainGrows ==
    ASSUME NEW d, NEW e, NEW m \in Matches, Chain(d, m), d.match[m].linked,
           NEW i \in DeviationIds, \A j \in LogOf(d, m) : j < i,
           LogOf(e, m) = LogOf(d, m) \cup {i},
           \A j \in LogOf(d, m) : e.deviation[j] = d.deviation[j],
           e.deviation[i].old = CurrentSlot(d, m),
           e.match[m].linked, e.match[m].writeDate = i,
           Changes(d.match[m], e.deviation[i], e.match[m])
    PROVE  Chain(e, m)
<1> DEFINE L == LogOf(d, m)
           x == d.match[m]
           y == e.match[m]
           v == e.deviation[i]
<1>1. /\ L \in SUBSET Nat /\ i \in Nat /\ i \notin L /\ \A j \in L : j < i /\ j <= i
      /\ LogOf(e, m) = L \cup {i}
  BY IdsAndSlots DEF LogOf
<1>2. /\ IsFiniteSet(L) /\ HasLast(L) /\ (\A j \in L : HasLast(Earlier(d, m, j)))
      /\ x.slot \in Slots \cup {NoSlot} /\ x.slot = SlotAfter(d, m, L)
      /\ x.slot = NoSlot => DelaysOf(d, m) = {}
      /\ x.date = IF x.slot = NoSlot THEN NoDate
                  ELSE [slot |-> x.slot, late |-> Cardinality(DelaysOf(d, m))]
      /\ \A j \in L : d.deviation[j].old = Shown(m, SlotAfter(d, m, Earlier(d, m, j)))
  BY DEF Chain
<1>3. v.old = Shown(m, x.slot) /\ v.old \in Slots /\ v.old # NoSlot
  BY <1>2, IdsAndSlots DEF CurrentSlot, Shown
<1>4. IsFiniteSet(LogOf(e, m)) /\ HasLast(LogOf(e, m)) /\ Max(LogOf(e, m)) = i
  <2>1. IsFiniteSet(L \cup {i})
    BY <1>2, FS_AddElement
  <2>2. L \cup {i} \in SUBSET Nat /\ i \in L \cup {i} /\ \A j \in L \cup {i} : j <= i
    BY <1>1
  <2>3. Max(L \cup {i}) = i
    BY <2>2, LastIs
  <2>4. QED
    BY <1>1, <2>1, <2>2, <2>3 DEF HasLast
<1>5. /\ \A j \in L : Earlier(e, m, j) = Earlier(d, m, j)
      /\ Earlier(e, m, i) = L
  BY <1>1 DEF Earlier
<1>6. \A j \in LogOf(e, m) : HasLast(Earlier(e, m, j))
  BY <1>1, <1>2, <1>5
<1>7. ASSUME NEW S \in SUBSET L, HasLast(S)
      PROVE  SlotAfter(e, m, S) = SlotAfter(d, m, S)
  <2>1. CASE S = {}
    BY <2>1 DEF SlotAfter
  <2>2. CASE S # {}
    <3>1. Max(S) \in S
      BY <1>1, <1>7, <2>2, LastIn
    <3>2. e.deviation[Max(S)] = d.deviation[Max(S)]
      BY <3>1
    <3>3. QED
      BY <3>2 DEF SlotAfter
  <2>3. QED
    BY <2>1, <2>2
<1>8. ASSUME NEW j \in LogOf(e, m)
      PROVE  e.deviation[j].old = Shown(m, SlotAfter(e, m, Earlier(e, m, j)))
  <2>1. CASE j = i
    BY <1>2, <1>3, <1>5, <1>7, <2>1
  <2>2. CASE j \in L
    <3>1. Earlier(d, m, j) \in SUBSET L
      BY DEF Earlier
    <3>2. SlotAfter(e, m, Earlier(e, m, j)) = SlotAfter(d, m, Earlier(d, m, j))
      BY <1>2, <1>5, <1>7, <2>2, <3>1
    <3>3. QED
      BY <1>2, <2>2, <3>2
  <2>3. QED
    BY <1>1, <2>1, <2>2
<1>9. SlotAfter(e, m, LogOf(e, m)) = LeftIn(v)
  BY <1>1, <1>4 DEF SlotAfter
<1>10. v.state # "delay" => DelaysOf(e, m) = {}
  BY <1>1 DEF DelaysOf
<1>11. v.state = "delay" => DelaysOf(e, m) = DelaysOf(d, m) \cup {i}
  BY <1>1 DEF DelaysOf
<1>12. v.state = "delay" => Cardinality(DelaysOf(e, m)) = Cardinality(DelaysOf(d, m)) + 1
  <2>1. DelaysOf(d, m) \in SUBSET L
    BY DEF DelaysOf
  <2>2. IsFiniteSet(DelaysOf(d, m)) /\ i \notin DelaysOf(d, m)
    BY <1>1, <1>2, <2>1, FS_Subset
  <2>3. Cardinality(DelaysOf(d, m) \cup {i}) = Cardinality(DelaysOf(d, m)) + 1
    BY <2>2, FS_AddElement
  <2>4. QED
    BY <1>11, <2>3
<1>13. Cardinality({}) = 0
  BY FS_EmptySet
<1>14. /\ y.slot \in Slots \cup {NoSlot} /\ y.slot = LeftIn(v)
       /\ y.slot = NoSlot => DelaysOf(e, m) = {}
       /\ y.date = IF y.slot = NoSlot THEN NoDate
                   ELSE [slot |-> y.slot, late |-> Cardinality(DelaysOf(e, m))]
  <2>1. CASE v.state = "move"
    <3>1. y.slot = v.new /\ v.new \in Slots /\ v.new # NoSlot /\ LeftIn(v) = v.new
          /\ y.date = [slot |-> v.new, late |-> 0]
      BY <2>1, IdsAndSlots DEF Changes, LeftIn
    <3>2. DelaysOf(e, m) = {} /\ Cardinality(DelaysOf(e, m)) = 0
      BY <1>10, <1>13, <2>1
    <3>3. QED
      BY <3>1, <3>2
  <2>2. CASE v.state = "delay"
    <3>1. y.slot = v.old /\ LeftIn(v) = v.old
          /\ y.date = [slot |-> IF x.date = NoDate THEN v.old ELSE x.date.slot,
                       late |-> x.date.late + 1]
      BY <2>2 DEF Changes, LeftIn
    <3>2. CASE x.slot = NoSlot
      <4>1. x.date = NoDate /\ x.date.late = 0 /\ DelaysOf(d, m) = {}
        BY <1>2, <3>2 DEF NoDate
      <4>2. y.date = [slot |-> v.old, late |-> 0 + 1]
        BY <3>1, <4>1
      <4>3. Cardinality(DelaysOf(e, m)) = 0 + 1
        BY <1>12, <1>13, <2>2, <4>1
      <4>4. QED
        BY <1>3, <3>1, <4>2, <4>3
    <3>3. CASE x.slot # NoSlot
      <4>1. x.date = [slot |-> x.slot, late |-> Cardinality(DelaysOf(d, m))] /\ v.old = x.slot
        BY <1>2, <1>3, <3>3 DEF Shown
      <4>2. x.date.slot = v.old /\ x.date.late = Cardinality(DelaysOf(d, m)) /\ x.date # NoDate
        BY <3>3, <4>1 DEF NoDate
      <4>3. y.date = [slot |-> v.old, late |-> Cardinality(DelaysOf(e, m))]
        BY <1>12, <2>2, <3>1, <4>2
      <4>4. QED
        BY <1>3, <3>1, <4>3
    <3>4. QED
      BY <3>2, <3>3
  <2>3. CASE v.state \in {"postpone", "cancel"}
    <3>1. y.slot = NoSlot /\ y.date = NoDate /\ LeftIn(v) = NoSlot
      BY <2>3 DEF Changes, LeftIn
    <3>2. QED
      BY <1>10, <2>3, <3>1
  <2>4. QED
    BY <2>1, <2>2, <2>3 DEF Changes
<1>15. QED
  BY <1>1, <1>4, <1>6, <1>8, <1>9, <1>14 DEF Chain

-----------------------------------------------------------------------------
(* Commands that record no change. *)
LEMMA QuietStep ==
    ASSUME NEW d, Sound(d), NEW e, e.deviation = d.deviation,
           \A m \in Matches : \/ SameSlot(d.match[m], e.match[m])
                              \/ ~d.match[m].linked /\ e.match[m] = PlannedMatch(m)
    PROVE  (\A m \in Matches : Chain(e, m)) /\ Advance(d, e)
<1>1. ASSUME NEW m \in Matches  PROVE Chain(e, m)
  <2>1. LogOf(e, m) = LogOf(d, m) /\ Chain(d, m)
    BY DEF LogOf, Sound
  <2>2. CASE SameSlot(d.match[m], e.match[m])
    BY <2>1, <2>2, ChainSame
  <2>3. CASE ~d.match[m].linked /\ e.match[m] = PlannedMatch(m)
    <3>1. LogOf(d, m) = {}
      BY <2>1, <2>3 DEF Chain
    <3>2. QED
      BY <2>1, <2>3, <3>1, ChainStarts
  <2>4. QED
    BY <2>2, <2>3
<1>2. Advance(d, e)
  BY DEF Advance
<1>3. QED
  BY <1>1, <1>2

(* What a closing reads. *)
LEMMA Reads ==
    ASSUME NEW d, NEW e, e.match = d.match, e.incident = d.incident
    PROVE  /\ Linked(e) = Linked(d) /\ Waiting(e) = Waiting(d) /\ Unresolved(e) = Unresolved(d)
           /\ Unfinished(e) = Unfinished(d) /\ Blocked(e) = Blocked(d)
<1>1. Linked(e) = Linked(d) /\ Unresolved(e) = Unresolved(d)
  BY DEF Linked, Unresolved
<1>2. QED
  BY <1>1 DEF Waiting, Unfinished, Blocked

(* The row of the day. *)
LEMMA DayMoves ==
    ASSUME NEW d, Sound(d), NEW r, DayRow(r), NEW e,
           e = Tables(<<r>>, d.match, d.deviation, d.incident)
    PROVE  /\ Sound(e) /\ Advance(d, e) /\ Day(e) = r
           /\ e.match = d.match /\ e.deviation = d.deviation /\ e.incident = d.incident
<1>1. /\ e.match = d.match /\ e.deviation = d.deviation /\ e.incident = d.incident
      /\ e.day = <<r>> /\ Day(e) = r
      /\ e = Tables(e.day, e.match, e.deviation, e.incident)
  BY DEF Tables, Day
<1>2. Shape(d)
  BY DEF Sound
<1>3. e.day = <<e.day[1]>> /\ DayRow(e.day[1])
  BY <1>1 DEF Day
<1>4. Shape(e)
  BY <1>1, <1>2, <1>3 DEF Shape
<1>5. \A m \in Matches : SameSlot(d.match[m], e.match[m])
  BY <1>1 DEF SameSlot
<1>6. (\A m \in Matches : Chain(e, m)) /\ Advance(d, e)
  BY <1>1, <1>5, QuietStep
<1>7. QED
  BY <1>1, <1>4, <1>6 DEF Sound

DayWith(d, r) == Tables(<<r>>, d.match, d.deviation, d.incident)

LEMMA DayTables ==
    ASSUME NEW d, Shape(d)
    PROVE  /\ Opened(d) = DayWith(d, [state |-> "open", how |-> Day(d).how])
           /\ \A how : Closed(d, how) = DayWith(d, [state |-> "closed", how |-> how])
           /\ DayRow([state |-> "open", how |-> Day(d).how])
           /\ \A how : DayRow([state |-> "closed", how |-> how])
<1>1. /\ d = Tables(d.day, d.match, d.deviation, d.incident)
      /\ d.day = <<d.day[1]>> /\ d.day[1] = [state |-> d.day[1].state, how |-> d.day[1].how]
  BY DEF Shape, DayRow
<1>2. ASSUME NEW r  PROVE [d EXCEPT !.day[1] = r] = DayWith(d, r)
  <2> DEFINE p == [d.day EXCEPT ![1] = r]
  <2>1. p = <<r>>
    BY <1>1
  <2>2. [d EXCEPT !.day[1] = r] = [d EXCEPT !.day = p]
    OBVIOUS
  <2> HIDE DEF p
  <2>3. [d EXCEPT !.day = p] = Tables(p, d.match, d.deviation, d.incident)
    BY <1>1 DEF Tables
  <2>4. QED
    BY <2>1, <2>2, <2>3 DEF DayWith
<1>3. Opened(d) = DayWith(d, [state |-> "open", how |-> Day(d).how])
  <2> DEFINE r == [d.day[1] EXCEPT !.state = "open"]
  <2>1. r = [state |-> "open", how |-> Day(d).how]
    BY <1>1 DEF Day
  <2>2. Opened(d) = [d EXCEPT !.day[1] = r]
    BY DEF Opened
  <2> HIDE DEF r
  <2>3. QED
    BY <1>2, <2>1, <2>2
<1>4. \A how : Closed(d, how) = DayWith(d, [state |-> "closed", how |-> how])
  BY <1>2 DEF Closed
<1>5. QED
  BY <1>3, <1>4 DEF DayRow

LEMMA OpenedKeeps ==
    ASSUME NEW d, Sound(d), Day(d).state = "scheduled"
    PROVE  LET e == Opened(d) IN
           /\ Sound(e) /\ Advance(d, e) /\ Calm(d, e) /\ (ClosedOK(d) => ClosedOK(e))
           /\ e.match = d.match /\ e.incident = d.incident
<1> DEFINE e == Opened(d)
           r == [state |-> "open", how |-> Day(d).how]
<1>1. e = Tables(<<r>>, d.match, d.deviation, d.incident) /\ DayRow(r)
  BY DayTables DEF Sound, DayWith
<1>2. r.how = Day(d).how
  OBVIOUS
<1> HIDE DEF e, r
<1>3. /\ Sound(e) /\ Advance(d, e) /\ Day(e) = r
      /\ e.match = d.match /\ e.deviation = d.deviation /\ e.incident = d.incident
  BY <1>1, DayMoves
<1>4. Linked(e) = Linked(d)
  BY <1>3, Reads
<1>5. Calm(d, e)
  BY <1>2, <1>3, <1>4 DEF Calm
<1>6. ClosedOK(d) => ClosedOK(e)
  BY <1>2, <1>3 DEF ClosedOK
<1>7. QED
  BY <1>3, <1>5, <1>6 DEF e

(* Every match of a day that is closed by itself has its official result. *)
AllOfficial(d) == \A m \in Matches : d.match[m].linked /\ Official(d.match[m])

LEMMA ClosedKeeps ==
    ASSUME NEW d, Sound(d), NEW how, how \in {"complete", "automatic"} => ~Blocked(d)
    PROVE  LET e == Closed(d, how) IN
           /\ Sound(e) /\ Advance(d, e) /\ ClosedOK(e) /\ Day(e).how = how
           /\ e.match = d.match
<1> DEFINE e == Closed(d, how)
           r == [state |-> "closed", how |-> how]
<1>1. e = Tables(<<r>>, d.match, d.deviation, d.incident) /\ DayRow(r)
  BY DayTables DEF Sound, DayWith
<1>2. r.how = how /\ r.state = "closed"
  OBVIOUS
<1> HIDE DEF e, r
<1>3. /\ Sound(e) /\ Advance(d, e) /\ Day(e) = r
      /\ e.match = d.match /\ e.deviation = d.deviation /\ e.incident = d.incident
  BY <1>1, DayMoves
<1>4. Waiting(e) = Waiting(d) /\ Unresolved(e) = Unresolved(d)
  BY <1>3, Reads
<1>5. ClosedOK(e)
  BY <1>2, <1>3, <1>4 DEF ClosedOK, Blocked
<1>6. QED
  BY <1>2, <1>3, <1>5 DEF e

LEMMA AutoClosedKeeps ==
    ASSUME NEW d, Sound(d)
    PROVE  LET e == AutoClosed(d) IN
           /\ Sound(e) /\ Advance(d, e) /\ (ClosedOK(d) => ClosedOK(e))
           /\ e.match = d.match
           /\ Day(e).how = Day(d).how \/ AllOfficial(e)
<1> DEFINE e == AutoClosed(d)
           all == /\ IsOpen(d) /\ Linked(d) # {}
                  /\ \A m \in Linked(d) : Official(d.match[m])
                  /\ Unresolved(d) = {} /\ ~Blocked(d)
<1>1. Advance(d, d)
  BY DEF Advance
<1>2. CASE ~all
  <2>1. e = d
    BY <1>2 DEF AutoClosed
  <2> HIDE DEF e
  <2>2. QED
    BY <1>1, <2>1 DEF e
<1>3. CASE all
  <2>1. e = Closed(d, "automatic")
    BY <1>3 DEF AutoClosed
  <2>2. PICK f : f = Closed(d, "automatic")
    OBVIOUS
  <2>3. Sound(f) /\ Advance(d, f) /\ ClosedOK(f) /\ f.match = d.match
    BY <1>3, <2>2, ClosedKeeps
  <2>4. AllOfficial(f)
    BY <1>3, <2>3 DEF AllOfficial, Blocked, Waiting, Linked
  <2> HIDE DEF e
  <2>5. QED
    BY <2>1, <2>2, <2>3, <2>4 DEF e
<1>4. QED
  BY <1>2, <1>3

-----------------------------------------------------------------------------
(* Command by command. *)
Keeps(d, e) ==
    /\ Sound(e) /\ Advance(d, e) /\ (ClosedOK(d) => ClosedOK(e))
    /\ Day(e).how = "automatic" => Day(d).how = "automatic" \/ AllOfficial(e)

LEMMA OpenKeeps ==
    ASSUME NEW d, Sound(d), NEW e \in OpenDay(d)
    PROVE  Keeps(d, e) /\ Calm(d, e)
<1>1. Day(d).state = "scheduled" /\ e = Opened(d)
  BY DEF OpenDay
<1>2. Sound(e) /\ Advance(d, e) /\ Calm(d, e) /\ (ClosedOK(d) => ClosedOK(e))
  BY <1>1, OpenedKeeps
<1>3. QED
  BY <1>2 DEF Keeps, Calm

LEMMA CloseKeeps ==
    ASSUME NEW d, Sound(d), NEW e \in CloseDay(d)
    PROVE  Keeps(d, e)
<1>1. PICK how \in {"forced", "complete"} :
        e = Closed(d, how) /\ (how = "complete" => ~Blocked(d))
  BY DEF CloseDay
<1>2. Sound(e) /\ Advance(d, e) /\ ClosedOK(e) /\ Day(e).how = how
  BY <1>1, ClosedKeeps
<1>3. QED
  BY <1>1, <1>2 DEF Keeps

LEMMA AdvanceTwice ==
    ASSUME NEW d, NEW e, NEW f, Sound(d), e.match = d.match, e.deviation = d.deviation, Advance(e, f)
    PROVE  Advance(d, f)
  BY DEF Advance

LEMMA CronKeeps ==
    ASSUME NEW d, Sound(d), NEW e \in MatchdayCron(d)
    PROVE  Keeps(d, e)
<1>1. PICK f : f = AutoOpened(d)
  OBVIOUS
<1>2. e = AutoClosed(f)
  BY <1>1 DEF MatchdayCron
<1>3. /\ Sound(f) /\ (ClosedOK(d) => ClosedOK(f)) /\ Day(f).how = Day(d).how
      /\ f.match = d.match /\ f.deviation = d.deviation
  <2>1. CASE f = d
    BY <2>1
  <2>2. CASE f # d
    <3>1. f = Opened(d) /\ Day(d).state = "scheduled"
      BY <1>1, <2>2 DEF AutoOpened
    <3>2. Sound(f) /\ Calm(d, f) /\ (ClosedOK(d) => ClosedOK(f)) /\ f.match = d.match
      BY <3>1, OpenedKeeps
    <3>3. f = DayWith(d, [state |-> "open", how |-> Day(d).how])
      BY <3>1, DayTables DEF Sound
    <3>4. f.deviation = d.deviation
      BY <3>3 DEF DayWith, Tables
    <3>5. QED
      BY <3>2, <3>4 DEF Calm
  <2>3. QED
    BY <2>1, <2>2
<1>4. /\ Sound(e) /\ Advance(f, e) /\ (ClosedOK(f) => ClosedOK(e))
      /\ Day(e).how = Day(f).how \/ AllOfficial(e)
  BY <1>2, <1>3, AutoClosedKeeps
<1>5. Advance(d, e)
  BY <1>3, <1>4, AdvanceTwice
<1>6. QED
  BY <1>3, <1>4, <1>5 DEF Keeps

(* Incidents. *)
LEMMA IncidentsMove ==
    ASSUME NEW d, Sound(d), IsOpen(d), NEW inc, inc = [i \in IncidentIds |-> inc[i]], NEW e,
           e = Tables(d.day, d.match, d.deviation, inc)
    PROVE  Keeps(d, e) /\ Calm(d, e) /\ e.match = d.match /\ e.deviation = d.deviation /\ e.day = d.day
<1>1. /\ e.match = d.match /\ e.deviation = d.deviation /\ e.incident = inc /\ e.day = d.day
      /\ e = Tables(e.day, e.match, e.deviation, e.incident)
  BY DEF Tables
<1>2. Shape(d)
  BY DEF Sound
<1>3. Shape(e)
  BY <1>1, <1>2 DEF Shape
<1>4. \A m \in Matches : SameSlot(d.match[m], e.match[m])
  BY <1>1 DEF SameSlot
<1>5. (\A m \in Matches : Chain(e, m)) /\ Advance(d, e)
  BY <1>1, <1>4, QuietStep
<1>6. Day(e) = Day(d) /\ Linked(e) = Linked(d) /\ Day(d).state = "open"
  BY <1>1 DEF Day, Linked, IsOpen
<1>7. Calm(d, e)
  BY <1>6 DEF Calm
<1>8. ClosedOK(d) => ClosedOK(e)
  BY <1>6 DEF ClosedOK
<1>9. QED
  BY <1>1, <1>3, <1>5, <1>6, <1>7, <1>8 DEF Keeps, Sound

LEMMA ReportedKeeps ==
    ASSUME NEW d, Sound(d), IsOpen(d), NEW e \in Reported(d)
    PROVE  Keeps(d, e) /\ Calm(d, e) /\ e.match = d.match /\ e.deviation = d.deviation /\ e.day = d.day
<1>1. PICK i \in NewId(d, "incident") : e = [d EXCEPT !.incident[i] = [state |-> "unresolved"]]
  BY DEF Reported
<1>2. PICK x : x = [state |-> "unresolved"]
  OBVIOUS
<1> DEFINE inc == [d.incident EXCEPT ![i] = x]
<1>3. d = Tables(d.day, d.match, d.deviation, d.incident)
      /\ d.incident = [k \in IncidentIds |-> d.incident[k]]
  BY DEF Sound, Shape
<1>4. inc = [k \in IncidentIds |-> inc[k]]
  BY <1>3
<1>5. e = [d EXCEPT !.incident = inc]
  BY <1>1, <1>2
<1> HIDE DEF inc
<1>6. e = Tables(d.day, d.match, d.deviation, inc)
  BY <1>3, <1>5 DEF Tables
<1>7. QED
  BY <1>4, <1>6, IncidentsMove

LEMMA ResolveKeeps ==
    ASSUME NEW d, Sound(d), NEW e \in ResolveIncident(d)
    PROVE  Keeps(d, e) /\ Calm(d, e)
<1>1. PICK i \in IncidentIds : IsOpen(d) /\ e = [d EXCEPT !.incident[i].state = "resolved"]
  BY DEF ResolveIncident, Unresolved
<1>2. PICK x : x = [d.incident[i] EXCEPT !.state = "resolved"]
  OBVIOUS
<1> DEFINE inc == [d.incident EXCEPT ![i] = x]
<1>3. d = Tables(d.day, d.match, d.deviation, d.incident)
      /\ d.incident = [k \in IncidentIds |-> d.incident[k]]
  BY DEF Sound, Shape
<1>4. inc = [k \in IncidentIds |-> inc[k]]
  BY <1>3
<1>5. e = [d EXCEPT !.incident = inc]
  BY <1>1, <1>2
<1> HIDE DEF inc
<1>6. e = Tables(d.day, d.match, d.deviation, inc)
  BY <1>3, <1>5 DEF Tables
<1>7. QED
  BY <1>1, <1>4, <1>6, IncidentsMove

(* One match is written, and no change recorded. *)
MatchWith(d, m, x) == Tables(d.day, [d.match EXCEPT ![m] = x], d.deviation, d.incident)

LEMMA MatchMoves ==
    ASSUME NEW d, Sound(d), NEW m \in Matches, NEW x, MatchRow(x),
           SameSlot(d.match[m], x) \/ (~d.match[m].linked /\ x = PlannedMatch(m)),
           NEW e, e = MatchWith(d, m, x)
    PROVE  /\ Sound(e) /\ Advance(d, e) /\ Calm(d, e) /\ Day(e) = Day(d)
           /\ e.deviation = d.deviation
           /\ \A k \in Matches : d.match[k].linked => e.match[k].linked
           /\ e.match = [k \in Matches |-> IF k = m THEN x ELSE d.match[k]]
           /\ ClosedOK(d) => ClosedOK(e)
<1>1. Shape(d)
  BY DEF Sound
<1> DEFINE match == [d.match EXCEPT ![m] = x]
<1>2. match = [k \in Matches |-> IF k = m THEN x ELSE d.match[k]]
  BY <1>1 DEF Shape
<1>3. e = Tables(d.day, match, d.deviation, d.incident)
  BY DEF MatchWith
<1> HIDE DEF match
<1>4. /\ e.match = match /\ e.deviation = d.deviation /\ e.incident = d.incident /\ e.day = d.day
      /\ e = Tables(e.day, e.match, e.deviation, e.incident)
  BY <1>3 DEF Tables
<1>5. \A k \in Matches : MatchRow(e.match[k])
  BY <1>1, <1>2, <1>4 DEF Shape
<1>6. e.match = [k \in Matches |-> e.match[k]]
  BY <1>2, <1>4
<1>7. Shape(e)
  BY <1>1, <1>4, <1>5, <1>6 DEF Shape
<1>8. \A k \in Matches : \/ SameSlot(d.match[k], e.match[k])
                         \/ ~d.match[k].linked /\ e.match[k] = PlannedMatch(k)
  BY <1>2, <1>4 DEF SameSlot
<1>9. (\A k \in Matches : Chain(e, k)) /\ Advance(d, e)
  BY <1>4, <1>8, QuietStep
<1>10. \A k \in Matches : d.match[k].linked => e.match[k].linked
  BY <1>8 DEF SameSlot, PlannedMatch
<1>11. /\ Day(e) = Day(d) /\ Unresolved(e) = Unresolved(d)
       /\ Linked(d) \subseteq Linked(e) /\ Waiting(e) \subseteq Waiting(d)
  BY <1>4, <1>10 DEF Day, Unresolved, Linked, Waiting
<1>12. Calm(d, e)
  BY <1>4, <1>11 DEF Calm
<1>13. ClosedOK(d) => ClosedOK(e)
  BY <1>11 DEF ClosedOK
<1>14. QED
  BY <1>2, <1>4, <1>7, <1>9, <1>10, <1>11, <1>12, <1>13 DEF Sound

LEMMA MatchTables ==
    ASSUME NEW d, Shape(d), NEW m \in Matches, NEW x
    PROVE  [d EXCEPT !.match[m] = x] = MatchWith(d, m, x)
<1> DEFINE match == [d.match EXCEPT ![m] = x]
<1>1. d = Tables(d.day, d.match, d.deviation, d.incident)
  BY DEF Shape
<1>2. [d EXCEPT !.match[m] = x] = [d EXCEPT !.match = match]
  OBVIOUS
<1> HIDE DEF match
<1>3. [d EXCEPT !.match = match] = Tables(d.day, match, d.deviation, d.incident)
  BY <1>1 DEF Tables
<1>4. QED
  BY <1>2, <1>3 DEF MatchWith, match

LEMMA MoveKeeps ==
    ASSUME NEW d, Sound(d), NEW e \in MoveMatch(d)
    PROVE  Keeps(d, e) /\ Calm(d, e)
<1>1. PICK m \in Linked(d), to \in {"unfinished", "done", "cancelled"} :
        e = [d EXCEPT !.match[m].state = to]
  BY DEF MoveMatch
<1>2. m \in Matches /\ d.match[m].linked /\ Shape(d) /\ MatchRow(d.match[m])
  BY DEF Linked, Sound, Shape
<1>3. PICK x : x = [d.match[m] EXCEPT !.state = to]
  OBVIOUS
<1>4. MatchRow(x) /\ SameSlot(d.match[m], x)
  BY <1>2, <1>3 DEF MatchRow, SameSlot
<1>5. e = [d EXCEPT !.match[m] = x]
  BY <1>1, <1>3
<1>6. e = MatchWith(d, m, x)
  BY <1>2, <1>5, MatchTables
<1>7. Sound(e) /\ Advance(d, e) /\ Calm(d, e) /\ (ClosedOK(d) => ClosedOK(e))
  BY <1>2, <1>4, <1>6, MatchMoves
<1>8. QED
  BY <1>7 DEF Keeps, Calm

(* A result is decided: the match is official or not, and its state follows. *)
Decided(x, official, state) == [x EXCEPT !.official = official, !.state = state]
DecidedIn(d, m, official, state) == MatchWith(d, m, Decided(d.match[m], official, state))

Marked(d, m, official) == [d EXCEPT !.match[m].official = official]
MarkedSet(d, m, official, state) ==
    [d EXCEPT !.match[m].official = official, !.match[m].state = state]

LEMMA DecidedTables ==
    ASSUME NEW d, Sound(d), NEW m \in Linked(d), NEW official, NEW state
    PROVE  MarkedSet(d, m, official, state) = DecidedIn(d, m, official, state)
<1>1. m \in Matches /\ d.match[m].linked /\ Shape(d) /\ MatchRow(d.match[m])
  BY DEF Linked, Sound, Shape
<1>2. PICK w : w = [d.match[m] EXCEPT !.official = official]
  OBVIOUS
<1>3. PICK x : x = Decided(d.match[m], official, state)
  OBVIOUS
<1>4. x = [w EXCEPT !.state = state]
  BY <1>1, <1>2, <1>3 DEF MatchRow, Decided
<1> DEFINE M == [d.match EXCEPT ![m] = w]
           N == [d.match EXCEPT ![m] = x]
           g == [d EXCEPT !.match = M]
<1>5. DOMAIN d.match = Matches /\ d = Tables(d.day, d.match, d.deviation, d.incident)
  BY <1>1 DEF Shape
<1>6. M[m] = w /\ [M EXCEPT ![m] = x] = N
  BY <1>1, <1>5
<1>7. [d EXCEPT !.match[m].official = official] = g
  BY <1>2
<1>8. MarkedSet(d, m, official, state) = [g EXCEPT !.match[m].state = state]
  BY <1>7 DEF MarkedSet
<1> HIDE DEF M, N
<1>9. g = Tables(d.day, M, d.deviation, d.incident)
  BY <1>5 DEF Tables
<1>10. g.match = M /\ g.match[m] = w
  BY <1>6, <1>9 DEF Tables
<1> HIDE DEF g
<1>11. [g EXCEPT !.match[m].state = state] = [g EXCEPT !.match = N]
  BY <1>4, <1>6, <1>10
<1>12. [g EXCEPT !.match = N] = Tables(d.day, N, d.deviation, d.incident)
  BY <1>9 DEF Tables
<1>13. QED
  BY <1>3, <1>8, <1>11, <1>12 DEF N, MatchWith, DecidedIn

LEMMA DecidedKeeps ==
    ASSUME NEW d, Sound(d), NEW m \in Linked(d), NEW official, NEW state, NEW f,
           f = DecidedIn(d, m, official, state)
    PROVE  /\ Sound(f) /\ Advance(d, f) /\ Calm(d, f) /\ (ClosedOK(d) => ClosedOK(f))
<1>1. m \in Matches /\ d.match[m].linked /\ Shape(d) /\ MatchRow(d.match[m])
  BY DEF Linked, Sound, Shape
<1>2. PICK x : x = Decided(d.match[m], official, state)
  OBVIOUS
<1>3. MatchRow(x) /\ SameSlot(d.match[m], x)
  BY <1>1, <1>2 DEF MatchRow, SameSlot, Decided
<1>4. f = MatchWith(d, m, x)
  BY <1>2 DEF DecidedIn
<1>5. QED
  BY <1>1, <1>3, <1>4, MatchMoves

LEMMA AfterOfficial ==
    ASSUME NEW d, Sound(d), NEW m \in Linked(d), NEW official
    PROVE  Marked(d, m, official).match[m].state = d.match[m].state
<1>1. m \in Matches /\ d.match[m].linked /\ Shape(d) /\ MatchRow(d.match[m])
  BY DEF Linked, Sound, Shape
<1>2. PICK w : w = [d.match[m] EXCEPT !.official = official]
  OBVIOUS
<1>3. w.state = d.match[m].state
  BY <1>2 DEF MatchRow
<1> DEFINE M == [d.match EXCEPT ![m] = w]
           g == [d EXCEPT !.match = M]
<1>4. DOMAIN d.match = Matches /\ d = Tables(d.day, d.match, d.deviation, d.incident)
  BY <1>1 DEF Shape
<1>5. M[m] = w
  BY <1>1, <1>4
<1>6. Marked(d, m, official) = g
  BY <1>2 DEF Marked
<1> HIDE DEF M
<1>7. g = Tables(d.day, M, d.deviation, d.incident)
  BY <1>4 DEF Tables
<1>8. g.match[m] = w
  BY <1>5, <1>7 DEF Tables
<1> HIDE DEF g
<1>9. QED
  BY <1>3, <1>6, <1>8

LEMMA ResultKeeps ==
    ASSUME NEW d, Sound(d), NEW e \in ApproveResult(d) \cup WithdrawResult(d)
    PROVE  Keeps(d, e)
<1>1. CASE e \in ApproveResult(d)
  <2>1. PICK m \in Linked(d) :
          /\ ~d.match[m].official
          /\ e = AutoClosed([d EXCEPT !.match[m].official = TRUE,
                                      !.match[m].state = IF @ = "cancelled" THEN @ ELSE "done"])
    BY <1>1 DEF ApproveResult
  <2>2. PICK state : state = IF d.match[m].state = "cancelled" THEN d.match[m].state ELSE "done"
    OBVIOUS
  <2>3. PICK f : f = DecidedIn(d, m, TRUE, state)
    OBVIOUS
  <2> DEFINE g == Marked(d, m, TRUE)
  <2>4. e = AutoClosed(f)
    <3>1. g.match[m].state = d.match[m].state
      BY AfterOfficial
    <3>2. e = AutoClosed([g EXCEPT !.match[m].state = IF g.match[m].state = "cancelled"
                                                      THEN g.match[m].state ELSE "done"])
      BY <2>1 DEF Marked
    <3>3. f = MarkedSet(d, m, TRUE, state)
      BY <2>3, DecidedTables
    <3>4. f = [g EXCEPT !.match[m].state = state]
      BY <3>3 DEF MarkedSet, Marked
    <3> HIDE DEF g
    <3>5. QED
      BY <2>2, <3>1, <3>2, <3>4
  <2>5. /\ Sound(f) /\ Advance(d, f) /\ (ClosedOK(d) => ClosedOK(f))
        /\ f.deviation = d.deviation /\ Day(f) = Day(d)
    <3>1. Sound(f) /\ Advance(d, f) /\ (ClosedOK(d) => ClosedOK(f))
      BY <2>3, DecidedKeeps
    <3>2. f.deviation = d.deviation /\ Day(f) = Day(d)
      BY <2>3 DEF DecidedIn, MatchWith, Tables, Day
    <3>3. QED
      BY <3>1, <3>2
  <2>6. /\ Sound(e) /\ Advance(f, e) /\ (ClosedOK(f) => ClosedOK(e)) /\ e.match = f.match
        /\ Day(e).how = Day(f).how \/ AllOfficial(e)
    BY <2>4, <2>5, AutoClosedKeeps
  <2>7. Advance(d, e)
    BY <2>5, <2>6 DEF Advance
  <2>8. QED
    BY <2>5, <2>6, <2>7 DEF Keeps
<1>2. CASE e \in WithdrawResult(d)
  <2>1. PICK m \in Linked(d) :
          e = [d EXCEPT !.match[m].official = FALSE,
                        !.match[m].state = IF @ = "done" THEN "unfinished" ELSE @]
    BY <1>2 DEF WithdrawResult
  <2>2. PICK state : state = IF d.match[m].state = "done" THEN "unfinished" ELSE d.match[m].state
    OBVIOUS
  <2> DEFINE g == Marked(d, m, FALSE)
  <2>3. e = DecidedIn(d, m, FALSE, state)
    <3>1. g.match[m].state = d.match[m].state
      BY AfterOfficial
    <3>2. e = [g EXCEPT !.match[m].state = IF g.match[m].state = "done"
                                           THEN "unfinished" ELSE g.match[m].state]
      BY <2>1 DEF Marked
    <3>3. DecidedIn(d, m, FALSE, state) = MarkedSet(d, m, FALSE, state)
      BY DecidedTables
    <3>4. MarkedSet(d, m, FALSE, state) = [g EXCEPT !.match[m].state = state]
      BY DEF MarkedSet, Marked
    <3> HIDE DEF g
    <3>5. QED
      BY <2>2, <3>1, <3>2, <3>3, <3>4
  <2>4. Sound(e) /\ Advance(d, e) /\ Calm(d, e) /\ (ClosedOK(d) => ClosedOK(e))
    BY <2>3, DecidedKeeps
  <2>5. QED
    BY <2>4 DEF Keeps, Calm
<1>3. QED
  BY <1>1, <1>2

LEMMA ArriveKeeps ==
    ASSUME NEW d, Sound(d), NEW e \in Arrive(d)
    PROVE  Keeps(d, e) /\ Calm(d, e)
<1>1. PICK m \in Waiting(d) : e = [d EXCEPT !.match[m] = PlannedMatch(m)]
  BY DEF Arrive
<1>2. m \in Matches /\ ~d.match[m].linked /\ Shape(d)
  BY DEF Waiting, Linked, Sound, Shape
<1>3. PICK x : x = PlannedMatch(m)
  OBVIOUS
<1>4. MatchRow(x)
  BY <1>3 DEF MatchRow, PlannedMatch
<1>5. e = MatchWith(d, m, x)
  BY <1>1, <1>2, <1>3, MatchTables
<1>6. Sound(e) /\ Advance(d, e) /\ Calm(d, e) /\ (ClosedOK(d) => ClosedOK(e))
  BY <1>2, <1>3, <1>4, <1>5, MatchMoves
<1>7. QED
  BY <1>6 DEF Keeps, Calm

-----------------------------------------------------------------------------
(* A change of the plan: its record, its incident, and the row of its match. *)
RowOf(x, state, slot, status, date, i) ==
    [linked |-> TRUE, state |-> state, official |-> x.official, slot |-> slot,
     status |-> status, writeDate |-> i, date |-> date]

NextDate(x, old) == [slot |-> IF x.date = NoDate THEN old ELSE x.date.slot,
                     late |-> x.date.late + 1]

Full(x, state, slot, status, date, i) ==
    /\ x = RowOf(x, state, slot, status, date, i)
    /\ x.linked /\ x.state = state /\ x.slot = slot /\ x.status = status
    /\ x.date = date /\ x.writeDate = i

LEMMA OneField ==
    ASSUME NEW x, NEW state, NEW slot, NEW status, NEW date, NEW i,
           Full(x, state, slot, status, date, i), NEW v
    PROVE  /\ Full([x EXCEPT !.state = v], v, slot, status, date, i)
           /\ Full([x EXCEPT !.slot = v], state, v, status, date, i)
           /\ Full([x EXCEPT !.status = v], state, slot, v, date, i)
           /\ Full([x EXCEPT !.date = v], state, slot, status, v, i)
           /\ Full([x EXCEPT !.writeDate = v], state, slot, status, date, v)
<1>1. PICK o : o = x.official
  OBVIOUS
<1>2. x = [linked |-> TRUE, state |-> state, official |-> o, slot |-> slot,
           status |-> status, writeDate |-> i, date |-> date]
  BY <1>1 DEF Full, RowOf
<1>3. ASSUME NEW y, NEW a, NEW b, NEW c, NEW e, NEW f,
             y = [linked |-> TRUE, state |-> a, official |-> o, slot |-> b,
                  status |-> c, writeDate |-> f, date |-> e]
      PROVE  Full(y, a, b, c, e, f)
  BY <1>3 DEF Full, RowOf
<1>4. Full([x EXCEPT !.state = v], v, slot, status, date, i)
  <2>1. PICK y : y = [x EXCEPT !.state = v]
    OBVIOUS
  <2>2. y = [linked |-> TRUE, state |-> v, official |-> o, slot |-> slot,
             status |-> status, writeDate |-> i, date |-> date]
    BY <1>2, <2>1
  <2>3. QED
    BY <1>3, <2>1, <2>2
<1>5. Full([x EXCEPT !.slot = v], state, v, status, date, i)
  <2>1. PICK y : y = [x EXCEPT !.slot = v]
    OBVIOUS
  <2>2. y = [linked |-> TRUE, state |-> state, official |-> o, slot |-> v,
             status |-> status, writeDate |-> i, date |-> date]
    BY <1>2, <2>1
  <2>3. QED
    BY <1>3, <2>1, <2>2
<1>6. Full([x EXCEPT !.status = v], state, slot, v, date, i)
  <2>1. PICK y : y = [x EXCEPT !.status = v]
    OBVIOUS
  <2>2. y = [linked |-> TRUE, state |-> state, official |-> o, slot |-> slot,
             status |-> v, writeDate |-> i, date |-> date]
    BY <1>2, <2>1
  <2>3. QED
    BY <1>3, <2>1, <2>2
<1>7. Full([x EXCEPT !.date = v], state, slot, status, v, i)
  <2>1. PICK y : y = [x EXCEPT !.date = v]
    OBVIOUS
  <2>2. y = [linked |-> TRUE, state |-> state, official |-> o, slot |-> slot,
             status |-> status, writeDate |-> i, date |-> v]
    BY <1>2, <2>1
  <2>3. QED
    BY <1>3, <2>1, <2>2
<1>8. Full([x EXCEPT !.writeDate = v], state, slot, status, date, v)
  <2>1. PICK y : y = [x EXCEPT !.writeDate = v]
    OBVIOUS
  <2>2. y = [linked |-> TRUE, state |-> state, official |-> o, slot |-> slot,
             status |-> status, writeDate |-> v, date |-> date]
    BY <1>2, <2>1
  <2>3. QED
    BY <1>3, <2>1, <2>2
<1>9. QED
  BY <1>4, <1>5, <1>6, <1>7, <1>8

LEMMA ChangedRows ==
    ASSUME NEW x, MatchRow(x), x.linked, NEW i, NEW s
    PROVE  /\ Full([Moved(x, s) EXCEPT !.writeDate = i],
                   x.state, s, "moved", [slot |-> s, late |-> 0], i)
           /\ Full([Delayed(x, s) EXCEPT !.writeDate = i],
                   x.state, s, "delayed", NextDate(x, s), i)
           /\ Full([Postponed(x) EXCEPT !.writeDate = i],
                   x.state, NoSlot, "postponed", NoDate, i)
           /\ Full([Cancelled(x) EXCEPT !.writeDate = i],
                   "cancelled", NoSlot, "cancelled", NoDate, i)
<1>1. Full(x, x.state, x.slot, x.status, x.date, x.writeDate)
  BY DEF MatchRow, Full, RowOf
<1> DEFINE Slot(z, v) == [z EXCEPT !.slot = v]
           Status(z, v) == [z EXCEPT !.status = v]
           Date(z, v) == [z EXCEPT !.date = v]
           State(z, v) == [z EXCEPT !.state = v]
           Write(z) == [z EXCEPT !.writeDate = i]
           Three(v, status, date) == Date(Status(Slot(x, v), status), date)
<1>2. /\ Moved(x, s) = Three(s, "moved", [slot |-> s, late |-> 0])
      /\ Postponed(x) = Three(NoSlot, "postponed", NoDate)
      /\ Cancelled(x) = State(Status(Postponed(x), "cancelled"), "cancelled")
  BY DEF Moved, Postponed, Cancelled
<1>3. Delayed(x, s) = Three(s, "delayed", NextDate(x, s))
  <2>1. Status(Slot(x, s), "delayed").date = x.date
    BY <1>1 DEF Full, RowOf
  <2>2. QED
    BY <2>1 DEF Delayed, NextDate
<1>4. ASSUME NEW z, NEW a, NEW b, NEW c, NEW e, NEW f, Full(z, a, b, c, e, f), NEW v
      PROVE  /\ Full(State(z, v), v, b, c, e, f) /\ Full(Slot(z, v), a, v, c, e, f)
             /\ Full(Status(z, v), a, b, v, e, f) /\ Full(Date(z, v), a, b, c, v, f)
             /\ Full(Write(z), a, b, c, e, i)
  BY <1>4, OneField
<1> HIDE DEF Slot, Status, Date, State, Write
<1>5. ASSUME NEW v, NEW status, NEW date
      PROVE  Full(Three(v, status, date), x.state, v, status, date, x.writeDate)
  BY <1>1, <1>4
<1> HIDE DEF Three
<1>6. Full(Write(Moved(x, s)), x.state, s, "moved", [slot |-> s, late |-> 0], i)
  BY <1>2, <1>4, <1>5
<1>7. Full(Write(Delayed(x, s)), x.state, s, "delayed", NextDate(x, s), i)
  BY <1>3, <1>4, <1>5
<1>8. /\ Full(Postponed(x), x.state, NoSlot, "postponed", NoDate, x.writeDate)
      /\ Full(Write(Postponed(x)), x.state, NoSlot, "postponed", NoDate, i)
  BY <1>2, <1>4, <1>5
<1>9. Full(Write(Cancelled(x)), "cancelled", NoSlot, "cancelled", NoDate, i)
  BY <1>2, <1>4, <1>8
<1>10. QED
  BY <1>6, <1>7, <1>8, <1>9 DEF Write

Recorded(d, m, i, y, v) ==
    Tables(d.day, [d.match EXCEPT ![m] = y], [d.deviation EXCEPT ![i] = v], d.incident)

LEMMA RecordedKeeps ==
    ASSUME NEW d, Sound(d), IsOpen(d), NEW m \in Linked(d), NEW i \in NewId(d, "deviation"),
           NEW y, MatchRow(y), y.linked, y.writeDate = i,
           NEW v, v # NoRow, DeviationRow(v), v.match = m, v.old = CurrentSlot(d, m),
           Changes(d.match[m], v, y), NEW b, Sound(b), b.match = d.match,
           b.deviation = d.deviation, b.day = d.day, NEW e, e = Recorded(b, m, i, y, v)
    PROVE  /\ Sound(e) /\ Advance(d, e) /\ Calm(d, e) /\ (ClosedOK(d) => ClosedOK(e))
           /\ Day(e) = Day(d)
<1> DEFINE match == [d.match EXCEPT ![m] = y]
           deviation == [d.deviation EXCEPT ![i] = v]
<1>1. /\ m \in Matches /\ d.match[m].linked /\ Shape(d) /\ Shape(b)
      /\ \A k \in Matches : Chain(d, k)
  BY DEF Linked, Sound
<1>2. /\ i \in DeviationIds /\ d.deviation[i] = NoRow
      /\ \A j \in DeviationIds : d.deviation[j] # NoRow => j < i
  BY <1>1, NewRows
<1>3. /\ match = [k \in Matches |-> IF k = m THEN y ELSE d.match[k]]
      /\ deviation = [j \in DeviationIds |-> IF j = i THEN v ELSE d.deviation[j]]
  BY <1>1, <1>2 DEF Shape
<1>4. e = Tables(d.day, match, deviation, b.incident)
  BY DEF Recorded
<1> HIDE DEF match, deviation
<1>5. /\ e.match = match /\ e.deviation = deviation /\ e.day = d.day /\ e.incident = b.incident
      /\ e = Tables(e.day, e.match, e.deviation, e.incident)
  BY <1>4 DEF Tables
<1>6. Shape(e)
  <2>1. \A k \in Matches : e.match[k] = y \/ e.match[k] = d.match[k]
    BY <1>3, <1>5
  <2>2. \A k \in DeviationIds : e.deviation[k] = v \/ e.deviation[k] = d.deviation[k]
    BY <1>3, <1>5
  <2>3. /\ \A k \in Matches : MatchRow(d.match[k])
        /\ \A k \in DeviationIds : DeviationRow(d.deviation[k])
    BY <1>1 DEF Shape
  <2>4. \A k \in Matches : MatchRow(e.match[k])
    BY <2>1, <2>3
  <2>5. \A k \in DeviationIds : DeviationRow(e.deviation[k])
    BY <2>2, <2>3
  <2>6. /\ e.match = [k \in Matches |-> e.match[k]]
        /\ e.deviation = [j \in DeviationIds |-> e.deviation[j]]
    BY <1>3, <1>5
  <2>7. QED
    BY <1>1, <1>5, <2>4, <2>5, <2>6 DEF Shape
<1>7. ASSUME NEW k \in Matches, k # m  PROVE Chain(e, k)
  <2>1. LogOf(e, k) = LogOf(d, k) /\ \A j \in LogOf(d, k) : e.deviation[j] = d.deviation[j]
    BY <1>2, <1>3, <1>5, <1>7 DEF LogOf
  <2>2. SameSlot(d.match[k], e.match[k])
    BY <1>3, <1>5, <1>7 DEF SameSlot
  <2>3. QED
    BY <1>1, <2>1, <2>2, ChainSame
<1>8. Chain(e, m)
  <2>1. LogOf(e, m) = LogOf(d, m) \cup {i}
    BY <1>2, <1>3, <1>5 DEF LogOf
  <2>2. /\ \A j \in LogOf(d, m) : j < i /\ e.deviation[j] = d.deviation[j]
        /\ e.deviation[i] = v /\ e.match[m] = y
    BY <1>1, <1>2, <1>3, <1>5 DEF LogOf
  <2>3. QED
    BY <1>1, <1>2, <2>1, <2>2, ChainGrows
<1>9. \A k \in Matches : Chain(e, k)
  BY <1>7, <1>8
<1>10. Advance(d, e)
  <2>1. i \notin LogOf(d, m) /\ i # 0 /\ d.match[m].writeDate \in {0} \cup LogOf(d, m)
    BY <1>1, <1>2, IdsAndSlots DEF LogOf, Chain
  <2>2. e.match[m] # d.match[m]
    BY <1>1, <1>3, <1>5, <2>1
  <2>3. QED
    BY <1>2, <1>3, <1>5, <2>2 DEF Advance
<1>11. /\ Day(e) = Day(d) /\ Day(d).state = "open" /\ Linked(e) = Linked(d)
  BY <1>1, <1>3, <1>5 DEF Day, IsOpen, Linked
<1>12. Calm(d, e)
  BY <1>11 DEF Calm
<1>13. ClosedOK(d) => ClosedOK(e)
  BY <1>11 DEF ClosedOK
<1>14. QED
  BY <1>6, <1>9, <1>10, <1>11, <1>12, <1>13 DEF Sound

Change(d, m, kind, new) ==
    [state |-> kind, match |-> m, new |-> new, old |-> CurrentSlot(d, m)]

Deviating(d, m, kind, new, match, i, b) ==
    [b EXCEPT !.match[m] = [match EXCEPT !.writeDate = i],
              !.deviation[i] = [state |-> kind, match |-> m, new |-> new,
                                old |-> CurrentSlot(d, m)]]

LEMMA DeviatedSet ==
    ASSUME NEW d, NEW m, NEW kind, NEW new, NEW match
    PROVE  Deviated(d, m, kind, new, match)
             = {Deviating(d, m, kind, new, match, i, b) :
                i \in NewId(d, "deviation"), b \in Reported(d)}
  BY DEF Deviated, Deviating

LEMMA DeviatedKeeps ==
    ASSUME NEW d, Sound(d), IsOpen(d), NEW m \in Linked(d),
           NEW kind \in {"move", "delay", "postpone", "cancel"}, NEW new, NEW match,
           NEW state, NEW slot, NEW status, NEW date,
           \A i : Full([match EXCEPT !.writeDate = i], state, slot, status, date, i),
           \A y : y.slot = slot /\ y.date = date => Changes(d.match[m], Change(d, m, kind, new), y),
           NEW e \in Deviated(d, m, kind, new, match)
    PROVE  Keeps(d, e) /\ Calm(d, e)
<1>1. PICK i \in NewId(d, "deviation"), b \in Reported(d) :
        e = [b EXCEPT !.match[m] = [match EXCEPT !.writeDate = i],
                      !.deviation[i] = [state |-> kind, match |-> m, new |-> new,
                                        old |-> CurrentSlot(d, m)]]
  <2>1. e \in {Deviating(d, m, kind, new, match, i, b) :
               i \in NewId(d, "deviation"), b \in Reported(d)}
    BY DeviatedSet
  <2>2. \E i \in NewId(d, "deviation"), b \in Reported(d) :
           e = Deviating(d, m, kind, new, match, i, b)
    BY <2>1
  <2>3. QED
    BY <2>2 DEF Deviating
<1>2. Sound(b) /\ b.match = d.match /\ b.deviation = d.deviation /\ b.day = d.day
  BY ReportedKeeps DEF Keeps
<1>3. m \in Matches /\ Shape(d) /\ Shape(b)
  BY <1>2 DEF Linked, Sound
<1>4. PICK y : y = [match EXCEPT !.writeDate = i]
  OBVIOUS
<1>5. Full(y, state, slot, status, date, i)
  BY <1>4
<1>6. PICK v : v = Change(d, m, kind, new)
  OBVIOUS
<1>7. /\ v # NoRow /\ DeviationRow(v) /\ v.match = m /\ v.old = CurrentSlot(d, m)
  BY <1>3, <1>6 DEF Change, NoRow, DeviationRow
<1>8. MatchRow(y) /\ y.linked /\ y.writeDate = i
  BY <1>5 DEF Full, RowOf, MatchRow
<1>9. Changes(d.match[m], v, y)
  BY <1>5, <1>6 DEF Full
<1>10. e = Recorded(b, m, i, y, v)
  <2> DEFINE M == [b.match EXCEPT ![m] = y]
             V == [b.deviation EXCEPT ![i] = v]
             g == [b EXCEPT !.match = M]
  <2>1. b = Tables(b.day, b.match, b.deviation, b.incident)
    BY <1>3 DEF Shape
  <2>2. e = [b EXCEPT !.match[m] = y, !.deviation[i] = v]
    BY <1>1, <1>4, <1>6 DEF Change
  <2>3. e = [g EXCEPT !.deviation[i] = v]
    BY <2>2
  <2> HIDE DEF M
  <2>4. g = Tables(b.day, M, b.deviation, b.incident)
    BY <2>1 DEF Tables
  <2>5. g.deviation = b.deviation
    BY <2>4 DEF Tables
  <2> HIDE DEF g
  <2>6. e = [g EXCEPT !.deviation = V]
    BY <2>3, <2>5
  <2> HIDE DEF V
  <2>7. e = Tables(b.day, M, V, b.incident)
    BY <2>4, <2>6 DEF Tables
  <2>8. QED
    BY <2>7 DEF Recorded, M, V
<1>11. /\ Sound(e) /\ Advance(d, e) /\ Calm(d, e) /\ (ClosedOK(d) => ClosedOK(e))
       /\ Day(e) = Day(d)
  BY <1>2, <1>7, <1>8, <1>9, <1>10, RecordedKeeps
<1>12. QED
  BY <1>11 DEF Keeps

Deviations(d, m) ==
    LET match == d.match[m]
        slots == {s \in Slots : ~Occupied(d, m, s)} IN
    (UNION {Deviated(d, m, "move", s, Moved(match, s)) : s \in slots})
    \cup Deviated(d, m, "delay", NoSlot, Delayed(match, CurrentSlot(d, m)))
    \cup Deviated(d, m, "postpone", NoSlot, Postponed(match))
    \cup Deviated(d, m, "cancel", NoSlot, Cancelled(match))

LEMMA RecordDeviationCases ==
    ASSUME NEW d, NEW e \in RecordDeviation(d)
    PROVE  \E m \in Linked(d) :
             /\ IsOpen(d)
             /\ \/ \E s \in Slots : e \in Deviated(d, m, "move", s, Moved(d.match[m], s))
                \/ e \in Deviated(d, m, "delay", NoSlot, Delayed(d.match[m], CurrentSlot(d, m)))
                \/ e \in Deviated(d, m, "postpone", NoSlot, Postponed(d.match[m]))
                \/ e \in Deviated(d, m, "cancel", NoSlot, Cancelled(d.match[m]))
<1>1. RecordDeviation(d) = UNION {Deviations(d, m) : m \in IF IsOpen(d) THEN Linked(d) ELSE {}}
  BY DEF RecordDeviation, Deviations
<1>2. PICK m \in Linked(d) : IsOpen(d) /\ e \in Deviations(d, m)
  BY <1>1
<1>3. \/ \E s \in Slots : e \in Deviated(d, m, "move", s, Moved(d.match[m], s))
      \/ e \in Deviated(d, m, "delay", NoSlot, Delayed(d.match[m], CurrentSlot(d, m)))
      \/ e \in Deviated(d, m, "postpone", NoSlot, Postponed(d.match[m]))
      \/ e \in Deviated(d, m, "cancel", NoSlot, Cancelled(d.match[m]))
  BY <1>2 DEF Deviations
<1>4. QED
  BY <1>2, <1>3

LEMMA RecordDeviationKeeps ==
    ASSUME NEW d, Sound(d), NEW e \in RecordDeviation(d)
    PROVE  Keeps(d, e) /\ Calm(d, e)
<1>1. PICK m \in Linked(d) :
        /\ IsOpen(d)
        /\ \/ \E s \in Slots : e \in Deviated(d, m, "move", s, Moved(d.match[m], s))
           \/ e \in Deviated(d, m, "delay", NoSlot, Delayed(d.match[m], CurrentSlot(d, m)))
           \/ e \in Deviated(d, m, "postpone", NoSlot, Postponed(d.match[m]))
           \/ e \in Deviated(d, m, "cancel", NoSlot, Cancelled(d.match[m]))
  BY RecordDeviationCases
<1>2. PICK x : x = d.match[m]
  OBVIOUS
<1>3. MatchRow(x) /\ x.linked
  BY <1>2 DEF Linked, Sound, Shape
<1>4. CASE \E s \in Slots : e \in Deviated(d, m, "move", s, Moved(x, s))
  <2>1. PICK s \in Slots : e \in Deviated(d, m, "move", s, Moved(x, s))
    BY <1>4
  <2>2. PICK date : date = [slot |-> s, late |-> 0]
    OBVIOUS
  <2>3. \A i : Full([Moved(x, s) EXCEPT !.writeDate = i], x.state, s, "moved", date, i)
    BY <1>3, <2>2, ChangedRows
  <2>4. \A y : y.slot = s /\ y.date = date => Changes(d.match[m], Change(d, m, "move", s), y)
    BY <2>2 DEF Changes, Change
  <2>5. QED
    BY <1>1, <2>1, <2>3, <2>4, DeviatedKeeps
<1>5. CASE e \in Deviated(d, m, "delay", NoSlot, Delayed(x, CurrentSlot(d, m)))
  <2>1. PICK old : old = CurrentSlot(d, m)
    OBVIOUS
  <2>2. PICK date : date = NextDate(x, old)
    OBVIOUS
  <2>3. \A i : Full([Delayed(x, old) EXCEPT !.writeDate = i], x.state, old, "delayed", date, i)
    BY <1>3, <2>2, ChangedRows
  <2>4. \A y : y.slot = old /\ y.date = date
               => Changes(d.match[m], Change(d, m, "delay", NoSlot), y)
    BY <1>2, <2>1, <2>2 DEF Changes, Change, NextDate
  <2>5. e \in Deviated(d, m, "delay", NoSlot, Delayed(x, old))
    BY <1>5, <2>1
  <2>6. QED
    BY <1>1, <2>3, <2>4, <2>5, DeviatedKeeps
<1>6. CASE e \in Deviated(d, m, "postpone", NoSlot, Postponed(x))
  <2>1. \A i : Full([Postponed(x) EXCEPT !.writeDate = i], x.state, NoSlot, "postponed", NoDate, i)
    BY <1>3, ChangedRows
  <2>2. \A y : y.slot = NoSlot /\ y.date = NoDate
               => Changes(d.match[m], Change(d, m, "postpone", NoSlot), y)
    BY DEF Changes, Change
  <2>3. QED
    BY <1>1, <1>6, <2>1, <2>2, DeviatedKeeps
<1>7. CASE e \in Deviated(d, m, "cancel", NoSlot, Cancelled(x))
  <2>1. \A i : Full([Cancelled(x) EXCEPT !.writeDate = i], "cancelled", NoSlot, "cancelled", NoDate, i)
    BY <1>3, ChangedRows
  <2>2. \A y : y.slot = NoSlot /\ y.date = NoDate
               => Changes(d.match[m], Change(d, m, "cancel", NoSlot), y)
    BY DEF Changes, Change
  <2>3. QED
    BY <1>1, <1>7, <2>1, <2>2, DeviatedKeeps
<1>8. QED
  BY <1>1, <1>2, <1>4, <1>5, <1>6, <1>7

(* What every command leaves behind. *)
Closings == {"close", "cron", "result"}

LEMMA OutcomesKeep ==
    ASSUME Sound(db), NEW c \in Commands, NEW e \in Outcomes(c)
    PROVE  Keeps(db, e) /\ (c \notin Closings => Calm(db, e))
<1>1. PICK d : d = db
  OBVIOUS
<1>2. CASE c = "open"
  BY <1>2, OpenKeeps DEF Outcomes
<1>3. CASE c = "report"
  <2>1. IsOpen(db) /\ e \in Reported(db)
    BY <1>3 DEF Outcomes, ReportIncident
  <2>2. QED
    BY <2>1, ReportedKeeps
<1>4. CASE c = "resolve"
  BY <1>4, ResolveKeeps DEF Outcomes
<1>5. CASE c = "deviate"
  BY <1>5, RecordDeviationKeeps DEF Outcomes
<1>6. CASE c = "match"
  BY <1>6, MoveKeeps DEF Outcomes
<1>7. CASE c = "result"
  BY <1>7, ResultKeeps DEF Outcomes, Closings
<1>8. CASE c = "arrive"
  BY <1>8, ArriveKeeps DEF Outcomes
<1>9. CASE c = "close"
  BY <1>9, CloseKeeps DEF Outcomes, Closings
<1>10. CASE c = "cron"
  BY <1>10, CronKeeps DEF Outcomes, Closings
<1>11. QED
  BY <1>2, <1>3, <1>4, <1>5, <1>6, <1>7, <1>8, <1>9, <1>10 DEF Commands

-----------------------------------------------------------------------------
(* Overlap.  What the others may have done since the snapshot, when these are *)
(* the rows that they wrote.                                                *)
Later(d, e, others) ==
    /\ <<"day", 1>> \notin others => e.day[1] = d.day[1]
    /\ \A m \in Matches : <<"match", m>> \notin others => e.match[m] = d.match[m]
    /\ \A i \in IncidentIds : <<"incident", i>> \notin others => e.incident[i] = d.incident[i]
    /\ \A i \in DeviationIds :
          /\ <<"deviation", i>> \notin others => e.deviation[i] = d.deviation[i]
          /\ d.deviation[i] # NoRow => e.deviation[i] = d.deviation[i]
          /\ e.deviation[i] # d.deviation[i] => <<"match", e.deviation[i].match>> \in others
    /\ ClosingsAlone => Calm(d, e)

(* The slow transaction leads from a good day to a good day, while the        *)
(* database went on from the first.                                         *)
Mine(d, new) == [row \in Written(d, new) |-> new[row[1]][row[2]]]
Slowly(d, new) ==
    /\ DayOK(d) /\ DayOK(new) /\ Advance(d, new) /\ (ClosingsAlone => Calm(d, new))
    /\ slow = [running |-> TRUE, others |-> slow.others, locked |-> {}, mine |-> Mine(d, new)]
    /\ Later(d, db, slow.others)
SlowOK == slow.running => \E d, new : Slowly(d, new)

LEMMA WrittenRows ==
    ASSUME NEW d, Shape(d), NEW e
    PROVE  /\ <<"day", 1>> \in Written(d, e) <=> e.day[1] # d.day[1]
           /\ \A m \in Matches : <<"match", m>> \in Written(d, e) <=> e.match[m] # d.match[m]
           /\ \A i \in DeviationIds :
                 <<"deviation", i>> \in Written(d, e) <=> e.deviation[i] # d.deviation[i]
           /\ \A i \in IncidentIds :
                 <<"incident", i>> \in Written(d, e) <=> e.incident[i] # d.incident[i]
<1>1. ASSUME NEW t \in DOMAIN d, NEW i \in DOMAIN d[t]
      PROVE  <<t, i>> \in Written(d, e) <=> e[t][i] # d[t][i]
  BY DEF Written
<1>2. /\ {"day", "match", "deviation", "incident"} \subseteq DOMAIN d
      /\ d["day"] = d.day /\ d["match"] = d.match
      /\ d["deviation"] = d.deviation /\ d["incident"] = d.incident
      /\ e["day"] = e.day /\ e["match"] = e.match
      /\ e["deviation"] = e.deviation /\ e["incident"] = e.incident
  <2>1. d = Tables(d.day, d.match, d.deviation, d.incident)
    BY DEF Shape
  <2>2. QED
    BY <2>1 DEF Tables
<1>3. /\ DOMAIN d.match = Matches /\ DOMAIN d.deviation = DeviationIds
      /\ DOMAIN d.incident = IncidentIds
  BY DEF Shape
<1>4. 1 \in DOMAIN d.day
  <2>1. d.day = <<d.day[1]>>
    BY DEF Shape
  <2>2. QED
    BY <2>1
<1>5. QED
  BY <1>1, <1>2, <1>3, <1>4

(* Row by row: what the slow transaction wrote, or else what is there now.   *)
Chosen(old, new, now) == IF new # old THEN new ELSE now
Joined(d, new, now, j) ==
    /\ j = Tables(j.day, j.match, j.deviation, j.incident)
    /\ j.day = <<j.day[1]>> /\ j.day[1] = Chosen(d.day[1], new.day[1], now.day[1])
    /\ j.match = [m \in Matches |-> Chosen(d.match[m], new.match[m], now.match[m])]
    /\ j.deviation = [i \in DeviationIds |->
                         Chosen(d.deviation[i], new.deviation[i], now.deviation[i])]
    /\ j.incident = [i \in IncidentIds |->
                        Chosen(d.incident[i], new.incident[i], now.incident[i])]

LEMMA MergedRows ==
    ASSUME NEW d, Shape(d), NEW new, Shape(db), slow.mine = Mine(d, new)
    PROVE  Joined(d, new, db, Merged)
<1> DEFINE w == Written(d, new)
           row(t, i) == IF <<t, i>> \in w THEN new[t][i] ELSE db[t][i]
           j == [t \in DOMAIN db |-> [i \in DOMAIN db[t] |-> row(t, i)]]
<1>1. DOMAIN slow.mine = w /\ \A t, i : <<t, i>> \in w => slow.mine[<<t, i>>] = new[t][i]
  BY DEF Mine
<1>2. Merged = j
  BY <1>1 DEF Merged
<1>3. DOMAIN db = {"day", "match", "deviation", "incident"}
  <2>1. db = Tables(db.day, db.match, db.deviation, db.incident)
    BY DEF Shape
  <2>2. QED
    BY <2>1 DEF Tables
<1> HIDE DEF row
<1>4. /\ j = Tables(j.day, j.match, j.deviation, j.incident)
      /\ j.day = [i \in DOMAIN db.day |-> row("day", i)]
      /\ j.match = [i \in DOMAIN db.match |-> row("match", i)]
      /\ j.deviation = [i \in DOMAIN db.deviation |-> row("deviation", i)]
      /\ j.incident = [i \in DOMAIN db.incident |-> row("incident", i)]
  BY <1>3 DEF Tables
<1> HIDE DEF j
<1>5. /\ DOMAIN db.match = Matches /\ DOMAIN db.deviation = DeviationIds
      /\ DOMAIN db.incident = IncidentIds
  BY DEF Shape
<1>6. j.day = <<j.day[1]>> /\ j.day[1] = row("day", 1)
  <2>1. db.day = <<db.day[1]>>
    BY DEF Shape
  <2>2. DOMAIN db.day = 1..1
    BY <2>1
  <2>3. QED
    BY <1>4, <2>2
<1>7. /\ row("day", 1) = Chosen(d.day[1], new.day[1], db.day[1])
      /\ \A i \in Matches : row("match", i) = Chosen(d.match[i], new.match[i], db.match[i])
      /\ \A i \in DeviationIds :
            row("deviation", i) = Chosen(d.deviation[i], new.deviation[i], db.deviation[i])
      /\ \A i \in IncidentIds :
            row("incident", i) = Chosen(d.incident[i], new.incident[i], db.incident[i])
  BY WrittenRows DEF row, Chosen
<1>8. QED
  BY <1>2, <1>4, <1>5, <1>6, <1>7 DEF Joined

(* Each match is as one of the two left it, and so are its changes.          *)
OneSided(d, new, now, j, m) ==
    \/ /\ j.match[m] = new.match[m] /\ LogOf(j, m) = LogOf(new, m)
       /\ \A i \in LogOf(new, m) : j.deviation[i] = new.deviation[i]
    \/ /\ j.match[m] = now.match[m] /\ LogOf(j, m) = LogOf(now, m)
       /\ \A i \in LogOf(now, m) : j.deviation[i] = now.deviation[i]

LEMMA JoinedOneSided ==
    ASSUME NEW d, NEW new, NEW now, Shape(d), Advance(d, new),
           NEW others, Later(d, now, others), Written(d, new) \cap others = {},
           NEW j, Joined(d, new, now, j), NEW m \in Matches
    PROVE  OneSided(d, new, now, j, m)
<1>1. \A i \in DeviationIds :
        /\ j.deviation[i] = IF new.deviation[i] # d.deviation[i]
                            THEN new.deviation[i] ELSE now.deviation[i]
        /\ d.deviation[i] # NoRow =>
              new.deviation[i] = d.deviation[i] /\ now.deviation[i] = d.deviation[i]
        /\ new.deviation[i] # d.deviation[i] =>
              /\ now.deviation[i] = d.deviation[i]
              /\ new.match[new.deviation[i].match] # d.match[new.deviation[i].match]
        /\ now.deviation[i] # d.deviation[i] => <<"match", now.deviation[i].match>> \in others
  <2>1. \A i \in DeviationIds :
           j.deviation[i] = IF new.deviation[i] # d.deviation[i]
                            THEN new.deviation[i] ELSE now.deviation[i]
    BY DEF Joined, Chosen
  <2>2. \A i \in DeviationIds :
           /\ d.deviation[i] # NoRow => new.deviation[i] = d.deviation[i]
           /\ new.deviation[i] # d.deviation[i] =>
                 new.match[new.deviation[i].match] # d.match[new.deviation[i].match]
    BY DEF Advance
  <2>3. \A i \in DeviationIds :
           /\ <<"deviation", i>> \notin others => now.deviation[i] = d.deviation[i]
           /\ d.deviation[i] # NoRow => now.deviation[i] = d.deviation[i]
           /\ now.deviation[i] # d.deviation[i] => <<"match", now.deviation[i].match>> \in others
    BY DEF Later
  <2>4. \A i \in DeviationIds :
           new.deviation[i] # d.deviation[i] => <<"deviation", i>> \notin others
    BY WrittenRows
  <2>5. QED
    BY <2>1, <2>2, <2>3, <2>4
<1>2. j.match[m] = IF new.match[m] # d.match[m] THEN new.match[m] ELSE now.match[m]
  BY DEF Joined, Chosen
<1>3. CASE new.match[m] # d.match[m]
  <2>1. <<"match", m>> \notin others
    BY <1>3, WrittenRows
  <2>2. \A i \in DeviationIds : now.deviation[i] # d.deviation[i] => now.deviation[i].match # m
    BY <1>1, <2>1
  <2>3. \A i \in LogOf(j, m) : j.deviation[i] = new.deviation[i] /\ i \in LogOf(new, m)
    BY <1>1, <2>2 DEF LogOf
  <2>4. \A i \in LogOf(new, m) : j.deviation[i] = new.deviation[i] /\ i \in LogOf(j, m)
    BY <1>1, <2>2 DEF LogOf
  <2>5. LogOf(j, m) = LogOf(new, m)
    BY <2>3, <2>4
  <2>6. QED
    BY <1>2, <1>3, <2>4, <2>5 DEF OneSided
<1>4. CASE new.match[m] = d.match[m]
  <2>1. \A i \in DeviationIds : new.deviation[i] # d.deviation[i] => new.deviation[i].match # m
    BY <1>1, <1>4
  <2>2. \A i \in LogOf(j, m) : j.deviation[i] = now.deviation[i] /\ i \in LogOf(now, m)
    BY <1>1, <2>1 DEF LogOf
  <2>3. \A i \in LogOf(now, m) : j.deviation[i] = now.deviation[i] /\ i \in LogOf(j, m)
    BY <1>1, <2>1 DEF LogOf
  <2>4. LogOf(j, m) = LogOf(now, m)
    BY <2>2, <2>3
  <2>5. QED
    BY <1>2, <1>4, <2>3, <2>4 DEF OneSided
<1>5. QED
  BY <1>3, <1>4

LEMMA JoinedSound ==
    ASSUME NEW d, NEW new, NEW now, Sound(d), Sound(new), Sound(now), Advance(d, new),
           NEW others, Later(d, now, others), Written(d, new) \cap others = {},
           NEW j, Joined(d, new, now, j)
    PROVE  Sound(j)
<1>1. Shape(d) /\ Shape(new) /\ Shape(now)
  BY DEF Sound
<1>2. /\ j.day[1] = new.day[1] \/ j.day[1] = now.day[1]
      /\ \A m \in Matches : j.match[m] = new.match[m] \/ j.match[m] = now.match[m]
      /\ \A i \in DeviationIds :
            j.deviation[i] = new.deviation[i] \/ j.deviation[i] = now.deviation[i]
  BY DEF Joined, Chosen
<1>3. DayRow(j.day[1])
  BY <1>1, <1>2 DEF Shape
<1>4. \A m \in Matches : MatchRow(j.match[m])
  BY <1>1, <1>2 DEF Shape
<1>5. \A i \in DeviationIds : DeviationRow(j.deviation[i])
  BY <1>1, <1>2 DEF Shape
<1>6. /\ j = Tables(j.day, j.match, j.deviation, j.incident)
      /\ j.day = <<j.day[1]>>
      /\ j.match = [m \in Matches |-> j.match[m]]
      /\ j.deviation = [i \in DeviationIds |-> j.deviation[i]]
      /\ j.incident = [i \in IncidentIds |-> j.incident[i]]
  BY DEF Joined
<1>7. Shape(j)
  BY <1>3, <1>4, <1>5, <1>6 DEF Shape
<1>8. ASSUME NEW m \in Matches  PROVE Chain(j, m)
  <2>1. \A x : SameSlot(x, x)
    BY DEF SameSlot
  <2>2. Chain(new, m) /\ Chain(now, m)
    BY DEF Sound
  <2>3. CASE /\ j.match[m] = new.match[m] /\ LogOf(j, m) = LogOf(new, m)
             /\ \A i \in LogOf(new, m) : j.deviation[i] = new.deviation[i]
    <3>1. SameSlot(new.match[m], j.match[m])
      BY <2>1, <2>3
    <3>2. QED
      BY <2>2, <2>3, <3>1, ChainSame
  <2>4. CASE /\ j.match[m] = now.match[m] /\ LogOf(j, m) = LogOf(now, m)
             /\ \A i \in LogOf(now, m) : j.deviation[i] = now.deviation[i]
    <3>1. SameSlot(now.match[m], j.match[m])
      BY <2>1, <2>4
    <3>2. QED
      BY <2>2, <2>4, <3>1, ChainSame
  <2>5. OneSided(d, new, now, j, m)
    BY <1>1, JoinedOneSided
  <2>6. QED
    BY <2>3, <2>4, <2>5 DEF OneSided
<1>9. QED
  BY <1>7, <1>8 DEF Sound

(* Neither of the two closes a day, or touches one that is closed.           *)
LEMMA JoinedCalm ==
    ASSUME NEW d, NEW new, NEW now, Shape(d), ClosedOK(d), Calm(d, new), Calm(d, now),
           NEW j, Joined(d, new, now, j)
    PROVE  ClosedOK(j) /\ Day(j).how = Day(d).how
<1>1. /\ j.day[1] = new.day[1] \/ j.day[1] = now.day[1]
      /\ \A m \in Matches : j.match[m] = new.match[m] \/ j.match[m] = now.match[m]
      /\ \A i \in IncidentIds :
            j.incident[i] = new.incident[i] \/ j.incident[i] = now.incident[i]
  BY DEF Joined, Chosen
<1>2. Day(j).how = Day(d).how
  BY <1>1 DEF Calm, Day
<1>3. Waiting(j) \subseteq Waiting(d)
  <2>1. Linked(d) \subseteq Linked(new) /\ Linked(d) \subseteq Linked(now)
    BY DEF Calm
  <2>2. \A m \in Linked(d) : j.match[m].linked
    BY <1>1, <2>1 DEF Linked
  <2>3. QED
    BY <2>2 DEF Waiting, Linked
<1>4. CASE Day(d).state = "closed"
  <2>1. new.day = d.day /\ now.day = d.day /\ new.incident = d.incident /\ now.incident = d.incident
    BY <1>4 DEF Calm
  <2>2. Day(j).state = "closed"
    BY <1>1, <1>4, <2>1 DEF Day
  <2>3. Unresolved(j) = Unresolved(d)
    BY <1>1, <2>1 DEF Unresolved
  <2>4. QED
    BY <1>2, <1>3, <2>2, <2>3 DEF ClosedOK
<1>5. CASE Day(d).state # "closed"
  BY <1>2, <1>5 DEF ClosedOK
<1>6. QED
  BY <1>2, <1>4, <1>5

LEMMA CalmTwice ==
    ASSUME NEW d, NEW now, NEW e, Calm(d, now), Calm(now, e)
    PROVE  Calm(d, e)
  BY DEF Calm, Day

LEMMA LaterAtOnce ==
    ASSUME NEW d
    PROVE  Later(d, d, {})
  BY DEF Later, Calm

(* One more of the others commits. *)
LEMMA LaterStill ==
    ASSUME NEW d, NEW now, NEW e, Sound(now), Sound(e),
           NEW others, Later(d, now, others), Advance(now, e), ClosingsAlone => Calm(now, e)
    PROVE  Later(d, e, others \cup Written(now, e))
<1> DEFINE o == others \cup Written(now, e)
<1>1. Shape(now) /\ Shape(e)
  BY DEF Sound
<1>2. /\ <<"day", 1>> \notin o => e.day[1] = d.day[1]
      /\ \A m \in Matches : <<"match", m>> \notin o => e.match[m] = d.match[m]
      /\ \A i \in IncidentIds : <<"incident", i>> \notin o => e.incident[i] = d.incident[i]
      /\ \A i \in DeviationIds : <<"deviation", i>> \notin o => e.deviation[i] = d.deviation[i]
  BY <1>1, WrittenRows DEF Later
<1>3. /\ \A i \in DeviationIds : d.deviation[i] # NoRow => now.deviation[i] = d.deviation[i]
      /\ \A i \in DeviationIds : now.deviation[i] # NoRow => e.deviation[i] = now.deviation[i]
  BY DEF Later, Advance
<1>4. ASSUME NEW i \in DeviationIds, e.deviation[i] # d.deviation[i]
      PROVE  <<"match", e.deviation[i].match>> \in o
  <2>1. CASE e.deviation[i] = now.deviation[i]
    BY <1>4, <2>1 DEF Later
  <2>2. CASE e.deviation[i] # now.deviation[i]
    <3>1. e.deviation[i] # NoRow
      BY <1>3, <2>2
    <3>2. e.deviation[i].match \in Matches
      BY <1>1, <3>1 DEF Shape, DeviationRow
    <3>3. e.match[e.deviation[i].match] # now.match[e.deviation[i].match]
      BY <2>2 DEF Advance
    <3>4. QED
      BY <1>1, <3>2, <3>3, WrittenRows
  <2>3. QED
    BY <2>1, <2>2
<1>5. ClosingsAlone => Calm(d, e)
  BY CalmTwice DEF Later
<1> HIDE DEF o
<1>6. Later(d, e, o)
  BY <1>2, <1>3, <1>4, <1>5 DEF Later
<1>7. QED
  BY <1>6 DEF o

-----------------------------------------------------------------------------
(* The invariant, action by action. *)
DayInv == DayOK(db) /\ SlowOK

LEMMA InitDay == Init => DayInv
<1> SUFFICES ASSUME Init PROVE DayInv
  OBVIOUS
<1> DEFINE day == <<[state |-> "scheduled", how |-> "not closed"]>>
           match == [m \in Matches |-> IF m \in Placeholders THEN NoMatch ELSE PlannedMatch(m)]
           none(S) == [i \in S |-> NoRow]
<1>1. db = Tables(day, match, none(DeviationIds), none(IncidentIds)) /\ slow = NoTransaction
  BY DEF Init, Tables
<1>2. \A S : none(S) = [i \in S |-> none(S)[i]] /\ \A i \in S : none(S)[i] = NoRow
  OBVIOUS
<1>3. day = <<day[1]>> /\ DayRow(day[1]) /\ day[1].how = "not closed"
  BY DEF DayRow
<1>4. /\ match = [m \in Matches |-> match[m]]
      /\ \A m \in Matches : match[m] = NoMatch \/ match[m] = PlannedMatch(m)
  OBVIOUS
<1> HIDE DEF day, match, none
<1>5. /\ db.day = day /\ db.match = match
      /\ db.deviation = none(DeviationIds) /\ db.incident = none(IncidentIds)
      /\ db = Tables(db.day, db.match, db.deviation, db.incident)
  BY <1>1 DEF Tables
<1>6. \A m \in Matches : MatchRow(NoMatch) /\ MatchRow(PlannedMatch(m)) /\ ~NoMatch.linked
  BY DEF MatchRow, NoMatch, PlannedMatch
<1>7. Shape(db)
  <2>1. \A m \in Matches : MatchRow(db.match[m])
    BY <1>4, <1>5, <1>6
  <2>2. \A i \in DeviationIds : DeviationRow(db.deviation[i])
    BY <1>2, <1>5 DEF DeviationRow
  <2>3. /\ db.deviation = [i \in DeviationIds |-> db.deviation[i]]
        /\ db.incident = [i \in IncidentIds |-> db.incident[i]]
        /\ db.match = [m \in Matches |-> db.match[m]]
    BY <1>2, <1>4, <1>5
  <2>4. db.day = <<db.day[1]>> /\ DayRow(db.day[1])
    BY <1>3, <1>5
  <2>5. QED
    BY <1>5, <2>1, <2>2, <2>3, <2>4 DEF Shape
<1>8. ASSUME NEW m \in Matches  PROVE Chain(db, m)
  <2>1. LogOf(db, m) = {}
    BY <1>2, <1>5 DEF LogOf
  <2>2. CASE db.match[m] = NoMatch
    <3>1. IsFiniteSet(LogOf(db, m)) /\ HasLast(LogOf(db, m))
      BY <2>1, FS_EmptySet DEF HasLast
    <3>2. ~db.match[m].linked
      BY <1>6, <2>2
    <3>3. QED
      BY <2>1, <3>1, <3>2 DEF Chain
  <2>3. CASE db.match[m] = PlannedMatch(m)
    <3>1. PICK d : d = db
      OBVIOUS
    <3>2. Chain(d, m)
      BY <2>1, <2>3, <3>1, ChainStarts
    <3>3. QED
      BY <3>1, <3>2
  <2>4. QED
    BY <1>4, <1>5, <2>2, <2>3
<1>9. ClosedOK(db)
  BY <1>3, <1>5 DEF ClosedOK, Day
<1>10. SlowOK
  BY <1>1 DEF SlowOK, NoTransaction
<1>11. QED
  BY <1>7, <1>8, <1>9, <1>10 DEF DayInv, DayOK, Sound

LEMMA OutcomesAreGood ==
    ASSUME DayOK(db), NEW c \in Commands, NEW e \in Outcomes(c)
    PROVE  /\ DayOK(e) /\ Advance(db, e)
           /\ ClosingsAlone /\ c \in Overlapping => Calm(db, e)
<1>1. Keeps(db, e) /\ (c \notin Closings => Calm(db, e))
  BY OutcomesKeep DEF DayOK
<1>2. ClosingsAlone /\ c \in Overlapping => c \notin Closings
  BY DEF ClosingsAlone, Closings
<1>3. QED
  BY <1>1, <1>2 DEF Keeps, DayOK

(* A command that commits at once, alone or beside the slow transaction.     *)
LEMMA RunKeeps ==
    ASSUME DayInv, NEW c \in Commands, Run(c)
    PROVE  DayInv'
<1>1. PICK e \in Outcomes(c) :
        /\ db' = e
        /\ slow' = IF slow.running THEN [slow EXCEPT !.others = @ \cup Written(db, e)] ELSE slow
  BY DEF Run, Commit, CommitSettled
<1>2. DayOK(db) /\ SlowOK
  BY DEF DayInv
<1>3. /\ DayOK(e) /\ Advance(db, e)
      /\ slow.running => (ClosingsAlone => Calm(db, e))
  BY <1>2, OutcomesAreGood DEF Run
<1>4. SlowOK'
  <2>1. CASE ~slow.running
    BY <1>1, <2>1 DEF SlowOK
  <2>2. CASE slow.running
    <3>1. PICK d, new : Slowly(d, new)
      BY <1>2, <2>2 DEF SlowOK
    <3>2. /\ DayOK(d) /\ DayOK(new) /\ Advance(d, new) /\ (ClosingsAlone => Calm(d, new))
          /\ slow = [running |-> TRUE, others |-> slow.others, locked |-> {},
                     mine |-> Mine(d, new)]
          /\ Later(d, db, slow.others)
      BY <3>1 DEF Slowly
    <3>3. Later(d, e, slow.others \cup Written(db, e))
      BY <1>2, <1>3, <2>2, <3>2, LaterStill DEF DayOK
    <3>4. slow' = [running |-> TRUE, others |-> slow.others \cup Written(db, e), locked |-> {},
                   mine |-> Mine(d, new)]
      <4> DEFINE before == slow.others
                 after == before \cup Written(db, e)
                 mine == Mine(d, new)
      <4>1. slow = [running |-> TRUE, others |-> before, locked |-> {}, mine |-> mine]
        BY <3>2
      <4>2. slow' = [slow EXCEPT !.others = after]
        BY <1>1, <2>2
      <4> HIDE DEF before, after, mine
      <4>3. slow' = [running |-> TRUE, others |-> after, locked |-> {}, mine |-> mine]
        BY <4>1, <4>2
      <4>4. QED
        BY <4>3 DEF before, after, mine
    <3>5. slow'.others = slow.others \cup Written(db, e)
      BY <3>4
    <3>6. Later(d, e, slow'.others) /\ db' = e
      BY <1>1, <3>3, <3>5
    <3>7. Slowly(d, new)'
      BY <3>2, <3>4, <3>5, <3>6 DEF Slowly
    <3>8. QED
      BY <3>7 DEF SlowOK
  <2>3. QED
    BY <2>1, <2>2
<1>5. DayOK(db)'
  BY <1>1, <1>3
<1>6. QED
  BY <1>4, <1>5 DEF DayInv

LEMMA RunSlowlyKeeps ==
    ASSUME DayInv, NEW c \in Commands, RunSlowly(c)
    PROVE  DayInv'
<1>1. PICK new \in Outcomes(c) :
        slow' = [running |-> TRUE, others |-> {}, locked |-> {}, mine |-> Mine(db, new)]
  BY DEF RunSlowly, Begin, BeginLocking, Mine
<1>2. db' = db /\ c \in Overlapping
  BY DEF RunSlowly, Begin, BeginLocking
<1>3. DayOK(db)
  BY DEF DayInv
<1>4. DayOK(new) /\ Advance(db, new) /\ (ClosingsAlone => Calm(db, new))
  BY <1>2, <1>3, OutcomesAreGood
<1>5. Later(db, db, {}) /\ slow'.others = {}
  BY <1>1, LaterAtOnce
<1>6. PICK d : d = db
  OBVIOUS
<1>7. Slowly(d, new)'
  BY <1>1, <1>2, <1>3, <1>4, <1>5, <1>6 DEF Slowly
<1>8. SlowOK'
  BY <1>7 DEF SlowOK
<1>9. DayOK(db)'
  BY <1>2, <1>3, <1>6
<1>10. QED
  BY <1>8, <1>9 DEF DayInv

(* The slow transaction commits into what is there, or fails as a whole.     *)
LEMMA RunEndsKeeps ==
    ASSUME DayInv, RunEnds
    PROVE  DayInv' /\ (ClosingsAlone => Day(db').how = Day(db).how)
<1>1. /\ slow.running /\ slow' = NoTransaction
      /\ db' = IF Conflict THEN db ELSE Merged
  BY DEF RunEnds, End, EndSettled
<1>2. DayOK(db) /\ SlowOK
  BY DEF DayInv
<1>3. PICK d, new : Slowly(d, new)
  BY <1>1, <1>2 DEF SlowOK
<1>4. /\ DayOK(d) /\ DayOK(new) /\ Advance(d, new) /\ (ClosingsAlone => Calm(d, new))
      /\ slow.mine = Mine(d, new) /\ slow.locked = {} /\ Later(d, db, slow.others)
  BY <1>3 DEF Slowly
<1>5. PICK e, now : e = db' /\ now = db
  OBVIOUS
<1>6. DayOK(e) /\ (ClosingsAlone => Day(e).how = Day(now).how)
  <2>1. CASE Conflict
    BY <1>1, <1>2, <1>5, <2>1
  <2>2. CASE ~Conflict
    <3>1. e = Merged
      BY <1>1, <1>5, <2>2
    <3>2. Joined(d, new, db, Merged)
      BY <1>2, <1>4, MergedRows DEF DayOK, Sound
    <3>3. Joined(d, new, now, e)
      BY <1>5, <3>1, <3>2
    <3>4. Written(d, new) \cap slow.others = {}
      BY <1>4, <2>2 DEF Conflict, Mine
    <3>5. Sound(e)
      BY <1>2, <1>4, <1>5, <3>3, <3>4, JoinedSound DEF DayOK
    <3>6. ASSUME ClosingsAlone PROVE ClosedOK(e) /\ Day(e).how = Day(now).how
      <4>1. Calm(d, new) /\ Calm(d, now) /\ ClosedOK(d) /\ Shape(d)
        BY <1>4, <1>5, <3>6 DEF Later, DayOK, Sound
      <4>2. ClosedOK(e) /\ Day(e).how = Day(d).how
        BY <3>3, <4>1, JoinedCalm
      <4>3. QED
        BY <4>1, <4>2 DEF Calm
    <3>7. QED
      BY <3>5, <3>6 DEF DayOK
  <2>3. QED
    BY <2>1, <2>2
<1>7. SlowOK'
  BY <1>1 DEF SlowOK, NoTransaction
<1>8. DayOK(db)'
  BY <1>5, <1>6
<1>9. QED
  BY <1>5, <1>6, <1>7, <1>8 DEF DayInv

LEMMA StutterKeeps ==
    ASSUME DayInv, db' = db, slow' = slow
    PROVE  DayInv'
<1>1. DayOK(db)'
  <2>1. PICK d : d = db
    OBVIOUS
  <2>2. QED
    BY <2>1 DEF DayInv
<1>2. SlowOK'
  <2>1. CASE slow.running
    <3>1. PICK d, new : Slowly(d, new)
      BY <2>1 DEF DayInv, SlowOK
    <3>2. Slowly(d, new)'
      BY <3>1 DEF Slowly
    <3>3. QED
      BY <3>2 DEF SlowOK
  <2>2. CASE ~slow.running
    BY <2>2 DEF SlowOK
  <2>3. QED
    BY <2>1, <2>2
<1>3. QED
  BY <1>1, <1>2 DEF DayInv

LEMMA DayAlways == Spec => []DayInv
<1>1. DayInv /\ [Next]_vars => DayInv'
  <2> SUFFICES ASSUME DayInv, [Next]_vars PROVE DayInv'
    OBVIOUS
  <2>1. CASE UNCHANGED vars
    BY <2>1, StutterKeeps DEF vars
  <2>2. CASE \E c \in Commands : Run(c)
    BY <2>2, RunKeeps
  <2>3. CASE \E c \in Commands : RunSlowly(c)
    BY <2>3, RunSlowlyKeeps
  <2>4. CASE RunEnds
    BY <2>4, RunEndsKeeps
  <2>5. CASE DateComes
    BY <2>5, StutterKeeps DEF DateComes
  <2>6. QED
    BY <2>1, <2>2, <2>3, <2>4, <2>5 DEF Next
<1>2. QED
  BY InitDay, <1>1, PTL DEF Spec

-----------------------------------------------------------------------------
(* Whoever recorded them, and however many at the same time: the changes of a *)
(* match lead from its published slot to the slot and time that it has.      *)
THEOREM DeviationsAlwaysExplain == Spec => []DeviationsExplainSlots
<1>1. DayInv => DeviationsExplainSlots
  <2> SUFFICES ASSUME DayInv, NEW m \in Linked(db)
               PROVE  LET SlotNow(log) ==
                              IF log = {} THEN Plan[m] ELSE LeftIn(db.deviation[Max(log)])
                          match == db.match[m] IN
                      /\ \A i \in Log(m) :
                            LET before == SlotNow({j \in Log(m) : j < i}) IN
                            db.deviation[i].old = IF before = NoSlot THEN Plan[m] ELSE before
                      /\ match.slot = SlotNow(Log(m))
                      /\ match.date = IF match.slot = NoSlot THEN NoDate
                                      ELSE [slot |-> match.slot,
                                            late |-> Cardinality(Delays(m))]
    BY DEF DeviationsExplainSlots
  <2>1. Chain(db, m) /\ db.match[m].linked
    BY DEF DayInv, DayOK, Sound, Linked
  <2>2. Log(m) = LogOf(db, m) /\ Delays(m) = DelaysOf(db, m)
    BY DEF Log, LogOf, Delays, DelaysOf
  <2>3. \A i : {j \in Log(m) : j < i} = Earlier(db, m, i)
    BY <2>2 DEF Earlier
  <2>4. \A i \in Log(m) :
           LET before == SlotAfter(db, m, {j \in Log(m) : j < i}) IN
           db.deviation[i].old = IF before = NoSlot THEN Plan[m] ELSE before
    BY <2>1, <2>2, <2>3 DEF Chain, Shown
  <2>5. /\ db.match[m].slot = SlotAfter(db, m, Log(m))
        /\ db.match[m].date = IF db.match[m].slot = NoSlot THEN NoDate
                              ELSE [slot |-> db.match[m].slot, late |-> Cardinality(Delays(m))]
    BY <2>1, <2>2 DEF Chain
  <2>6. QED
    BY <2>4, <2>5 DEF SlotAfter
<1>2. QED
  BY DayAlways, <1>1, PTL

(* As long as nothing that closes a day overlaps with anything, no incident is *)
(* left unresolved on a day closed without force, and no fixture without its  *)
(* match.                                                                   *)
THEOREM NothingStaysBehind ==
    ASSUME ClosingsAlone
    PROVE  Spec => []NothingLeftBehind
<1>1. DayInv => NothingLeftBehind
  BY DEF DayInv, DayOK, ClosedOK, NothingLeftBehind
<1>2. QED
  BY DayAlways, <1>1, PTL

(* As long as nothing that closes a day overlaps with anything, a day that     *)
(* closes by itself has every match, each called off or with its result.     *)
THEOREM AlwaysClosesOnResults ==
    ASSUME ClosingsAlone
    PROVE  Spec => ClosesOnOfficialResults
<1> DEFINE Closes == Day(db').how = "automatic" /\ Day(db).how # "automatic"
           Results == \A m \in Matches : /\ db'.match[m].linked
                                         /\ \/ db'.match[m].state = "cancelled"
                                            \/ /\ db'.match[m].state = "done"
                                               /\ db'.match[m].official
<1>1. DayInv /\ [Next]_vars => [Closes => Results]_vars
  <2> SUFFICES ASSUME DayInv, Next, Closes PROVE Results
    BY DEF vars
  <2>1. CASE \E c \in Commands : Run(c)
    <3>1. PICK c \in Commands : Run(c)
      BY <2>1
    <3>2. PICK e \in Outcomes(c) : db' = e
      BY <3>1 DEF Run, Commit, CommitSettled
    <3>3. Keeps(db, e)
      BY OutcomesKeep DEF DayInv, DayOK
    <3>4. AllOfficial(e)
      BY <3>2, <3>3 DEF Keeps
    <3>5. QED
      BY <3>2, <3>4 DEF AllOfficial, Official
  <2>2. CASE \E c \in Commands : RunSlowly(c)
    BY <2>2 DEF RunSlowly, Begin, BeginLocking
  <2>3. CASE RunEnds
    BY <2>3, RunEndsKeeps
  <2>4. CASE DateComes
    BY <2>4 DEF DateComes
  <2>5. QED
    BY <2>1, <2>2, <2>3, <2>4 DEF Next
<1>2. [][Closes => Results]_vars => ClosesOnOfficialResults
  BY DEF ClosesOnOfficialResults
<1>3. Spec => []DayInv
  BY DayAlways
<1> HIDE DEF Closes, Results
<1>4. QED
  BY <1>1, <1>2, <1>3, PTL DEF Spec
=============================================================================
