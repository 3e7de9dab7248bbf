---------------------- MODULE SchedulePublicationProofs ----------------------
(***************************************************************************)
(* The plan of a match day, for any number of fixtures, slots and people,  *)
(* every set of policies and every choice of commands that overlap.        *)
(*                                                                         *)
(* A database keeps PlanOK: publications refer to approved reviews with    *)
(* the same facts, to schedules that are fixed, and the match day shows    *)
(* the live one.  What commands do is split in two: Planning leaves the    *)
(* match day and its publications alone and lets schedules and reviews     *)
(* only go on (Grown), and then PlanOK needs no second look; Publish, the  *)
(* sessions and results are looked at one by one.                          *)
(*                                                                         *)
(* Two overlapping transactions are joined row by row.  Whoever changes    *)
(* the publications changes the row of the match day (Advance), so of two  *)
(* that do, one fails; what the other one did to schedules and reviews is  *)
(* Planning beside it.                                                     *)
(***************************************************************************)
EXTENDS SchedulePublication, FiniteSetTheorems, WellFoundedInduction, TLAPS

(* What a database of the plan looks like; a map is whatever function.       *)
KeptRow(x) == x.state \notin {"none", "deleted"}
ScheduleRow(x) ==
    KeptRow(x) =>
        /\ x = [state |-> x.state, revision |-> x.revision, map |-> x.map,
                replacedBy |-> x.replacedBy]
        /\ x.revision \in Nat
ReviewRow(x) ==
    KeptRow(x) =>
        /\ x = [state |-> x.state, schedule |-> x.schedule, revision |-> x.revision,
                snapshot |-> x.snapshot, by |-> x.by, reviewer |-> x.reviewer]
        /\ x.schedule \in ScheduleIds
PublicationRow(x) ==
    KeptRow(x) =>
        /\ x = [state |-> x.state, schedule |-> x.schedule, review |-> x.review,
                snapshot |-> x.snapshot, version |-> x.version]
        /\ x.schedule \in ScheduleIds /\ x.review \in ReviewIds /\ x.version \in Nat
DayRow(x) == x = [state |-> x.state, current |-> x.current, session |-> x.session]
MatchRow(x) ==
    x = [teams |-> x.teams, exists |-> x.exists, publication |-> x.publication, slot |-> x.slot]

Tables(day, plan, slot, schedule, review, publication, match) ==
    [day |-> day, plan |-> plan, slot |-> slot, schedule |-> schedule, review |-> review,
     publication |-> publication, match |-> match]

Shape(d) ==
    /\ d = Tables(d.day, d.plan, d.slot, d.schedule, d.review, d.publication, d.match)
    /\ d.day = <<d.day[1]>>
    /\ d.plan = [f \in Fixtures |-> d.plan[f]]
    /\ d.slot = [s \in Slots |-> d.slot[s]]
    /\ d.schedule = [s \in ScheduleIds |-> d.schedule[s]]
    /\ d.review = [r \in ReviewIds |-> d.review[r]]
    /\ d.publication = [p \in PublicationIds |-> d.publication[p]]
    /\ d.match = [f \in Fixtures |-> d.match[f]]
    /\ DayRow(d.day[1])
    /\ \A s \in ScheduleIds : ScheduleRow(d.schedule[s])
    /\ \A r \in ReviewIds : ReviewRow(d.review[r])
    /\ \A p \in PublicationIds : PublicationRow(d.publication[p])
    /\ \A f \in Fixtures : MatchRow(d.match[f])

Fixed == {"published", "superseded"}

Signed(x) == x.state = "approved" => x.reviewer # x.by \/ policy.self
Reviewed(d) ==
    /\ \A r \in ReviewIds : Signed(d.review[r])
    /\ \A p \in PublicationIds : KeptRow(d.publication[p]) =>
          LET pub == d.publication[p]
              rev == d.review[pub.review] IN
          /\ rev.state = "approved" /\ rev.schedule = pub.schedule
          /\ pub.snapshot.facts = rev.snapshot.facts

DayShows(day, pubs) ==
    /\ \A p \in PublicationIds : pubs[p].state = "live" => day.current = p
    /\ \A p, q \in PublicationIds : KeptRow(pubs[p]) /\ KeptRow(pubs[q]) =>
          /\ p # q => pubs[p].version # pubs[q].version
          /\ pubs[p].state = "live" => pubs[q].version <= pubs[p].version
    /\ day.session # NoPublication =>
          /\ day.state = "open"
          /\ day.session \in PublicationIds /\ pubs[day.session].state = "live"
    /\ day.current # NoPublication =>
          day.current \in PublicationIds /\ pubs[day.current] # NoRow
    /\ day.state = "deleted" => \A p \in PublicationIds : ~KeptRow(pubs[p])

Pairs(map) == {<<f, map[f]>> : f \in Assigned(map)}
FactsOf(d, map) == {<<f, map[f], d.slot[map[f]]>> : f \in Assigned(map)}
PlansKept(d) ==
    \A p \in PublicationIds : KeptRow(d.publication[p]) =>
        LET pub == d.publication[p]
            plan == d.schedule[pub.schedule] IN
        /\ plan.state \in Fixed
        /\ Pairs(plan.map) = {<<x[1], x[2]>> : x \in pub.snapshot.facts}

Follow(d) ==
    \A p \in PublicationIds, f \in Fixtures :
        LET slot == d.schedule[d.publication[p].schedule].map[f] IN
        d.publication[p].state = "live" /\ d.match[f].exists /\ slot # NoSlot
            => d.match[f].publication = p /\ d.match[f].slot = slot

PlanOK(d) ==
    /\ Shape(d) /\ Reviewed(d) /\ PlansKept(d)
    /\ DayShows(d.day[1], d.publication)
    /\ "result" \notin Overlapping => Follow(d)

(* What only grows, as long as nothing is deleted. *)
Continues(old, new) ==
    /\ old.state \in Fixed => new.state \in Fixed /\ new.map = old.map
    /\ KeptRow(old) => /\ KeptRow(new) /\ old.revision <= new.revision
                       /\ (old.revision = new.revision) => new.map = old.map
Grown(d, e) ==
    /\ \A r \in ReviewIds : d.review[r].state = "approved" => e.review[r] = d.review[r]
    /\ \A s \in ScheduleIds : Continues(d.schedule[s], e.schedule[s])
Advance(d, e) ==
    /\ Grown(d, e)
    /\ e.day[1] = d.day[1] => /\ e.publication = d.publication
                              /\ "result" \notin Overlapping => e.match = d.match

NextVersion(d) ==
    1 + Max({0} \cup {d.publication[q].version : q \in Kept(d, "publication")})

(* What a publication of a schedule leaves behind, table by table. *)
PublishedAs(d, e, s, r, p) ==
    LET map == d.schedule[s].map IN
    /\ e = Tables(e.day, d.plan, d.slot, e.schedule, d.review, e.publication, e.match)
    /\ e.day = <<[Day(d) EXCEPT !.state = "scheduled", !.current = p]>>
    /\ e.schedule = [d.schedule EXCEPT ![s] = [d.schedule[s] EXCEPT !.state = "published"]]
    /\ \E v : /\ v.facts = FactsOf(d, map)
              /\ v.facts = Snapshot(WithMatches(d, s), s).facts
              /\ e.publication = [Superseded(d) EXCEPT ![p] =
                   [state |-> "live", schedule |-> s, review |-> r, snapshot |-> v,
                    version |-> NextVersion(d)]]
    /\ e.match = [f \in Fixtures |-> e.match[f]]
    /\ \A f \in Fixtures :
          /\ MatchRow(e.match[f])
          /\ e.match[f].exists /\ f \in Assigned(map)
                => e.match[f].publication = p /\ e.match[f].slot = map[f]

(* A step of planning or review. *)
Planning(d, e) ==
    /\ Shape(e) /\ Grown(d, e)
    /\ e.day = d.day /\ e.publication = d.publication
    /\ "result" \notin Overlapping => e.match = d.match
    /\ \A r \in ReviewIds : Signed(d.review[r]) => Signed(e.review[r])

PageOK ==
    page.open =>
        /\ page.schedule \in ScheduleIds /\ KeptRow(db.schedule[page.schedule])
        /\ page.revision \in Nat /\ page.revision <= db.schedule[page.schedule].revision
        /\ page.revision = db.schedule[page.schedule].revision =>
              page.map = db.schedule[page.schedule].map

-----------------------------------------------------------------------------
(* A finite set of numbers has a greatest one. *)
LEMMA LeastNumber ==
    ASSUME NEW T, T \subseteq Nat, T # {}
    PROVE  \E x \in T : \A y \in T : x <= y
<1>1. PICK x \in T : \A y \in T : ~(<<y, x>> \in OpToRel(<, Nat))
  BY Zenon, NatLessThanWellFounded, WFMin
<1>2. \A y \in T : ~(y < x)
  BY <1>1 DEF OpToRel
<1>3. QED
  BY <1>2

LEMMA Bounded ==
    ASSUME NEW S, IsFiniteSet(S), S \subseteq Nat
    PROVE  \E b \in Nat : \A y \in S : y <= b
<1>1. PICK n \in Nat : ExistsBijection(1..n, S)
  BY FS_NatBijection
<1>2. PICK f \in Bijection(1..n, S) : TRUE
  BY <1>1 DEF ExistsBijection
<1>3. \A i \in 1..n : f[i] \in Nat
  BY <1>2 DEF Bijection, Injection, IsInjective
<1>4. \A y \in S : \E i \in 1..n : f[i] = y
  BY <1>2 DEF Bijection, Surjection
<1> DEFINE C == {k \in 0..n : \A b \in Nat : \E i \in 1..k : ~(f[i] <= b)}
<1>5. C = {}
  <2> SUFFICES ASSUME C # {} PROVE FALSE
    OBVIOUS
  <2>1. PICK k \in C : \A y \in C : k <= y
    <3>1. C \subseteq Nat
      OBVIOUS
    <3> HIDE DEF C
    <3>2. QED
      BY <3>1, LeastNumber
  <2>2. k > 0
    BY <2>1
  <2>3. k - 1 \notin C /\ k - 1 \in 0..n
    <3>1. k \in 0..n
      BY <2>1
    <3> HIDE DEF C
    <3>2. QED
      BY <2>1, <2>2, <3>1
  <2>4. PICK b \in Nat : \A i \in 1..(k - 1) : f[i] <= b
    BY <2>3
  <2>5. PICK c \in Nat : b <= c /\ f[k] <= c
    <3>1. f[k] \in Nat
      BY <1>3, <2>1, <2>2
    <3>2. \A x, y \in Nat : \E c \in {x, y} : x <= c /\ y <= c
      OBVIOUS
    <3> HIDE DEF C
    <3>3. QED
      BY <3>1, <3>2
  <2>6. \A i \in 1..k : f[i] <= c
    <3>1. k \in Nat /\ k <= n
      BY <2>1
    <3> HIDE DEF C
    <3>2. ASSUME NEW i \in 1..k
          PROVE  f[i] <= c
      <4>1. CASE i = k
        BY <2>5, <4>1
      <4>2. CASE i # k
        <5>1. i \in 1..(k - 1) /\ i \in 1..n
          BY <2>2, <3>1, <4>2
        <5>2. QED
          BY <1>3, <2>4, <2>5, <5>1
      <4>3. QED
        BY <4>1, <4>2
    <3>3. QED
      BY <3>2
  <2>7. QED
    BY <2>1, <2>6
<1>6. n \in 0..n
  OBVIOUS
<1>7. PICK b \in Nat : \A i \in 1..n : f[i] <= b
  BY <1>5, <1>6
<1>8. QED
  BY <1>4, <1>7

LEMMA Greatest ==
    ASSUME NEW S, IsFiniteSet(S), S \subseteq Nat, S # {}
    PROVE  Max(S) \in S /\ \A y \in S : y <= Max(S)
<1> DEFINE T == {b \in Nat : \A y \in S : y <= b}
<1>1. PICK b \in T : \A c \in T : b <= c
  <2>1. T # {} /\ T \subseteq Nat
    BY Bounded
  <2> HIDE DEF T
  <2>2. QED
    BY <2>1, LeastNumber
<1>2. b \in S
  <2>1. SUFFICES ASSUME b \notin S PROVE FALSE
    OBVIOUS
  <2>2. \A y \in S : y <= b - 1 /\ b - 1 \in Nat
    BY <1>1, <2>1
  <2>3. b - 1 \in T
    BY <2>2
  <2>4. QED
    BY <1>1, <2>3
<1>3. \A y \in S : b >= y
  BY <1>1
<1>4. PICK m \in S : m = Max(S) /\ \A y \in S : m >= y
  <2>1. \E x \in S : \A y \in S : x >= y
    BY <1>2, <1>3
  <2>2. QED
    BY <2>1 DEF Max
<1>5. QED
  BY <1>4

-----------------------------------------------------------------------------
(* What a row refers to. *)
LEMMA PublicationRefers ==
    ASSUME NEW d, Shape(d), NEW p \in PublicationIds, KeptRow(d.publication[p])
    PROVE  /\ d.publication[p].schedule \in ScheduleIds
           /\ d.publication[p].review \in ReviewIds
           /\ d.publication[p].version \in Nat
<1>1. PublicationRow(d.publication[p])
  BY DEF Shape
<1>2. QED
  BY <1>1 DEF PublicationRow, KeptRow

LEMMA PlanningKeeps ==
    ASSUME NEW d, PlanOK(d), NEW e, Planning(d, e)
    PROVE  PlanOK(e) /\ Advance(d, e)
<1>1. /\ Shape(d) /\ Reviewed(d) /\ PlansKept(d) /\ Shape(e)
      /\ e.publication = d.publication /\ e.day = d.day
      /\ "result" \notin Overlapping => e.match = d.match
      /\ DayShows(d.day[1], d.publication)
      /\ "result" \notin Overlapping => Follow(d)
      /\ \A r \in ReviewIds : d.review[r].state = "approved" => e.review[r] = d.review[r]
      /\ \A r \in ReviewIds : Signed(d.review[r]) => Signed(e.review[r])
      /\ \A s \in ScheduleIds : d.schedule[s].state \in Fixed =>
                e.schedule[s].state \in Fixed /\ e.schedule[s].map = d.schedule[s].map
  BY DEF PlanOK, Planning, Grown, Continues
<1>2. ASSUME NEW p \in PublicationIds, KeptRow(d.publication[p])
      PROVE  /\ d.publication[p].schedule \in ScheduleIds
             /\ d.publication[p].review \in ReviewIds
  BY <1>1, <1>2, PublicationRefers
<1>3. Reviewed(e)
  BY <1>1, <1>2 DEF Reviewed
<1>4. PlansKept(e)
  BY <1>1, <1>2 DEF PlansKept
<1>5. "result" \notin Overlapping => Follow(e)
  <2>1. ASSUME NEW p \in PublicationIds, d.publication[p].state = "live"
        PROVE  /\ d.publication[p].schedule \in ScheduleIds
               /\ e.schedule[d.publication[p].schedule].map
                    = d.schedule[d.publication[p].schedule].map
    BY <1>1, <1>2, <2>1 DEF PlansKept, KeptRow
  <2>2. SUFFICES ASSUME "result" \notin Overlapping PROVE Follow(e)
    OBVIOUS
  <2>3. Follow(d) /\ e.match = d.match /\ e.publication = d.publication
    BY <1>1, <2>2
  <2>4. QED
    BY <2>1, <2>3 DEF Follow
<1>6. QED
  BY <1>1, <1>3, <1>4, <1>5 DEF PlanOK, Planning, Advance

LEMMA NewIds ==
    ASSUME NEW d, NEW t, NEW i \in NewId(d, t), DOMAIN d[t] \subseteq Nat
    PROVE  i \in DOMAIN d[t] /\ d[t][i] = NoRow
<1> DEFINE taken == {j \in DOMAIN d[t] :
                     d[t][j] # NoRow \/ (slow.running /\ <<t, j>> \in DOMAIN slow.mine)}
<1>1. i \in DOMAIN d[t] /\ (\A j \in taken : i > j)
  BY DEF NewId
<1>2. i \notin taken
  <2>1. i \in Nat
    BY <1>1
  <2>2. QED
    BY <1>1, <2>1
<1>3. QED
  BY <1>1, <1>2

LEMMA StaysSo ==
    ASSUME NEW x, ScheduleRow(x)
    PROVE  Continues(x, x)
  BY DEF ScheduleRow, Continues, KeptRow

(* Changed tables of the planners and reviewers. *)
LEMMA Replanned ==
    ASSUME NEW d, Shape(d), NEW plan, NEW slot, NEW schedule, NEW review,
           plan = [f \in Fixtures |-> plan[f]], slot = [s \in Slots |-> slot[s]],
           schedule = [s \in ScheduleIds |-> schedule[s]],
           \A s \in ScheduleIds :
              ScheduleRow(schedule[s]) /\ Continues(d.schedule[s], schedule[s]),
           review = [r \in ReviewIds |-> review[r]],
           \A r \in ReviewIds :
              /\ ReviewRow(review[r])
              /\ \/ review[r] = d.review[r]
                 \/ d.review[r].state # "approved" /\ Signed(review[r])
    PROVE  Planning(d, Tables(d.day, plan, slot, schedule, review, d.publication, d.match))
<1> DEFINE e == Tables(d.day, plan, slot, schedule, review, d.publication, d.match)
<1>1. /\ e.day = d.day /\ e.publication = d.publication /\ e.match = d.match
      /\ e.review = review /\ e.schedule = schedule /\ e.plan = plan /\ e.slot = slot
      /\ e = Tables(e.day, e.plan, e.slot, e.schedule, e.review, e.publication, e.match)
  BY DEF Tables
<1> HIDE DEF e
<1>2. Shape(e)
  BY <1>1 DEF Shape
<1>3. Grown(d, e)
  BY <1>1 DEF Grown
<1>4. QED
  BY <1>1, <1>2, <1>3 DEF Planning, e

LEMMA OneSchedule ==
    ASSUME NEW d, Shape(d), NEW s \in ScheduleIds, NEW x, ScheduleRow(x),
           Continues(d.schedule[s], x)
    PROVE  LET y == [d.schedule EXCEPT ![s] = x] IN
           /\ y = [i \in ScheduleIds |-> y[i]]
           /\ \A i \in ScheduleIds : ScheduleRow(y[i]) /\ Continues(d.schedule[i], y[i])
<1> DEFINE y == [d.schedule EXCEPT ![s] = x]
<1>1. /\ y = [i \in ScheduleIds |-> y[i]] /\ y[s] = x
      /\ \A i \in ScheduleIds \ {s} : y[i] = d.schedule[i]
  BY DEF Shape
<1>2. \A i \in ScheduleIds : ScheduleRow(d.schedule[i])
  BY DEF Shape
<1> HIDE DEF y
<1>3. QED
  BY <1>1, <1>2, StaysSo DEF y

LEMMA OneReview ==
    ASSUME NEW d, Shape(d), NEW r \in ReviewIds, NEW x, ReviewRow(x),
           d.review[r].state # "approved" /\ Signed(x)
    PROVE  LET y == [d.review EXCEPT ![r] = x] IN
           /\ y = [i \in ReviewIds |-> y[i]]
           /\ \A i \in ReviewIds :
              /\ ReviewRow(y[i])
              /\ \/ y[i] = d.review[i]
                 \/ d.review[i].state # "approved" /\ Signed(y[i])
<1> DEFINE y == [d.review EXCEPT ![r] = x]
<1>1. /\ y = [i \in ReviewIds |-> y[i]] /\ y[r] = x
      /\ \A i \in ReviewIds \ {r} : y[i] = d.review[i]
  BY DEF Shape
<1>2. \A i \in ReviewIds : ReviewRow(d.review[i])
  BY DEF Shape
<1> HIDE DEF y
<1>3. QED
  BY <1>1, <1>2 DEF y

(* Nothing but one schedule changes. *)
LEMMA ScheduleReplanned ==
    ASSUME NEW d, Shape(d), NEW s \in ScheduleIds, NEW x, ScheduleRow(x),
           Continues(d.schedule[s], x), NEW plan, plan = [f \in Fixtures |-> plan[f]]
    PROVE  Planning(d, Tables(d.day, plan, d.slot, [d.schedule EXCEPT ![s] = x], d.review,
                              d.publication, d.match))
<1> DEFINE y == [d.schedule EXCEPT ![s] = x]
<1>1. /\ y = [i \in ScheduleIds |-> y[i]]
      /\ \A i \in ScheduleIds : ScheduleRow(y[i]) /\ Continues(d.schedule[i], y[i])
  BY OneSchedule
<1>2. /\ d.slot = [i \in Slots |-> d.slot[i]] /\ d.review = [r \in ReviewIds |-> d.review[r]]
      /\ \A r \in ReviewIds : ReviewRow(d.review[r])
  BY DEF Shape
<1> HIDE DEF y
<1>3. Planning(d, Tables(d.day, plan, d.slot, y, d.review, d.publication, d.match))
  BY <1>1, <1>2, Replanned
<1>4. QED
  BY <1>3 DEF y

LEMMA CreatePlans ==
    ASSUME NEW d, Shape(d), NEW e \in CreateSchedule(d)
    PROVE  Planning(d, e)
<1> DEFINE x == [state |-> "draft", revision |-> 0, map |-> [f \in Fixtures |-> NoSlot],
          replacedBy |-> 0]
<1>1. PICK s \in NewId(d, "schedule") : e = [d EXCEPT !.schedule[s] = x]
  BY DEF CreateSchedule
<1>2. DOMAIN d.schedule = ScheduleIds /\ ScheduleIds \subseteq Nat
  BY PlanAssumption DEF Shape
<1>3. s \in ScheduleIds /\ d.schedule[s] = NoRow
  BY <1>2, NewIds
<1>4. ScheduleRow(x) /\ Continues(d.schedule[s], x)
  BY <1>3 DEF ScheduleRow, Continues, NoRow, Fixed, KeptRow
<1> HIDE DEF x
<1>5. e = Tables(d.day, d.plan, d.slot, [d.schedule EXCEPT ![s] = x], d.review,
                 d.publication, d.match)
  BY <1>1 DEF Shape, Tables
<1>6. d.plan = [f \in Fixtures |-> d.plan[f]]
  BY DEF Shape
<1>7. QED
  BY <1>3, <1>4, <1>5, <1>6, ScheduleReplanned

(* An edit of an editable schedule is its next revision. *)
LEMMA EditedRow ==
    ASSUME NEW d, Shape(d), NEW s \in ScheduleIds, Mutable(d, s), NEW map
    PROVE  LET x == [d.schedule[s] EXCEPT !.map = map, !.revision = d.schedule[s].revision + 1]
           IN /\ ScheduleRow(x) /\ Continues(d.schedule[s], x)
              /\ Edited(d, s, map) = Tables(d.day, d.plan, d.slot, [d.schedule EXCEPT ![s] = x],
                                            d.review, d.publication, d.match)
<1> DEFINE old == d.schedule[s]
           x == [old EXCEPT !.map = map, !.revision = old.revision + 1]
<1>1. /\ old = [state |-> old.state, revision |-> old.revision, map |-> old.map,
                  replacedBy |-> old.replacedBy]
      /\ old.revision \in Nat /\ old.state \in MutableStates
  BY DEF Shape, ScheduleRow, Mutable, MutableStates, KeptRow
<1>2. x = [state |-> old.state, revision |-> old.revision + 1, map |-> map,
           replacedBy |-> old.replacedBy]
  <2> DEFINE y == [old EXCEPT !.map = map]
             n == old.revision + 1
  <2>1. y = [state |-> old.state, revision |-> old.revision, map |-> map,
             replacedBy |-> old.replacedBy]
    BY <1>1
  <2>2. x = [y EXCEPT !.revision = n]
    OBVIOUS
  <2> HIDE DEF y, n, x
  <2>3. x = [state |-> old.state, revision |-> n, map |-> map, replacedBy |-> old.replacedBy]
    BY <2>1, <2>2
  <2>4. QED
    BY <2>3 DEF n
<1>3. ScheduleRow(x) /\ Continues(old, x)
  <2> HIDE DEF x
  <2>1. QED
    BY <1>1, <1>2 DEF ScheduleRow, Continues, Fixed, KeptRow, MutableStates
<1>4. Edited(d, s, map) = [d EXCEPT !.schedule = [d.schedule EXCEPT ![s] = x]]
  <2> DEFINE y == [old EXCEPT !.map = map]
             n == old.revision + 1
  <2>1. /\ DOMAIN d = {"day", "plan", "slot", "schedule", "review", "publication", "match"}
        /\ DOMAIN d.schedule = ScheduleIds
    BY DEF Shape, Tables
  <2>2. [d EXCEPT !.schedule[s].map = map] = [d EXCEPT !.schedule = [d.schedule EXCEPT ![s] = y]]
    OBVIOUS
  <2>3. x = [y EXCEPT !.revision = n]
    OBVIOUS
  <2> HIDE DEF y, n, x
  <2>4. [[d EXCEPT !.schedule = [d.schedule EXCEPT ![s] = y]] EXCEPT !.schedule[s].revision = n]
          = [d EXCEPT !.schedule = [d.schedule EXCEPT ![s] = x]]
    BY <2>1, <2>3
  <2>5. QED
    BY <2>2, <2>4 DEF Edited, NextRevision, n
<1> HIDE DEF x
<1>5. QED
  BY <1>3, <1>4 DEF Shape, Tables, x

LEMMA EditPlans ==
    ASSUME NEW d, Shape(d), NEW s \in ScheduleIds, Mutable(d, s), NEW map
    PROVE  Planning(d, Edited(d, s, map))
<1> DEFINE x == [d.schedule[s] EXCEPT !.map = map, !.revision = d.schedule[s].revision + 1]
<1>1. d.plan = [f \in Fixtures |-> d.plan[f]]
  BY DEF Shape
<1>2. ScheduleRow(x) /\ Continues(d.schedule[s], x)
      /\ Edited(d, s, map) = Tables(d.day, d.plan, d.slot, [d.schedule EXCEPT ![s] = x],
                                    d.review, d.publication, d.match)
  BY Zenon, EditedRow
<1> HIDE DEF x
<1>3. QED
  BY <1>1, <1>2, ScheduleReplanned

LEMMA BoardPlans ==
    ASSUME NEW d, Shape(d), NEW s \in ScheduleIds, Mutable(d, s), NEW map, NEW f, NEW on
    PROVE  Planning(d, [Edited(d, s, map) EXCEPT !.plan[f] = on])
<1> DEFINE x == [d.schedule[s] EXCEPT !.map = map, !.revision = d.schedule[s].revision + 1]
           p == [d.plan EXCEPT ![f] = on]
<1>1. p = [i \in Fixtures |-> p[i]]
  BY DEF Shape
<1>2. ScheduleRow(x) /\ Continues(d.schedule[s], x)
      /\ Edited(d, s, map) = Tables(d.day, d.plan, d.slot, [d.schedule EXCEPT ![s] = x],
                                    d.review, d.publication, d.match)
  BY Zenon, EditedRow
<1> HIDE DEF x
<1>3. [Edited(d, s, map) EXCEPT !.plan[f] = on]
        = Tables(d.day, p, d.slot, [d.schedule EXCEPT ![s] = x], d.review, d.publication, d.match)
  BY <1>2 DEF Tables
<1> HIDE DEF p
<1>4. QED
  BY <1>1, <1>2, <1>3, ScheduleReplanned

LEMMA EditsPlan ==
    ASSUME NEW d, Shape(d),
           NEW e \in AssignFixture(d) \cup UnassignFixture(d) \cup AutoSchedule(d) \cup BoardMove(d)
    PROVE  Planning(d, e)
<1>1. DOMAIN d.schedule = ScheduleIds
  BY DEF Shape
<1>2. \A s \in Resolved(d) : s \in ScheduleIds /\ Mutable(d, s)
  BY DEF Resolved
<1>3. \A s \in Active(d) : s \in ScheduleIds
  BY <1>1 DEF Active, Kept
<1>4. CASE e \in AssignFixture(d)
  <2>1. \E x \in Resolved(d) \X Fixtures \X Slots :
           e = Edited(d, x[1], Moved(d, x[1], x[2], x[3]))
    BY <1>4 DEF AssignFixture
  <2>2. QED
    BY <1>2, <2>1, EditPlans
<1>5. CASE e \in UnassignFixture(d)
  <2>1. \E x \in Resolved(d) \X Fixtures : e = Edited(d, x[1], Moved(d, x[1], x[2], NoSlot))
    BY <1>5 DEF UnassignFixture
  <2>2. QED
    BY <1>2, <2>1, EditPlans
<1>6. CASE e \in AutoSchedule(d)
  <2>1. \E x \in Active(d) \X Maps : Mutable(d, x[1]) /\ e = Edited(d, x[1], x[2])
    BY <1>6 DEF AutoSchedule
  <2>2. QED
    BY <1>3, <2>1, EditPlans
<1>7. CASE e \in BoardMove(d)
  <2>1. \E x \in Active(d) \X Fixtures \X Maps :
           Mutable(d, x[1])
           /\ e = [Edited(d, x[1], x[3]) EXCEPT !.plan[x[2]] = x[3][x[2]] # NoSlot]
    BY Zenon, <1>7 DEF BoardMove
  <2>2. QED
    BY <1>3, <2>1, BoardPlans
<1>8. QED
  BY <1>4, <1>5, <1>6, <1>7

(* The calendar changes plan and slots under the schedules. *)
LEMMA CalendarPlans ==
    ASSUME NEW d, Shape(d), NEW e \in ChangePlan(d) \cup EditSlot(d)
    PROVE  Planning(d, e)
<1>1. /\ d.plan = [f \in Fixtures |-> d.plan[f]] /\ d.slot = [s \in Slots |-> d.slot[s]]
      /\ d.schedule = [s \in ScheduleIds |-> d.schedule[s]]
      /\ d.review = [r \in ReviewIds |-> d.review[r]]
      /\ \A r \in ReviewIds : ReviewRow(d.review[r])
      /\ \A s \in ScheduleIds :
            ScheduleRow(d.schedule[s]) /\ Continues(d.schedule[s], d.schedule[s])
  BY StaysSo DEF Shape
<1>2. ASSUME NEW plan, plan = [f \in Fixtures |-> plan[f]],
             NEW slot, slot = [s \in Slots |-> slot[s]]
      PROVE  Planning(d, Tables(d.day, plan, slot, d.schedule, d.review, d.publication, d.match))
  BY <1>1, <1>2, Replanned
<1>3. CASE e \in ChangePlan(d)
  <2>1. PICK f \in Fixtures : e = [d EXCEPT !.plan[f] = ~@]
    BY <1>3 DEF ChangePlan
  <2> DEFINE plan == [d.plan EXCEPT ![f] = ~@]
  <2>2. plan = [i \in Fixtures |-> plan[i]]
    BY <1>1
  <2>3. e = Tables(d.day, plan, d.slot, d.schedule, d.review, d.publication, d.match)
    BY <2>1 DEF Shape, Tables
  <2> HIDE DEF plan
  <2>4. QED
    BY <1>1, <1>2, <2>2, <2>3
<1>4. CASE e \in EditSlot(d)
  <2>1. PICK s \in Slots : e = [d EXCEPT !.slot[s] = @ + 1]
    BY <1>4 DEF EditSlot
  <2> DEFINE slot == [d.slot EXCEPT ![s] = @ + 1]
  <2>2. slot = [i \in Slots |-> slot[i]]
    BY <1>1
  <2>3. e = Tables(d.day, d.plan, slot, d.schedule, d.review, d.publication, d.match)
    BY <2>1 DEF Shape, Tables
  <2> HIDE DEF slot
  <2>4. QED
    BY <1>1, <1>2, <2>2, <2>3
<1>5. QED
  BY <1>3, <1>4

(* Steps of review, one table or field after the other. *)
LEMMA GrownTwice ==
    ASSUME NEW d, NEW e, NEW f, Shape(d), Shape(e), Shape(f), Grown(d, e), Grown(e, f)
    PROVE  Grown(d, f)
<1>1. ASSUME NEW s \in ScheduleIds
      PROVE  Continues(d.schedule[s], f.schedule[s])
  <2>1. /\ Continues(d.schedule[s], e.schedule[s]) /\ Continues(e.schedule[s], f.schedule[s])
        /\ ScheduleRow(d.schedule[s]) /\ ScheduleRow(e.schedule[s]) /\ ScheduleRow(f.schedule[s])
    BY DEF Grown, Shape
  <2>2. QED
    BY <2>1 DEF Continues, ScheduleRow
<1>2. QED
  BY <1>1 DEF Grown

LEMMA PlanningTwice ==
    ASSUME NEW d, NEW e, NEW f, Shape(d), Planning(d, e), Planning(e, f)
    PROVE  Planning(d, f)
  BY GrownTwice DEF Planning

LEMMA StateChange ==
    ASSUME NEW d, Shape(d), NEW s \in ScheduleIds, KeptRow(d.schedule[s]),
           NEW st, st \notin {"none", "deleted"}, d.schedule[s].state \in Fixed => st \in Fixed
    PROVE  LET e == [d EXCEPT !.schedule[s].state = st] IN
           /\ Planning(d, e) /\ e.review = d.review /\ e.slot = d.slot /\ e.plan = d.plan
           /\ KeptRow(e.schedule[s]) /\ e.schedule[s].state = st
           /\ e.schedule[s].revision = d.schedule[s].revision
           /\ e.schedule[s].map = d.schedule[s].map
           /\ \A i \in ScheduleIds \ {s} : e.schedule[i] = d.schedule[i]
<1> DEFINE x == [d.schedule[s] EXCEPT !.state = st]
           y == [d.schedule EXCEPT ![s] = x]
           e == [d EXCEPT !.schedule[s].state = st]
<1>1. ScheduleRow(d.schedule[s]) /\ d.plan = [f \in Fixtures |-> d.plan[f]]
  BY DEF Shape
<1>2. /\ x.state = st /\ x.revision = d.schedule[s].revision /\ x.map = d.schedule[s].map
      /\ ScheduleRow(x)
  BY <1>1 DEF ScheduleRow
<1>3. Continues(d.schedule[s], x) /\ KeptRow(x)
  BY <1>1, <1>2 DEF ScheduleRow, Continues, KeptRow
<1>4. y[s] = x /\ \A i \in ScheduleIds \ {s} : y[i] = d.schedule[i]
  BY DEF Shape
<1> HIDE DEF x
<1>5. e = Tables(d.day, d.plan, d.slot, y, d.review, d.publication, d.match)
  BY DEF Shape, Tables, x
<1>6. Planning(d, e)
  BY <1>1, <1>2, <1>3, <1>5, ScheduleReplanned
<1> HIDE DEF e, y
<1>7. e.review = d.review /\ e.slot = d.slot /\ e.plan = d.plan /\ e.schedule = y
  BY <1>5 DEF Tables
<1>8. QED
  BY <1>2, <1>3, <1>4, <1>6, <1>7 DEF e

LEMMA RevisionChange ==
    ASSUME NEW d, Shape(d), NEW s \in ScheduleIds, KeptRow(d.schedule[s]),
           NEW n \in Nat, d.schedule[s].revision <= n
    PROVE  LET e == [d EXCEPT !.schedule[s].revision = n] IN
           /\ Planning(d, e) /\ e.review = d.review /\ e.slot = d.slot /\ e.plan = d.plan
           /\ KeptRow(e.schedule[s]) /\ e.schedule[s].state = d.schedule[s].state
           /\ e.schedule[s].map = d.schedule[s].map
           /\ \A i \in ScheduleIds \ {s} : e.schedule[i] = d.schedule[i]
<1> DEFINE x == [d.schedule[s] EXCEPT !.revision = n]
           y == [d.schedule EXCEPT ![s] = x]
           e == [d EXCEPT !.schedule[s].revision = n]
<1>1. ScheduleRow(d.schedule[s]) /\ d.plan = [f \in Fixtures |-> d.plan[f]]
  BY DEF Shape
<1>2. /\ x.state = d.schedule[s].state /\ x.revision = n /\ x.map = d.schedule[s].map
      /\ ScheduleRow(x)
  BY <1>1 DEF ScheduleRow
<1>3. Continues(d.schedule[s], x) /\ KeptRow(x)
  BY <1>1, <1>2 DEF ScheduleRow, Continues, KeptRow
<1>4. y[s] = x /\ \A i \in ScheduleIds \ {s} : y[i] = d.schedule[i]
  BY DEF Shape
<1> HIDE DEF x
<1>5. e = Tables(d.day, d.plan, d.slot, y, d.review, d.publication, d.match)
  BY DEF Shape, Tables, x
<1>6. Planning(d, e)
  BY <1>1, <1>2, <1>3, <1>5, ScheduleReplanned
<1> HIDE DEF e, y
<1>7. e.review = d.review /\ e.slot = d.slot /\ e.plan = d.plan /\ e.schedule = y
  BY <1>5 DEF Tables
<1>8. QED
  BY <1>2, <1>3, <1>4, <1>6, <1>7 DEF e

LEMMA ReviewChange ==
    ASSUME NEW d, Shape(d), NEW r \in ReviewIds, NEW v, ReviewRow(v), Signed(v),
           d.review[r].state # "approved"
    PROVE  LET e == [d EXCEPT !.review[r] = v] IN
           Planning(d, e) /\ e.schedule = d.schedule
<1> DEFINE y == [d.review EXCEPT ![r] = v]
           e == [d EXCEPT !.review[r] = v]
<1>1. /\ d.plan = [f \in Fixtures |-> d.plan[f]] /\ d.slot = [s \in Slots |-> d.slot[s]]
      /\ d.schedule = [s \in ScheduleIds |-> d.schedule[s]]
      /\ \A s \in ScheduleIds :
            ScheduleRow(d.schedule[s]) /\ Continues(d.schedule[s], d.schedule[s])
  BY StaysSo DEF Shape
<1>2. /\ y = [i \in ReviewIds |-> y[i]]
      /\ \A i \in ReviewIds :
              /\ ReviewRow(y[i])
              /\ \/ y[i] = d.review[i]
                 \/ d.review[i].state # "approved" /\ Signed(y[i])
  BY OneReview
<1>3. e = Tables(d.day, d.plan, d.slot, d.schedule, y, d.publication, d.match)
  BY DEF Shape, Tables
<1> HIDE DEF y, e
<1>4. Planning(d, e)
  BY <1>1, <1>2, <1>3, Replanned
<1>5. e.schedule = d.schedule
  BY <1>3 DEF Tables
<1>6. QED
  BY <1>4, <1>5 DEF e

LEMMA SubmitPlans ==
    ASSUME NEW d, Shape(d), NEW who, NEW e \in Submit(d, who)
    PROVE  Planning(d, e)
<1>1. PICK x \in Resolved(d) \X NewId(d, "review") :
        e = [d EXCEPT !.schedule[x[1]].state = "ready_for_review",
               !.schedule[x[1]].revision = NextRevision(d, x[1]),
               !.review[x[2]] = [state |-> "pending", schedule |-> x[1],
                                 revision |-> NextRevision(d, x[1]),
                                 snapshot |-> Snapshot(d, x[1]), by |-> who,
                                 reviewer |-> 0]]
  BY Zenon DEF Submit
<1> DEFINE s == x[1]
           r == x[2]
           n == NextRevision(d, s)
           v == [state |-> "pending", schedule |-> s, revision |-> n,
                 snapshot |-> Snapshot(d, s), by |-> who, reviewer |-> 0]
           e1 == [d EXCEPT !.schedule[s].state = "ready_for_review"]
           e2 == [e1 EXCEPT !.schedule[s].revision = n]
           e3 == [e2 EXCEPT !.review[r] = v]
<1>2. e = e3
  BY <1>1
<1>3. s \in ScheduleIds /\ Mutable(d, s) /\ r \in NewId(d, "review")
  BY <1>1 DEF Resolved
<1>4. DOMAIN d.review = ReviewIds /\ ReviewIds \subseteq Nat
  BY PlanAssumption DEF Shape
<1>5. r \in ReviewIds /\ d.review[r] = NoRow
  BY <1>3, <1>4, NewIds
<1>6. KeptRow(d.schedule[s]) /\ d.schedule[s].state \notin Fixed
  BY <1>3 DEF Mutable, MutableStates, KeptRow, Fixed
<1>7. n \in Nat /\ d.schedule[s].revision <= n
  <2>1. ScheduleRow(d.schedule[s])
    BY <1>3 DEF Shape
  <2>2. QED
    BY <1>6, <2>1 DEF ScheduleRow, NextRevision
<1>8. ReviewRow(v) /\ Signed(v)
  BY <1>3 DEF ReviewRow, Signed
<1> HIDE DEF s, r, n, v
<1>9. Planning(d, e1) /\ e1.review = d.review /\ KeptRow(e1.schedule[s])
      /\ e1.schedule[s].revision = d.schedule[s].revision
  BY <1>3, <1>6, StateChange
<1>10. Shape(e1)
  BY <1>9 DEF Planning
<1> HIDE DEF e1
<1>11. Planning(e1, e2) /\ e2.review = d.review
  BY <1>3, <1>7, <1>9, <1>10, RevisionChange
<1>12. Shape(e2)
  BY <1>11 DEF Planning
<1> HIDE DEF e2
<1>13. Planning(e2, e3)
  BY <1>5, <1>8, <1>11, <1>12, ReviewChange DEF NoRow
<1> HIDE DEF e3
<1>14. Planning(d, e2)
  BY <1>9, <1>11, PlanningTwice
<1>15. QED
  BY <1>2, <1>13, <1>14, PlanningTwice

(* A decision about a pending review and its schedule. *)
LEMMA DecidePlans ==
    ASSUME NEW d, Shape(d), NEW who,
           NEW e \in Approve(d, who) \cup RequestChanges(d, who)
    PROVE  Planning(d, e)
<1>1. PICK r \in Pending(d, who), decision \in {"approved", "changes_requested"} :
         e = Decided(d, r, decision, who)
  BY DEF Approve, RequestChanges
<1> DEFINE v == [d.review[r] EXCEPT !.state = decision, !.reviewer = who]
           s == d.review[r].schedule
           e1 == [d EXCEPT !.review[r] = v]
           e2 == [e1 EXCEPT !.schedule[s].state = decision]
<1>2. e = e2
  BY <1>1 DEF Decided
<1>3. /\ r \in ReviewIds /\ d.review[r].state = "pending"
      /\ d.review[r].by # who \/ policy.self
      /\ d.schedule[s].state = "ready_for_review"
  BY DEF Pending
<1>4. /\ d.review[r] = [state |-> d.review[r].state, schedule |-> d.review[r].schedule,
                       revision |-> d.review[r].revision, snapshot |-> d.review[r].snapshot,
                       by |-> d.review[r].by, reviewer |-> d.review[r].reviewer]
      /\ s \in ScheduleIds
  BY <1>3 DEF Shape, ReviewRow, KeptRow
<1>5. v.state = decision /\ v.reviewer = who /\ v.by = d.review[r].by /\ ReviewRow(v)
  <2> DEFINE w == [d.review[r] EXCEPT !.state = decision]
  <2>1. w = [state |-> decision, schedule |-> d.review[r].schedule,
             revision |-> d.review[r].revision, snapshot |-> d.review[r].snapshot,
             by |-> d.review[r].by, reviewer |-> d.review[r].reviewer]
    BY <1>4
  <2>2. v = [w EXCEPT !.reviewer = who]
    OBVIOUS
  <2> HIDE DEF w, v
  <2>3. v = [state |-> decision, schedule |-> d.review[r].schedule,
             revision |-> d.review[r].revision, snapshot |-> d.review[r].snapshot,
             by |-> d.review[r].by, reviewer |-> who]
    BY <2>1, <2>2
  <2>4. QED
    BY <1>4, <2>3 DEF ReviewRow
<1>6. Signed(v)
  BY <1>3, <1>5 DEF Signed
<1>7. KeptRow(d.schedule[s]) /\ d.schedule[s].state \notin Fixed
  BY <1>3 DEF KeptRow, Fixed
<1> HIDE DEF v, s
<1>8. Planning(d, e1) /\ e1.schedule = d.schedule
  BY <1>3, <1>5, <1>6, ReviewChange
<1>9. Shape(e1)
  BY <1>8 DEF Planning
<1> HIDE DEF e1
<1>10. Planning(e1, e2)
  BY Zenon, <1>4, <1>7, <1>8, <1>9, StateChange
<1> HIDE DEF e2
<1>11. QED
  BY <1>2, <1>8, <1>10, PlanningTwice

LEMMA WithdrawPlans ==
    ASSUME NEW d, Shape(d), NEW e \in Withdraw(d)
    PROVE  Planning(d, e)
<1>1. PICK r \in ReviewIds :
         /\ d.review[r].state = "pending"
         /\ d.schedule[d.review[r].schedule].state = "ready_for_review"
         /\ e = [d EXCEPT !.review[r].state = "withdrawn",
                          !.schedule[d.review[r].schedule].state = "changes_requested"]
  BY Zenon DEF Withdraw
<1> DEFINE v == [d.review[r] EXCEPT !.state = "withdrawn"]
           s == d.review[r].schedule
           e1 == [d EXCEPT !.review[r].state = "withdrawn"]
           e2 == [e1 EXCEPT !.schedule[s].state = "changes_requested"]
<1>2. e = e2 /\ e1 = [d EXCEPT !.review[r] = v]
  BY <1>1
<1>3. s \in ScheduleIds /\ ReviewRow(v) /\ Signed(v)
  <2>1. /\ d.review[r] = [state |-> d.review[r].state, schedule |-> d.review[r].schedule,
                          revision |-> d.review[r].revision, snapshot |-> d.review[r].snapshot,
                          by |-> d.review[r].by, reviewer |-> d.review[r].reviewer]
        /\ s \in ScheduleIds
    BY <1>1 DEF Shape, ReviewRow, KeptRow
  <2>2. v = [state |-> "withdrawn", schedule |-> d.review[r].schedule,
             revision |-> d.review[r].revision, snapshot |-> d.review[r].snapshot,
             by |-> d.review[r].by, reviewer |-> d.review[r].reviewer]
    BY <2>1
  <2> HIDE DEF v
  <2>3. QED
    BY <2>1, <2>2 DEF ReviewRow, Signed
<1>4. KeptRow(d.schedule[s]) /\ d.schedule[s].state \notin Fixed
  BY <1>1 DEF KeptRow, Fixed
<1> HIDE DEF v, s, e1
<1>5. Planning(d, e1) /\ e1.schedule = d.schedule
  BY <1>1, <1>2, <1>3, ReviewChange
<1>6. Shape(e1)
  BY <1>5 DEF Planning
<1>7. Planning(e1, e2)
  BY <1>3, <1>4, <1>5, <1>6, StateChange
<1> HIDE DEF e2
<1>8. QED
  BY <1>2, <1>5, <1>7, PlanningTwice

(* An amendment starts from the published assignments. *)
LEMMA AmendPlans ==
    ASSUME NEW d, Shape(d), NEW e \in Amend(d)
    PROVE  Planning(d, e)
<1>1. PICK y \in ScheduleIds \X NewId(d, "schedule") :
         /\ d.schedule[y[1]].state = "published"
         /\ e = [d EXCEPT !.schedule[y[1]].state = "superseded",
                          !.schedule[y[1]].replacedBy = y[2],
                          !.schedule[y[2]] = [state |-> "changes_requested", revision |-> 0,
                                              map |-> d.schedule[y[1]].map, replacedBy |-> 0]]
  BY Zenon DEF Amend
<1> DEFINE s == y[1]
           t == y[2]
           x == [d.schedule[s] EXCEPT !.replacedBy = t]
           z == [state |-> "changes_requested", revision |-> 0, map |-> d.schedule[s].map,
                 replacedBy |-> 0]
           e1 == [d EXCEPT !.schedule[s].state = "superseded"]
           u == [e1.schedule[s] EXCEPT !.replacedBy = t]
           e2 == [e1 EXCEPT !.schedule[s].replacedBy = t]
           e3 == [e2 EXCEPT !.schedule[t] = z]
<1>2. e = e3 /\ e2 = [e1 EXCEPT !.schedule[s] = u]
  BY <1>1
<1>3. s \in ScheduleIds /\ t \in NewId(d, "schedule") /\ d.schedule[s].state = "published"
  BY <1>1
<1>4. DOMAIN d.schedule = ScheduleIds /\ ScheduleIds \subseteq Nat
  BY PlanAssumption DEF Shape
<1> HIDE DEF s, t
<1>5. t \in ScheduleIds /\ d.schedule[t] = NoRow /\ s # t
  <2>1. t \in ScheduleIds /\ d.schedule[t] = NoRow
    <3>1. t \in NewId(d, "schedule") /\ DOMAIN d["schedule"] \subseteq Nat
      BY <1>3, <1>4
    <3>2. t \in DOMAIN d["schedule"] /\ d["schedule"][t] = NoRow
      BY <3>1, NewIds
    <3>3. QED
      BY <1>4, <3>2
  <2>2. QED
    BY <1>3, <2>1 DEF NoRow
<1>6. KeptRow(d.schedule[s]) /\ "superseded" \in Fixed
  BY <1>3 DEF KeptRow, Fixed
<1> HIDE DEF e1
<1>7. /\ Planning(d, e1) /\ KeptRow(e1.schedule[s]) /\ e1.schedule[s].state = "superseded"
      /\ e1.schedule[t] = NoRow
  BY <1>3, <1>5, <1>6, StateChange DEF e1
<1>8. Shape(e1)
  BY <1>7 DEF Planning
<1>9. ScheduleRow(u) /\ Continues(e1.schedule[s], u)
  <2>1. ScheduleRow(e1.schedule[s])
    BY <1>3, <1>8 DEF Shape
  <2>2. /\ u.state = e1.schedule[s].state /\ u.revision = e1.schedule[s].revision
        /\ u.map = e1.schedule[s].map /\ u.revision \in Nat /\ ScheduleRow(u)
    BY <1>7, <2>1 DEF ScheduleRow
  <2> HIDE DEF u
  <2>3. QED
    BY <1>7, <2>2 DEF Continues, KeptRow
<1>10. ScheduleRow(z) /\ Continues(e1.schedule[t], z)
  BY <1>7 DEF ScheduleRow, Continues, NoRow, Fixed, KeptRow
<1> HIDE DEF u, z
<1>11. Planning(e1, e2) /\ e2.schedule[t] = NoRow
  <2>1. e2 = Tables(e1.day, e1.plan, e1.slot, [e1.schedule EXCEPT ![s] = u], e1.review,
                    e1.publication, e1.match)
    BY <1>2, <1>8 DEF Shape, Tables
  <2>2. e1.plan = [f \in Fixtures |-> e1.plan[f]] /\ DOMAIN e1.schedule = ScheduleIds
    BY <1>8 DEF Shape
  <2> HIDE DEF e2
  <2>3. Planning(e1, e2)
    BY <1>3, <1>8, <1>9, <2>1, <2>2, ScheduleReplanned
  <2>4. e2.schedule = [e1.schedule EXCEPT ![s] = u]
    BY <2>1 DEF Tables
  <2>5. QED
    BY <1>5, <1>7, <2>2, <2>3, <2>4
<1>12. Shape(e2)
  BY <1>11 DEF Planning
<1> HIDE DEF e2
<1>13. Planning(e2, e3)
  <2>1. e3 = Tables(e2.day, e2.plan, e2.slot, [e2.schedule EXCEPT ![t] = z], e2.review,
                    e2.publication, e2.match)
    BY <1>12 DEF Shape, Tables
  <2>2. e2.plan = [f \in Fixtures |-> e2.plan[f]]
    BY <1>12 DEF Shape
  <2>3. Continues(e2.schedule[t], z)
    BY <1>7, <1>10, <1>11
  <2> HIDE DEF e3
  <2>4. QED
    BY <1>5, <1>10, <1>12, <2>1, <2>2, <2>3, ScheduleReplanned
<1> HIDE DEF e3
<1>14. Planning(d, e2)
  BY <1>7, <1>11, PlanningTwice
<1>15. QED
  BY <1>2, <1>13, <1>14, PlanningTwice

-----------------------------------------------------------------------------
LEMMA MatchFields ==
    ASSUME NEW m, MatchRow(m), NEW a
    PROVE  MatchRow([m EXCEPT !.teams = a]) /\ MatchRow([m EXCEPT !.exists = a])
  BY DEF MatchRow

LEMMA LinkedRow ==
    ASSUME NEW m, MatchRow(m), NEW p, NEW slot
    PROVE  LET l == Linked(m, p, slot) IN MatchRow(l) /\ l.publication = p /\ l.slot = slot
<1> DEFINE k == [m EXCEPT !.publication = p]
           l == Linked(m, p, slot)
<1>1. k = [teams |-> m.teams, exists |-> m.exists, publication |-> p, slot |-> m.slot]
  BY DEF MatchRow
<1>2. l = [k EXCEPT !.slot = slot]
  BY DEF Linked
<1> HIDE DEF k, l
<1>3. l = [teams |-> m.teams, exists |-> m.exists, publication |-> p, slot |-> slot]
  BY <1>1, <1>2
<1>4. QED
  BY <1>3 DEF MatchRow, l

(* A new publication supersedes the live one and outnumbers all of them.     *)
LEMMA NewVersion ==
    ASSUME NEW d, Shape(d)
    PROVE  /\ NextVersion(d) \in Nat
           /\ \A q \in PublicationIds :
                 KeptRow(d.publication[q]) => d.publication[q].version < NextVersion(d)
<1> DEFINE K == Kept(d, "publication")
           V == {d.publication[q].version : q \in K}
           S == {0} \cup V
<1>1. K = {q \in PublicationIds : KeptRow(d.publication[q])}
  <2>1. DOMAIN d["publication"] = PublicationIds
    BY DEF Shape
  <2>2. QED
    BY <2>1 DEF Kept, KeptRow
<1>2. \A q \in K : d.publication[q].version \in Nat
  BY <1>1, PublicationRefers
<1>3. IsFiniteSet(K)
  BY <1>1, PlanAssumption, FS_Subset
<1> HIDE DEF K
<1>4. IsFiniteSet(V)
  <2> DEFINE f == [q \in K |-> d.publication[q].version]
  <2>1. f \in Surjection(K, V)
    BY DEF Surjection
  <2> HIDE DEF f, V
  <2>2. QED
    BY <1>3, <2>1, FS_Surjection
<1>5. IsFiniteSet(S)
  <2> HIDE DEF V
  <2>1. QED
    BY <1>4, FS_Singleton, FS_Union
<1>6. S \subseteq Nat /\ S # {} /\ \A q \in K : d.publication[q].version \in S
  BY <1>2
<1> HIDE DEF S
<1>7. Max(S) \in Nat /\ \A y \in S : y <= Max(S)
  BY <1>5, <1>6, Greatest
<1>8. 1 + Max(S) \in Nat
      /\ \A q \in PublicationIds :
            KeptRow(d.publication[q]) => d.publication[q].version < 1 + Max(S)
  BY <1>1, <1>2, <1>6, <1>7
<1>9. NextVersion(d) = 1 + Max(S)
  BY DEF NextVersion, S, K
<1>10. QED
  BY <1>8, <1>9

LEMMA SupersededRows ==
    ASSUME NEW d, Shape(d), NEW p \in PublicationIds, NEW row
    PROVE  LET pubs == [Superseded(d) EXCEPT ![p] = row] IN
           /\ pubs = [q \in PublicationIds |-> pubs[q]] /\ pubs[p] = row
           /\ \A q \in PublicationIds \ {p} :
                 /\ PublicationRow(pubs[q]) /\ pubs[q].state # "live"
                 /\ KeptRow(pubs[q]) = KeptRow(d.publication[q])
                 /\ KeptRow(pubs[q]) =>
                       /\ pubs[q].schedule = d.publication[q].schedule
                       /\ pubs[q].review = d.publication[q].review
                       /\ pubs[q].snapshot = d.publication[q].snapshot
                       /\ pubs[q].version = d.publication[q].version
<1> DEFINE pubs == [Superseded(d) EXCEPT ![p] = row]
<1>1. /\ pubs = [q \in PublicationIds |-> pubs[q]] /\ pubs[p] = row
      /\ \A q \in PublicationIds \ {p} :
            pubs[q] = IF q \in Live(d) THEN [d.publication[q] EXCEPT !.state = "superseded"]
                      ELSE d.publication[q]
  BY DEF Superseded
<1>2. \A q \in PublicationIds : q \in Live(d) <=> d.publication[q].state = "live"
  BY DEF Live
<1>3. \A q \in PublicationIds : PublicationRow(d.publication[q])
  BY DEF Shape
<1> HIDE DEF pubs
<1>4. ASSUME NEW q \in PublicationIds \ {p}
      PROVE  /\ PublicationRow(pubs[q]) /\ pubs[q].state # "live"
             /\ KeptRow(pubs[q]) = KeptRow(d.publication[q])
             /\ KeptRow(pubs[q]) =>
                   /\ pubs[q].schedule = d.publication[q].schedule
                   /\ pubs[q].review = d.publication[q].review
                   /\ pubs[q].snapshot = d.publication[q].snapshot
                   /\ pubs[q].version = d.publication[q].version
  <2>1. CASE q \in Live(d)
    <3>1. pubs[q] = [d.publication[q] EXCEPT !.state = "superseded"]
      BY <1>1, <2>1
    <3>2. KeptRow(d.publication[q]) /\ PublicationRow(d.publication[q])
      BY <1>2, <1>3, <2>1 DEF KeptRow
    <3>3. /\ pubs[q] = [state |-> "superseded", schedule |-> d.publication[q].schedule,
                        review |-> d.publication[q].review,
                        snapshot |-> d.publication[q].snapshot,
                        version |-> d.publication[q].version]
          /\ d.publication[q].schedule \in ScheduleIds /\ d.publication[q].review \in ReviewIds
          /\ d.publication[q].version \in Nat
      BY <3>1, <3>2 DEF PublicationRow
    <3>4. QED
      BY <3>2, <3>3 DEF PublicationRow, KeptRow
  <2>2. CASE q \notin Live(d)
    BY <1>1, <1>2, <1>3, <2>2
  <2>3. QED
    BY <2>1, <2>2
<1>5. QED
  BY <1>1, <1>4 DEF pubs

LEMMA PublishedTables ==
    ASSUME NEW d, Shape(d), NEW s \in ScheduleIds, d.schedule[s].state = "approved",
           NEW r, NEW p \in PublicationIds
    PROVE  PublishedAs(d, Published(d, s, r, p), s, r, p)
<1> DEFINE map == d.schedule[s].map
           w == WithMatches(d, s)
           m == [f \in Fixtures |-> [d.match[f] EXCEPT !.exists =
                   @ \/ (f \in Assigned(map) /\ d.match[f].teams)]]
           v == Snapshot(w, s)
           row == [state |-> "live", schedule |-> s, review |-> r, snapshot |-> v,
                   version |-> NextVersion(d)]
           pubs == [Superseded(d) EXCEPT ![p] = row]
           ms == [f \in Fixtures |-> IF f \in Assigned(map) /\ w.match[f].exists
                                     THEN Linked(w.match[f], p, map[f]) ELSE w.match[f]]
           day == <<[Day(d) EXCEPT !.state = "scheduled", !.current = p]>>
           x == [d.schedule[s] EXCEPT !.state = "published"]
           e == Published(d, s, r, p)
<1>1. /\ w = Tables(d.day, d.plan, d.slot, d.schedule, d.review, d.publication, m)
      /\ w.day = d.day /\ w.plan = d.plan /\ w.slot = d.slot /\ w.schedule = d.schedule
      /\ w.review = d.review /\ w.publication = d.publication /\ w.match = m
  <2> HIDE DEF m
  <2>1. w = Tables(d.day, d.plan, d.slot, d.schedule, d.review, d.publication, m)
    BY DEF WithMatches, Shape, Tables, m
  <2>2. QED
    BY <2>1 DEF Tables
<1> HIDE DEF w
<1>2. e = Tables(day, d.plan, d.slot, [d.schedule EXCEPT ![s] = x], d.review, pubs, ms)
  <2> DEFINE e1 == [w EXCEPT !.publication = pubs]
             e2 == [e1 EXCEPT !.match = ms]
             e3 == [e2 EXCEPT !.schedule[s].state = "published"]
             e4 == [e3 EXCEPT !.day[1] = [Day(d) EXCEPT !.state = "scheduled", !.current = p]]
  <2>1. e = e4
    BY DEF Published, NextVersion, w
  <2> HIDE DEF pubs, ms, m
  <2>2. e1 = Tables(d.day, d.plan, d.slot, d.schedule, d.review, pubs, m)
    BY <1>1 DEF Tables
  <2> HIDE DEF e1
  <2>3. e2 = Tables(d.day, d.plan, d.slot, d.schedule, d.review, pubs, ms)
    BY <2>2 DEF Tables
  <2> HIDE DEF e2
  <2>4. e3 = Tables(d.day, d.plan, d.slot, [d.schedule EXCEPT ![s] = x], d.review, pubs, ms)
    BY <2>3 DEF Tables
  <2> HIDE DEF e3, x
  <2>5. e4 = Tables(day, d.plan, d.slot, [d.schedule EXCEPT ![s] = x], d.review, pubs, ms)
    <3>1. d.day = <<d.day[1]>>
      BY DEF Shape
    <3> DEFINE c == [Day(d) EXCEPT !.state = "scheduled", !.current = p]
    <3> HIDE DEF c
    <3>2. [d.day EXCEPT ![1] = c] = <<c>>
      BY <3>1
    <3>3. [e3 EXCEPT !.day[1] = c] = [e3 EXCEPT !.day = <<c>>]
      BY <2>4, <3>2 DEF Tables
    <3>4. [e3 EXCEPT !.day = <<c>>]
            = Tables(<<c>>, d.plan, d.slot, [d.schedule EXCEPT ![s] = x], d.review, pubs, ms)
      BY <2>4 DEF Tables
    <3>5. QED
      BY <3>3, <3>4 DEF c
  <2>6. QED
    BY <2>1, <2>5
<1>3. ASSUME NEW f \in Fixtures
      PROVE  /\ MatchRow(ms[f])
             /\ ms[f].exists /\ f \in Assigned(map)
                   => ms[f].publication = p /\ ms[f].slot = map[f]
  <2>1. MatchRow(d.match[f])
    BY DEF Shape
  <2>2. MatchRow(m[f])
    BY <2>1 DEF MatchRow
  <2> HIDE DEF m
  <2>3. ms[f] = IF f \in Assigned(map) /\ m[f].exists THEN Linked(m[f], p, map[f]) ELSE m[f]
    BY <1>1
  <2> HIDE DEF ms
  <2>4. LET l == Linked(m[f], p, map[f]) IN
        MatchRow(l) /\ l.publication = p /\ l.slot = map[f]
    BY <2>2, LinkedRow
  <2>5. QED
    BY <2>2, <2>3, <2>4
<1>4. v.facts = FactsOf(d, map)
  <2> HIDE DEF m, pubs, row, ms, day, x, e
  <2>1. \A k : Snapshot(k, s).facts = {<<f, k.schedule[s].map[f], k.slot[k.schedule[s].map[f]]>> :
                                       f \in Assigned(k.schedule[s].map)}
    BY DEF Snapshot
  <2>2. v.facts = {<<f, w.schedule[s].map[f], w.slot[w.schedule[s].map[f]]>> :
                   f \in Assigned(w.schedule[s].map)}
    BY <2>1
  <2>3. w.schedule = d.schedule /\ w.slot = d.slot
    BY <1>1
  <2> HIDE DEF v
  <2>4. QED
    BY <2>2, <2>3 DEF FactsOf
<1> HIDE DEF v, pubs, x, e
<1>5. /\ e.day = day /\ e.schedule = [d.schedule EXCEPT ![s] = x] /\ e.publication = pubs
      /\ e.match = ms
  <2> HIDE DEF day, ms
  <2>1. QED
    BY <1>2 DEF Tables
<1>6. ms = [f \in Fixtures |-> ms[f]]
  OBVIOUS
<1>7. e = Tables(e.day, d.plan, d.slot, e.schedule, d.review, e.publication, e.match)
  BY Zenon, <1>2, <1>5
<1>8. /\ e.match = [f \in Fixtures |-> e.match[f]]
      /\ \A f \in Fixtures :
           /\ MatchRow(e.match[f])
           /\ e.match[f].exists /\ f \in Assigned(map)
                 => e.match[f].publication = p /\ e.match[f].slot = map[f]
  <2> HIDE DEF ms
  <2>1. QED
    BY <1>3, <1>5, <1>6
<1>9. v.facts = Snapshot(WithMatches(d, s), s).facts
  BY DEF v, w
<1>10. e.publication = [Superseded(d) EXCEPT ![p] = row]
  BY <1>5 DEF pubs
<1> HIDE DEF ms
<1>11. \E u : /\ u.facts = FactsOf(d, map)
              /\ u.facts = Snapshot(WithMatches(d, s), s).facts
              /\ e.publication = [Superseded(d) EXCEPT ![p] =
                    [state |-> "live", schedule |-> s, review |-> r, snapshot |-> u,
                     version |-> NextVersion(d)]]
  BY <1>4, <1>9, <1>10
<1>12. e.schedule = [d.schedule EXCEPT ![s] = [d.schedule[s] EXCEPT !.state = "published"]]
  BY <1>5 DEF x
<1>13. QED
  <2> SUFFICES PublishedAs(d, e, s, r, p)
    BY DEF e
  <2>1. QED
    BY <1>5, <1>7, <1>8, <1>11, <1>12 DEF PublishedAs

LEMMA PairsOfFacts ==
    ASSUME NEW d, NEW map
    PROVE  Pairs(map) = {<<y[1], y[2]>> : y \in FactsOf(d, map)}
<1> DEFINE fact(f) == <<f, map[f], d.slot[map[f]]>>
<1>1. \A f \in Assigned(map) : fact(f) \in FactsOf(d, map)
  BY DEF FactsOf
<1>2. \A y \in FactsOf(d, map) : \E f \in Assigned(map) : y = fact(f)
  BY DEF FactsOf
<1>3. \A f : fact(f)[1] = f /\ fact(f)[2] = map[f]
  OBVIOUS
<1> HIDE DEF fact
<1>4. Pairs(map) \subseteq {<<y[1], y[2]>> : y \in FactsOf(d, map)}
  BY <1>1, <1>3 DEF Pairs
<1>5. ASSUME NEW y \in FactsOf(d, map)
      PROVE  <<y[1], y[2]>> \in Pairs(map)
  BY <1>2, <1>3 DEF Pairs
<1>6. QED
  BY <1>4, <1>5

(* A publication keeps everything that is true of the plan, on a changed day. *)
LEMMA PublishKeeps ==
    ASSUME NEW d, PlanOK(d), page.schedule \in ScheduleIds, NEW expected,
           NEW e \in Publish(d, expected)
    PROVE  PlanOK(e) /\ Advance(d, e) /\ e.day[1] # d.day[1]
<1> DEFINE s == page.schedule
           r == Max(ApprovedReviews(d, s))
           map == d.schedule[s].map
           x == [d.schedule[s] EXCEPT !.state = "published"]
           n == NextVersion(d)
<1>1. PICK p \in NewId(d, "publication") : e = Published(d, s, r, p)
  BY DEF Publish
<1>2. /\ d.schedule[s].state = "approved" /\ Day(d).state \in Replaceable
      /\ ApprovedReviews(d, s) # {}
      /\ SameFacts(Snapshot(WithMatches(d, s), s), d.review[r].snapshot)
  BY DEF Publish
<1>3. /\ Shape(d) /\ Reviewed(d) /\ PlansKept(d) /\ DayShows(d.day[1], d.publication)
      /\ "result" \notin Overlapping => Follow(d)
  BY DEF PlanOK
<1>4. p \in PublicationIds /\ d.publication[p] = NoRow /\ p \in Nat /\ p # NoPublication
  <2>1. /\ p \in NewId(d, "publication") /\ DOMAIN d["publication"] \subseteq Nat
        /\ DOMAIN d.publication = PublicationIds /\ PublicationIds \subseteq Nat \ {0}
    BY <1>1, <1>3, PlanAssumption DEF Shape
  <2>2. p \in DOMAIN d["publication"] /\ d["publication"][p] = NoRow
    BY <2>1, NewIds
  <2>3. QED
    BY <2>1, <2>2 DEF NoPublication
<1>5. /\ r \in ReviewIds /\ d.review[r].state = "approved" /\ d.review[r].schedule = s
  <2>1. /\ ApprovedReviews(d, s) \subseteq ReviewIds /\ IsFiniteSet(ReviewIds)
        /\ ReviewIds \subseteq Nat
    BY PlanAssumption DEF ApprovedReviews
  <2>2. IsFiniteSet(ApprovedReviews(d, s))
    BY <2>1, FS_Subset
  <2>3. r \in ApprovedReviews(d, s)
    BY Zenon, <1>2, <2>1, <2>2, Greatest
  <2>4. QED
    BY Zenon, <2>3 DEF ApprovedReviews
<1> HIDE DEF r
<1>6. /\ e = Tables(e.day, d.plan, d.slot, e.schedule, d.review, e.publication, e.match)
      /\ e.day = <<[Day(d) EXCEPT !.state = "scheduled", !.current = p]>>
      /\ e.schedule = [d.schedule EXCEPT ![s] = x]
      /\ \E v : /\ v.facts = FactsOf(d, map)
                /\ v.facts = Snapshot(WithMatches(d, s), s).facts
                /\ e.publication = [Superseded(d) EXCEPT ![p] =
                     [state |-> "live", schedule |-> s, review |-> r, snapshot |-> v,
                      version |-> n]]
      /\ e.match = [f \in Fixtures |-> e.match[f]]
      /\ \A f \in Fixtures :
            /\ MatchRow(e.match[f])
            /\ e.match[f].exists /\ f \in Assigned(map)
                  => e.match[f].publication = p /\ e.match[f].slot = map[f]
  <2>1. PublishedAs(d, e, s, r, p)
    BY <1>1, <1>2, <1>3, <1>4, PublishedTables
  <2>2. QED
    BY Zenon, <2>1 DEF PublishedAs
<1>7. /\ n \in Nat
      /\ \A q \in PublicationIds : KeptRow(d.publication[q]) => d.publication[q].version < n
  BY <1>3, NewVersion
<1> HIDE DEF n
<1>8. PICK v : /\ v.facts = FactsOf(d, map)
               /\ v.facts = Snapshot(WithMatches(d, s), s).facts
               /\ e.publication = [Superseded(d) EXCEPT ![p] =
                    [state |-> "live", schedule |-> s, review |-> r, snapshot |-> v,
                     version |-> n]]
  BY Zenon, <1>6
<1> DEFINE row == [state |-> "live", schedule |-> s, review |-> r, snapshot |-> v, version |-> n]
           pubs == e.publication
           day == e.day[1]
<1>9. /\ row.state = "live" /\ row.schedule = s /\ row.review = r /\ row.snapshot = v
      /\ row.version = n /\ KeptRow(row) /\ PublicationRow(row)
  BY <1>5, <1>7 DEF KeptRow, PublicationRow
<1> HIDE DEF row
<1>10. /\ pubs = [q \in PublicationIds |-> pubs[q]] /\ pubs[p] = row
       /\ \A q \in PublicationIds \ {p} :
             /\ PublicationRow(pubs[q]) /\ pubs[q].state # "live"
             /\ KeptRow(pubs[q]) = KeptRow(d.publication[q])
             /\ KeptRow(pubs[q]) =>
                   /\ pubs[q].schedule = d.publication[q].schedule
                   /\ pubs[q].review = d.publication[q].review
                   /\ pubs[q].snapshot = d.publication[q].snapshot
                   /\ pubs[q].version = d.publication[q].version
  <2>1. pubs = [Superseded(d) EXCEPT ![p] = row]
    BY <1>8 DEF row
  <2>2. QED
    BY <1>3, <1>4, <2>1, SupersededRows
<1>11. /\ day.state = "scheduled" /\ day.current = p /\ day.session = d.day[1].session
       /\ DayRow(day) /\ e.day = <<day>>
  <2>1. DayRow(Day(d)) /\ Day(d) = d.day[1]
    BY <1>3 DEF Shape, Day
  <2> DEFINE c == [Day(d) EXCEPT !.state = "scheduled"]
             y == [Day(d) EXCEPT !.state = "scheduled", !.current = p]
  <2>2. c = [state |-> "scheduled", current |-> d.day[1].current, session |-> d.day[1].session]
    BY <2>1 DEF DayRow
  <2>3. y = [c EXCEPT !.current = p]
    OBVIOUS
  <2> HIDE DEF c
  <2>4. y = [state |-> "scheduled", current |-> p, session |-> d.day[1].session]
    BY <2>2, <2>3
  <2> HIDE DEF y
  <2>5. e.day = <<y>>
    BY Zenon, <1>6 DEF y
  <2>6. QED
    BY <2>4, <2>5 DEF DayRow
<1>12. /\ x.state = "published" /\ x.map = map /\ ScheduleRow(x) /\ KeptRow(x)
       /\ x.revision = d.schedule[s].revision /\ Continues(d.schedule[s], x)
  <2>1. ScheduleRow(d.schedule[s]) /\ KeptRow(d.schedule[s])
    BY <1>2, <1>3 DEF Shape, KeptRow
  <2>2. /\ x = [state |-> "published", revision |-> d.schedule[s].revision, map |-> map,
                replacedBy |-> d.schedule[s].replacedBy]
        /\ d.schedule[s].revision \in Nat
    BY <2>1 DEF ScheduleRow
  <2> HIDE DEF x
  <2>3. QED
    BY <1>2, <2>2 DEF ScheduleRow, KeptRow, Continues, Fixed
<1> HIDE DEF x
<1>13. /\ e.schedule = [i \in ScheduleIds |-> e.schedule[i]] /\ e.schedule[s] = x
       /\ \A i \in ScheduleIds : /\ ScheduleRow(e.schedule[i])
                                 /\ Continues(d.schedule[i], e.schedule[i])
  BY Zenon, <1>3, <1>6, <1>12, OneSchedule DEF Shape
<1> HIDE DEF pubs, day
<1>14. e.plan = d.plan /\ e.slot = d.slot /\ e.review = d.review
  BY <1>6 DEF Tables
<1>15. Shape(e)
  <2>1. \A q \in PublicationIds : PublicationRow(pubs[q])
    BY <1>9, <1>10
  <2>2. e = Tables(e.day, e.plan, e.slot, e.schedule, e.review, e.publication, e.match)
    BY Zenon, <1>6, <1>14
  <2>3. DayRow(e.day[1]) /\ e.day = <<e.day[1]>>
    BY <1>11 DEF day
  <2>4. e.publication = [q \in PublicationIds |-> e.publication[q]]
        /\ \A q \in PublicationIds : PublicationRow(e.publication[q])
    BY <1>10, <2>1 DEF pubs
  <2>5. QED
    BY Zenon, <1>3, <1>6, <1>13, <1>14, <2>2, <2>3, <2>4 DEF Shape
<1>16. Reviewed(e)
  <2>1. \A i \in ReviewIds : Signed(e.review[i])
    BY <1>3, <1>14 DEF Reviewed
  <2>2. ASSUME NEW q \in PublicationIds, KeptRow(pubs[q])
        PROVE  /\ e.review[pubs[q].review].state = "approved"
               /\ e.review[pubs[q].review].schedule = pubs[q].schedule
               /\ pubs[q].snapshot.facts = e.review[pubs[q].review].snapshot.facts
    <3>1. CASE q = p
      BY <1>2, <1>5, <1>8, <1>9, <1>10, <1>14, <3>1 DEF SameFacts
    <3>2. CASE q # p
      BY <1>3, <1>10, <1>14, <2>2, <3>2 DEF Reviewed
    <3>3. QED
      BY <3>1, <3>2
  <2>3. QED
    BY <2>1, <2>2 DEF Reviewed, pubs
<1>17. PlansKept(e)
  <2>1. ASSUME NEW q \in PublicationIds, KeptRow(pubs[q])
        PROVE  /\ e.schedule[pubs[q].schedule].state \in Fixed
               /\ Pairs(e.schedule[pubs[q].schedule].map)
                    = {<<y[1], y[2]>> : y \in pubs[q].snapshot.facts}
    <3>1. CASE q = p
      <4>1. e.schedule[pubs[q].schedule] = x /\ pubs[q].snapshot = v
        BY <1>9, <1>10, <1>13, <3>1
      <4>2. Pairs(map) = {<<y[1], y[2]>> : y \in v.facts}
        BY <1>8, PairsOfFacts
      <4>3. QED
        BY <1>12, <4>1, <4>2 DEF Fixed
    <3>2. CASE q # p
      <4>1. /\ KeptRow(d.publication[q]) /\ pubs[q].schedule = d.publication[q].schedule
            /\ pubs[q].snapshot = d.publication[q].snapshot
            /\ d.publication[q].schedule \in ScheduleIds
        BY <1>3, <1>10, <2>1, <3>2, PublicationRefers
      <4>2. /\ d.schedule[pubs[q].schedule].state \in Fixed
            /\ Pairs(d.schedule[pubs[q].schedule].map)
                    = {<<y[1], y[2]>> : y \in pubs[q].snapshot.facts}
        BY <1>3, <4>1 DEF PlansKept
      <4>3. Continues(d.schedule[pubs[q].schedule], e.schedule[pubs[q].schedule])
        BY <1>13, <4>1
      <4>4. QED
        BY <4>2, <4>3 DEF Continues
    <3>3. QED
      BY <3>1, <3>2
  <2>2. QED
    BY <2>1 DEF PlansKept, pubs
<1>18. DayShows(day, pubs)
  <2>1. \A q \in PublicationIds : pubs[q].state = "live" => q = p
    BY <1>10
  <2>2. ASSUME NEW q \in PublicationIds, NEW k \in PublicationIds,
               KeptRow(pubs[q]), KeptRow(pubs[k])
        PROVE  /\ q # k => pubs[q].version # pubs[k].version
               /\ pubs[q].state = "live" => pubs[k].version <= pubs[q].version
    <3>1. \A i \in PublicationIds \ {p} : KeptRow(pubs[i]) =>
             /\ KeptRow(d.publication[i]) /\ pubs[i].version = d.publication[i].version
             /\ pubs[i].version < n /\ pubs[i].version \in Nat
      BY <1>3, <1>7, <1>10, PublicationRefers
    <3>2. pubs[p].version = n
      BY <1>9, <1>10
    <3>3. q # k => pubs[q].version # pubs[k].version
      <4>1. CASE q # p /\ k # p
        BY <1>3, <2>2, <3>1, <4>1 DEF DayShows
      <4>2. CASE q = p \/ k = p
        BY <1>7, <2>2, <3>1, <3>2, <4>2
      <4>3. QED
        BY <4>1, <4>2
    <3>4. pubs[q].state = "live" => pubs[k].version <= pubs[q].version
      BY <1>7, <2>1, <2>2, <3>1, <3>2
    <3>5. QED
      BY <3>3, <3>4
  <2>3. day.session = NoPublication
    BY <1>2, <1>3, <1>11 DEF DayShows, Replaceable, Day
  <2>4. pubs[p] # NoRow
    BY <1>9, <1>10 DEF NoRow
  <2>5. QED
    BY <1>4, <1>11, <2>1, <2>2, <2>3, <2>4 DEF DayShows
<1>19. Follow(e)
  <2>1. ASSUME NEW q \in PublicationIds, NEW f \in Fixtures, pubs[q].state = "live",
               e.match[f].exists, e.schedule[pubs[q].schedule].map[f] # NoSlot
        PROVE  /\ e.match[f].publication = q
               /\ e.match[f].slot = e.schedule[pubs[q].schedule].map[f]
    <3>1. q = p
      BY <1>10, <2>1
    <3>2. e.schedule[pubs[q].schedule].map = map
      BY <1>9, <1>10, <1>12, <1>13, <3>1
    <3>3. f \in Assigned(map)
      BY <2>1, <3>2 DEF Assigned
    <3> HIDE DEF map
    <3>4. QED
      BY Zenon, <1>6, <2>1, <3>1, <3>2, <3>3
  <2>2. QED
    BY <2>1 DEF Follow, pubs
<1>20. day # d.day[1]
  BY <1>3, <1>4, <1>11 DEF DayShows
<1>21. Grown(d, e)
  BY <1>13, <1>14 DEF Grown
<1>22. QED
  BY <1>15, <1>16, <1>17, <1>18, <1>19, <1>20, <1>21 DEF PlanOK, Advance, day, pubs

(* The button that submits, approves and publishes as the policies allow.    *)
LEMMA SubmissionKeeps ==
    ASSUME NEW d, PlanOK(d), NEW who, NEW e \in SubmitForReview(d, who)
    PROVE  PlanOK(e) /\ Advance(d, e)
<1>1. Shape(d)
  BY DEF PlanOK
<1>2. \A k \in Submit(d, who) : Planning(d, k) /\ PlanOK(k) /\ Advance(d, k)
  BY <1>1, SubmitPlans, PlanningKeeps
<1>3. Submit(d, who) # {} => page.schedule \in ScheduleIds
  BY Zenon DEF Submit, Resolved
<1>4. ASSUME NEW k \in Submit(d, who), NEW l \in Approve(k, who)
      PROVE  Planning(d, l) /\ PlanOK(l) /\ Advance(d, l)
  <2>1. Shape(k) /\ Planning(d, k)
    BY <1>2 DEF PlanOK
  <2>2. Planning(k, l)
    BY <2>1, DecidePlans
  <2>3. QED
    BY <1>1, <2>1, <2>2, PlanningTwice, PlanningKeeps
<1>5. ASSUME NEW k \in Submit(d, who), NEW l \in Approve(k, who), e \in Publish(l, {})
      PROVE  PlanOK(e) /\ Advance(d, e)
  <2>1. page.schedule \in ScheduleIds /\ PlanOK(l) /\ Planning(d, l)
    BY <1>3, <1>4
  <2>2. PlanOK(e) /\ Advance(l, e) /\ e.day[1] # l.day[1]
    BY <1>5, <2>1, PublishKeeps
  <2>3. Grown(d, e) /\ l.day = d.day
    BY <1>1, <2>1, <2>2, GrownTwice DEF Planning, PlanOK, Advance
  <2>4. QED
    BY <2>2, <2>3 DEF Advance
<1>6. \/ e \in Submit(d, who)
      \/ \E k \in Submit(d, who) : e \in Approve(k, who)
      \/ \E k \in Submit(d, who) : \E l \in Approve(k, who) : e \in Publish(l, {})
  BY DEF SubmitForReview
<1>7. QED
  BY <1>2, <1>4, <1>5, <1>6

-----------------------------------------------------------------------------
(* The match day on its own. *)
LEMMA DayChange ==
    ASSUME NEW d, PlanOK(d), NEW x, DayRow(x), DayShows(x, d.publication)
    PROVE  LET e == [d EXCEPT !.day[1] = x] IN PlanOK(e) /\ Advance(d, e)
<1> DEFINE e == [d EXCEPT !.day[1] = x]
<1>1. Shape(d)
  BY DEF PlanOK
<1>2. e = Tables(<<x>>, d.plan, d.slot, d.schedule, d.review, d.publication, d.match)
  <2>1. [d.day EXCEPT ![1] = x] = <<x>>
    <3>1. d.day = <<d.day[1]>>
      BY <1>1 DEF Shape
    <3>2. QED
      BY <3>1
  <2>2. e = [d EXCEPT !.day = <<x>>]
    BY <2>1
  <2> HIDE DEF e
  <2>3. QED
    BY <1>1, <2>2 DEF Shape, Tables
<1> HIDE DEF e
<1>3. /\ e.day = <<x>> /\ e.day[1] = x /\ e.plan = d.plan /\ e.slot = d.slot
      /\ e.schedule = d.schedule /\ e.review = d.review /\ e.publication = d.publication
      /\ e.match = d.match
      /\ e = Tables(e.day, e.plan, e.slot, e.schedule, e.review, e.publication, e.match)
  BY <1>2 DEF Tables
<1>4. Shape(e)
  BY <1>1, <1>3 DEF Shape
<1>5. Grown(d, e)
  <2>1. \A s \in ScheduleIds : Continues(d.schedule[s], e.schedule[s])
    BY <1>1, <1>3, StaysSo DEF Shape
  <2>2. QED
    BY <1>3, <2>1 DEF Grown
<1>6. Reviewed(e) /\ PlansKept(e) /\ ("result" \notin Overlapping => Follow(e))
  <2>1. Reviewed(d) /\ PlansKept(d) /\ ("result" \notin Overlapping => Follow(d))
    BY DEF PlanOK
  <2>2. Reviewed(e)
    BY <1>3, <2>1 DEF Reviewed
  <2>3. PlansKept(e)
    BY <1>3, <2>1 DEF PlansKept
  <2>4. Follow(d) => Follow(e)
    BY <1>3 DEF Follow
  <2>5. QED
    BY <2>1, <2>2, <2>3, <2>4
<1>7. QED
  BY <1>3, <1>4, <1>5, <1>6 DEF PlanOK, Advance, e

LEMMA OperateKeeps ==
    ASSUME NEW d, PlanOK(d), NEW e \in OpenDay(d) \cup CloseDay(d) \cup CreateDay(d)
    PROVE  PlanOK(e) /\ Advance(d, e)
<1> DEFINE day == d.day[1]
<1>1. /\ DayRow(day) /\ DayShows(day, d.publication) /\ Day(d) = day
      /\ \A p \in PublicationIds : p \in Live(d) <=> d.publication[p].state = "live"
      /\ Live(d) \subseteq PublicationIds
  BY DEF PlanOK, Shape, Day, Live
<1>2. CASE e \in OpenDay(d)
  <2> DEFINE x == [day EXCEPT !.state = "open", !.session = day.current]
             k == [day EXCEPT !.state = "open"]
  <2>1. e = [d EXCEPT !.day[1] = x] /\ day.current \in Live(d)
    BY <1>1, <1>2 DEF OpenDay
  <2>2. k = [state |-> "open", current |-> day.current, session |-> day.session]
    BY <1>1 DEF DayRow
  <2>3. x = [k EXCEPT !.session = day.current]
    OBVIOUS
  <2> HIDE DEF k
  <2>4. x = [state |-> "open", current |-> day.current, session |-> day.current]
    BY <2>2, <2>3
  <2> HIDE DEF x, day
  <2>5. DayRow(x) /\ DayShows(x, d.publication)
    BY <1>1, <2>1, <2>4 DEF DayRow, DayShows
  <2>6. QED
    BY <2>1, <2>5, DayChange
<1>3. CASE e \in CloseDay(d)
  <2> DEFINE x == [day EXCEPT !.state = "closed", !.session = NoPublication]
             k == [day EXCEPT !.state = "closed"]
  <2>1. e = [d EXCEPT !.day[1] = x]
    BY <1>1, <1>3 DEF CloseDay
  <2>2. k = [state |-> "closed", current |-> day.current, session |-> day.session]
    BY <1>1 DEF DayRow
  <2>3. x = [k EXCEPT !.session = NoPublication]
    OBVIOUS
  <2> HIDE DEF k
  <2>4. x = [state |-> "closed", current |-> day.current, session |-> NoPublication]
    BY <2>2, <2>3
  <2> HIDE DEF x, day
  <2>5. DayRow(x) /\ DayShows(x, d.publication)
    BY <1>1, <2>4 DEF DayRow, DayShows
  <2>6. QED
    BY <2>1, <2>5, DayChange
<1>4. CASE e \in CreateDay(d)
  <2>1. day.state = "deleted" /\ e = [d EXCEPT !.day[1] = NewDay]
    BY <1>1, <1>4 DEF CreateDay
  <2>2. NewDay = [state |-> "draft", current |-> NoPublication, session |-> NoPublication]
    BY DEF NewDay, NoDay
  <2> HIDE DEF day
  <2>3. \A p \in PublicationIds : ~KeptRow(d.publication[p])
    BY <1>1, <2>1 DEF DayShows
  <2>4. DayRow(NewDay) /\ DayShows(NewDay, d.publication)
    BY <2>2, <2>3 DEF DayRow, DayShows, KeptRow
  <2>5. QED
    BY <2>1, <2>4, DayChange
<1>5. QED
  BY <1>2, <1>3, <1>4

(* Teams that arrive find the live publication that shows their fixture.     *)
LEMMA DecideKeeps ==
    ASSUME NEW d, PlanOK(d), NEW e \in DecideTeams(d)
    PROVE  PlanOK(e) /\ Grown(d, e) /\ e.publication = d.publication
<1>1. PICK f \in Fixtures :
         e = LET new == [d.match[f] EXCEPT !.teams = TRUE, !.exists = TRUE]
                 live == LinkedOnArrival(d, f) IN
             [d EXCEPT !.match[f] =
                IF live = {} THEN new
                ELSE Linked(new, Max(live),
                            d.schedule[d.publication[Max(live)].schedule].map[f])]
  BY Zenon DEF DecideTeams
<1> DEFINE old == d.match[f]
           new == [old EXCEPT !.teams = TRUE, !.exists = TRUE]
           live == LinkedOnArrival(d, f)
           q == Max(live)
           slot == d.schedule[d.publication[q].schedule].map[f]
           x == IF live = {} THEN new ELSE Linked(new, q, slot)
           ms == [d.match EXCEPT ![f] = x]
<1>2. e = [d EXCEPT !.match = ms]
  BY <1>1
<1>3. /\ Shape(d) /\ Reviewed(d) /\ PlansKept(d) /\ DayShows(d.day[1], d.publication)
      /\ "result" \notin Overlapping => Follow(d)
  BY DEF PlanOK
<1>4. MatchRow(new)
  <2> DEFINE k == [old EXCEPT !.teams = TRUE]
  <2>1. MatchRow(old)
    BY <1>3 DEF Shape
  <2>2. MatchRow(k)
    BY <2>1, MatchFields
  <2>3. new = [k EXCEPT !.exists = TRUE]
    OBVIOUS
  <2> HIDE DEF k, new
  <2>4. QED
    BY <2>2, <2>3, MatchFields
<1>5. \A a, b : /\ MatchRow(Linked(new, a, b)) /\ Linked(new, a, b).publication = a
                /\ Linked(new, a, b).slot = b
  BY <1>4, LinkedRow
<1> HIDE DEF new
<1>7. MatchRow(x)
  BY <1>4, <1>5
<1>8. \A p \in PublicationIds :
         p \in live <=> /\ d.publication[p].state = "live"
                        /\ f \in Assigned(d.schedule[d.publication[p].schedule].map)
  BY DEF LinkedOnArrival, Live
<1>9. live # {} => q \in live
  <2>1. live \subseteq PublicationIds
    BY DEF LinkedOnArrival, Live
  <2>2. IsFiniteSet(live) /\ live \subseteq Nat
    BY <2>1, PlanAssumption, FS_Subset
  <2> HIDE DEF live
  <2>3. QED
    BY Zenon, <2>2, Greatest
<1> HIDE DEF live, q
<1>10. live \subseteq PublicationIds
  BY DEF live, LinkedOnArrival, Live
<1>11. ms[f] = x /\ (\A g \in Fixtures \ {f} : ms[g] = d.match[g])
       /\ ms = [g \in Fixtures |-> ms[g]]
  BY Zenon, <1>3 DEF Shape
<1> HIDE DEF ms
<1>12. e = Tables(d.day, d.plan, d.slot, d.schedule, d.review, d.publication, ms)
  BY <1>2, <1>3 DEF Shape, Tables
<1>13. /\ e.day = d.day /\ e.plan = d.plan /\ e.slot = d.slot /\ e.schedule = d.schedule
       /\ e.review = d.review /\ e.publication = d.publication /\ e.match = ms
       /\ e = Tables(e.day, e.plan, e.slot, e.schedule, e.review, e.publication, e.match)
  BY <1>12 DEF Tables
<1>14. Shape(e)
  <2>1. \A g \in Fixtures : MatchRow(ms[g])
    <3> HIDE DEF x
    <3>1. QED
      BY <1>3, <1>7, <1>11 DEF Shape
  <2>2. QED
    BY Zenon, <1>3, <1>11, <1>13, <2>1 DEF Shape
<1>15. Reviewed(e) /\ PlansKept(e)
  <2>1. Reviewed(e)
    BY <1>3, <1>13 DEF Reviewed
  <2>2. PlansKept(e)
    BY <1>3, <1>13 DEF PlansKept
  <2>3. QED
    BY <2>1, <2>2
<1>16. "result" \notin Overlapping => Follow(e)
  <2>1. ASSUME "result" \notin Overlapping, NEW p \in PublicationIds, NEW g \in Fixtures,
               d.publication[p].state = "live", ms[g].exists,
               d.schedule[d.publication[p].schedule].map[g] # NoSlot
        PROVE  /\ ms[g].publication = p
               /\ ms[g].slot = d.schedule[d.publication[p].schedule].map[g]
    <3>1. CASE g # f
      BY <1>3, <1>11, <2>1, <3>1 DEF Follow
    <3>2. CASE g = f
      <4>1. p \in live
        BY <1>8, <2>1, <3>2 DEF Assigned
      <4>2. q = p
        BY <1>3, <1>8, <1>9, <1>10, <2>1, <4>1 DEF DayShows
      <4>3. x = Linked(new, q, slot)
        BY <4>1
      <4>4. QED
        BY <1>5, <1>11, <3>2, <4>2, <4>3
    <3>3. QED
      BY <3>1, <3>2
  <2>2. QED
    BY <1>13, <2>1 DEF Follow
<1>17. Grown(d, e)
  <2>1. \A s \in ScheduleIds : Continues(d.schedule[s], e.schedule[s])
    BY <1>3, <1>13, StaysSo DEF Shape
  <2>2. QED
    BY <1>13, <2>1 DEF Grown
<1>18. QED
  BY <1>3, <1>13, <1>14, <1>15, <1>16, <1>17 DEF PlanOK

-----------------------------------------------------------------------------
(* Planning that starts again. *)
LEMMA DiscardedRows ==
    ASSUME NEW rows, NEW S, rows = [i \in S |-> rows[i]]
    PROVE  LET y == Discarded(rows) IN
           y = [i \in S |-> y[i]] /\ \A i \in S : y[i].state \in {"none", "deleted"}
  BY DEF Discarded, NoRow

LEMMA StartedOver ==
    ASSUME NEW d, PlanOK(d), NEW day, DayRow(day), day.current = NoPublication,
           day.session = NoPublication, NEW reviews, NEW pubs, NEW matches,
           reviews = [r \in ReviewIds |-> reviews[r]],
           \A r \in ReviewIds : reviews[r].state \in {"none", "deleted"},
           pubs = [p \in PublicationIds |-> pubs[p]],
           \A p \in PublicationIds : pubs[p].state \in {"none", "deleted"},
           matches = [f \in Fixtures |-> matches[f]], \A f \in Fixtures : MatchRow(matches[f])
    PROVE  LET e == Tables(<<day>>, [f \in Fixtures |-> FALSE], [s \in Slots |-> 0],
                           Discarded(d.schedule), reviews, pubs, matches) IN
           PlanOK(e) /\ \A s \in ScheduleIds : ~KeptRow(e.schedule[s])
<1> DEFINE e == Tables(<<day>>, [f \in Fixtures |-> FALSE], [s \in Slots |-> 0],
                       Discarded(d.schedule), reviews, pubs, matches)
           y == Discarded(d.schedule)
<1>1. y = [s \in ScheduleIds |-> y[s]] /\ \A s \in ScheduleIds : y[s].state \in {"none", "deleted"}
  <2>1. d.schedule = [s \in ScheduleIds |-> d.schedule[s]]
    BY DEF PlanOK, Shape
  <2>2. QED
    BY <2>1, DiscardedRows
<1> HIDE DEF y
<1>2. /\ e.day = <<day>> /\ e.day[1] = day /\ e.plan = [f \in Fixtures |-> FALSE]
      /\ e.slot = [s \in Slots |-> 0] /\ e.schedule = y /\ e.review = reviews
      /\ e.publication = pubs /\ e.match = matches
      /\ e = Tables(e.day, e.plan, e.slot, e.schedule, e.review, e.publication, e.match)
  BY DEF Tables, y
<1> HIDE DEF e
<1>3. /\ \A s \in ScheduleIds : ScheduleRow(y[s]) /\ ~KeptRow(y[s])
      /\ \A r \in ReviewIds : ReviewRow(reviews[r]) /\ Signed(reviews[r])
      /\ \A p \in PublicationIds : /\ PublicationRow(pubs[p]) /\ ~KeptRow(pubs[p])
                                   /\ pubs[p].state # "live"
  BY <1>1 DEF ScheduleRow, ReviewRow, PublicationRow, KeptRow, Signed
<1>4. Shape(e)
  <2>1. e.plan = [f \in Fixtures |-> e.plan[f]] /\ e.slot = [s \in Slots |-> e.slot[s]]
    BY <1>2
  <2>2. QED
    BY <1>1, <1>2, <1>3, <2>1 DEF Shape
<1>5. Reviewed(e)
  BY <1>2, <1>3 DEF Reviewed
<1>6. PlansKept(e)
  BY <1>2, <1>3 DEF PlansKept
<1>7. Follow(e)
  BY <1>2, <1>3 DEF Follow
<1>8. DayShows(e.day[1], e.publication)
  BY <1>2, <1>3 DEF DayShows
<1>9. QED
  BY <1>2, <1>3, <1>4, <1>5, <1>6, <1>7, <1>8 DEF PlanOK, e

LEMMA RestartKeeps ==
    ASSUME NEW d, PlanOK(d), NEW e \in RestartDay(d) \cup DeleteDay(d)
    PROVE  PlanOK(e) /\ \A s \in ScheduleIds : ~KeptRow(e.schedule[s])
<1>1. Shape(d)
  BY DEF PlanOK
<1>2. /\ NoDay = [state |-> "deleted", current |-> NoPublication, session |-> NoPublication]
      /\ NewDay = [state |-> "draft", current |-> NoPublication, session |-> NoPublication]
  BY DEF NoDay, NewDay
<1>3. \A x \in {NoDay, NewDay} : /\ DayRow(x) /\ x.current = NoPublication
                                 /\ x.session = NoPublication
  BY <1>2 DEF DayRow
<1>4. ASSUME NEW x
      PROVE  WithoutPlans(d, x)
               = Tables(<<x>>, [f \in Fixtures |-> FALSE], [s \in Slots |-> 0],
                        Discarded(d.schedule), d.review, d.publication, d.match)
  <2> DEFINE plan == [f \in Fixtures |-> FALSE]
             slot == [s \in Slots |-> 0]
             y == Discarded(d.schedule)
  <2>1. [d.day EXCEPT ![1] = x] = <<x>>
    <3>1. d.day = <<d.day[1]>>
      BY <1>1 DEF Shape
    <3>2. QED
      BY <3>1
  <2>2. d = Tables(d.day, d.plan, d.slot, d.schedule, d.review, d.publication, d.match)
    BY <1>1 DEF Shape
  <2>3. WithoutPlans(d, x) = [d EXCEPT !.day = <<x>>, !.plan = plan, !.slot = slot, !.schedule = y]
    BY <2>1 DEF WithoutPlans
  <2> HIDE DEF plan, slot, y
  <2>4. WithoutPlans(d, x) = Tables(<<x>>, plan, slot, y, d.review, d.publication, d.match)
    BY <2>2, <2>3 DEF Tables
  <2>5. QED
    BY <2>4 DEF plan, slot, y
<1>5. d.match = [f \in Fixtures |-> d.match[f]] /\ \A f \in Fixtures : MatchRow(d.match[f])
  BY <1>1 DEF Shape
<1>6. d.review = [r \in ReviewIds |-> d.review[r]]
      /\ d.publication = [p \in PublicationIds |-> d.publication[p]]
  BY <1>1 DEF Shape
<1>7. ASSUME Restartable(d), NEW x \in {NoDay, NewDay}, e = WithoutPlans(d, x)
      PROVE  PlanOK(e) /\ \A s \in ScheduleIds : ~KeptRow(e.schedule[s])
  <2>1. /\ \A r \in ReviewIds : d.review[r].state \in {"none", "deleted"}
        /\ \A p \in PublicationIds : d.publication[p].state \in {"none", "deleted"}
    <3>1. DOMAIN d.review = ReviewIds /\ DOMAIN d.publication = PublicationIds
      BY <1>6
    <3>2. QED
      BY <1>7, <3>1 DEF Restartable, Kept
  <2> DEFINE k == Tables(<<x>>, [f \in Fixtures |-> FALSE], [s \in Slots |-> 0],
                         Discarded(d.schedule), d.review, d.publication, d.match)
  <2>2. e = k
    BY <1>4, <1>7
  <2>3. PlanOK(k) /\ \A s \in ScheduleIds : ~KeptRow(k.schedule[s])
    BY <1>3, <1>5, <1>6, <2>1, StartedOver
  <2> HIDE DEF k
  <2>4. QED
    BY <2>2, <2>3
<1>8. ASSUME e = [WithoutPlans(d, NoDay) EXCEPT
                    !.review = Discarded(@), !.publication = Discarded(@),
                    !.match = [f \in Fixtures |-> Linked(@[f], NoPublication, NoSlot)]]
      PROVE  PlanOK(e) /\ \A s \in ScheduleIds : ~KeptRow(e.schedule[s])
  <2> DEFINE w == WithoutPlans(d, NoDay)
             m == [f \in Fixtures |-> Linked(d.match[f], NoPublication, NoSlot)]
             v == Discarded(d.review)
             u == Discarded(d.publication)
  <2>1. w = Tables(<<NoDay>>, [f \in Fixtures |-> FALSE], [s \in Slots |-> 0],
                   Discarded(d.schedule), d.review, d.publication, d.match)
    BY <1>4
  <2>2. w.review = d.review /\ w.publication = d.publication /\ w.match = d.match
    BY <2>1 DEF Tables
  <2>3. e = [w EXCEPT !.review = v, !.publication = u, !.match = m]
    BY <1>8, <2>2
  <2>4. m = [f \in Fixtures |-> m[f]] /\ \A f \in Fixtures : MatchRow(m[f])
    BY <1>5, LinkedRow
  <2>5. /\ v = [r \in ReviewIds |-> v[r]] /\ \A r \in ReviewIds : v[r].state \in {"none", "deleted"}
        /\ u = [p \in PublicationIds |-> u[p]]
        /\ \A p \in PublicationIds : u[p].state \in {"none", "deleted"}
    BY <1>6, DiscardedRows
  <2> HIDE DEF w, m, v, u
  <2>6. e = Tables(<<NoDay>>, [f \in Fixtures |-> FALSE], [s \in Slots |-> 0],
                   Discarded(d.schedule), v, u, m)
    BY <2>1, <2>3 DEF Tables
  <2>7. QED
    BY <1>3, <2>4, <2>5, <2>6, StartedOver
<1>9. QED
  BY <1>7, <1>8 DEF RestartDay, DeleteDay

(* Every command keeps the plan; those that may overlap only add to it.      *)
LEMMA OutcomesKeep ==
    ASSUME NEW d, PlanOK(d), page.open => page.schedule \in ScheduleIds,
           NEW c \in Commands, NEW e \in Outcomes(c, d)
    PROVE  /\ PlanOK(e)
           /\ c \in Overlapping => Advance(d, e)
           /\ Grown(d, e) \/ \A s \in ScheduleIds : ~KeptRow(e.schedule[s])
<1>1. Shape(d)
  BY DEF PlanOK
<1>2. CASE c = "create"
  BY <1>1, <1>2, CreatePlans, PlanningKeeps DEF Outcomes, Advance
<1>3. CASE c = "edit"
  BY <1>1, <1>3, EditsPlan, PlanningKeeps DEF Outcomes, Advance
<1>4. CASE c = "calendar"
  BY <1>1, <1>4, CalendarPlans, PlanningKeeps DEF Outcomes, Advance
<1>5. CASE c = "submit"
  <2>1. PICK who \in People : e \in SubmitForReview(d, who)
    BY <1>5 DEF Outcomes
  <2>2. QED
    BY <2>1, SubmissionKeeps DEF Advance
<1>6. CASE c = "decide"
  <2>1. \/ e \in Withdraw(d)
        \/ \E who \in People : e \in Approve(d, who) \cup RequestChanges(d, who)
    BY <1>6 DEF Outcomes
  <2>2. Planning(d, e)
    BY <1>1, <2>1, DecidePlans, WithdrawPlans
  <2>3. QED
    BY <2>2, PlanningKeeps DEF Advance
<1>7. CASE c = "publish"
  <2>1. page.open /\ e \in Publish(d, page.live)
    BY <1>7 DEF Outcomes
  <2>2. QED
    BY <2>1, PublishKeeps DEF Advance
<1>8. CASE c = "amend"
  BY <1>1, <1>8, AmendPlans, PlanningKeeps DEF Outcomes, Advance
<1>9. CASE c = "operate"
  BY <1>9, OperateKeeps DEF Outcomes, Advance
<1>10. CASE c = "result"
  <2>1. e \in DecideTeams(d)
    BY <1>10 DEF Outcomes
  <2>2. QED
    BY <1>10, <2>1, DecideKeeps DEF Advance
<1>11. CASE c = "restart"
  <2>1. e \in RestartDay(d) \/ e \in CreateDay(d)
    BY <1>11 DEF Outcomes
  <2>2. c \notin Overlapping
    BY <1>11, OverlapAssumption
  <2>3. QED
    BY <2>1, <2>2, OperateKeeps, RestartKeeps DEF Advance
<1>12. CASE c = "delete"
  <2>1. e \in DeleteDay(d)
    BY <1>12 DEF Outcomes
  <2>2. c \notin Overlapping
    BY <1>12, OverlapAssumption
  <2>3. QED
    BY <2>1, <2>2, RestartKeeps
<1>13. QED
  BY <1>2, <1>3, <1>4, <1>5, <1>6, <1>7, <1>8, <1>9, <1>10, <1>11, <1>12 DEF Commands

-----------------------------------------------------------------------------
(* Two transactions at once.  What others do after snapshot d, in the rows   *)
(* that they wrote.                                                          *)
Later(d, e, others) ==
    /\ Grown(d, e)
    /\ \A s \in ScheduleIds : <<"schedule", s>> \notin others => e.schedule[s] = d.schedule[s]
    /\ \A r \in ReviewIds : <<"review", r>> \notin others => e.review[r] = d.review[r]
    /\ \A p \in PublicationIds :
          <<"publication", p>> \notin others => e.publication[p] = d.publication[p]
    /\ \A f \in Fixtures : <<"match", f>> \notin others => e.match[f] = d.match[f]
    /\ <<"day", 1>> \notin others =>
          /\ e.day[1] = d.day[1] /\ e.publication = d.publication
          /\ "result" \notin Overlapping => e.match = d.match

(* The slow transaction leads from a good database to a good one, while the  *)
(* database went on from the first.                                          *)
Mine(d, new) == [row \in Written(d, new) |-> new[row[1]][row[2]]]
SlowOK ==
    slow.running =>
        \E d, new :
            /\ PlanOK(d) /\ PlanOK(new) /\ Advance(d, new)
            /\ slow = [running |-> TRUE, others |-> slow.others, locked |-> {},
                       mine |-> Mine(d, new)]
            /\ Later(d, db, slow.others)

(* Row by row: what the slow transaction wrote, or else what is there now.   *)
Chosen(old, new, now) == IF new # old THEN new ELSE now
Joined(d, new, now, m) ==
    /\ m = Tables(m.day, m.plan, m.slot, m.schedule, m.review, m.publication, m.match)
    /\ m.day = <<m.day[1]>> /\ m.day[1] = Chosen(d.day[1], new.day[1], now.day[1])
    /\ m.plan = [f \in Fixtures |-> m.plan[f]] /\ m.slot = [s \in Slots |-> m.slot[s]]
    /\ m.schedule = [s \in ScheduleIds |->
                        Chosen(d.schedule[s], new.schedule[s], now.schedule[s])]
    /\ m.review = [r \in ReviewIds |-> Chosen(d.review[r], new.review[r], now.review[r])]
    /\ m.publication = [p \in PublicationIds |->
                           Chosen(d.publication[p], new.publication[p], now.publication[p])]
    /\ m.match = [f \in Fixtures |-> Chosen(d.match[f], new.match[f], now.match[f])]

LEMMA WrittenRows ==
    ASSUME NEW d, Shape(d), NEW e
    PROVE  /\ \A s \in ScheduleIds :
                 <<"schedule", s>> \in Written(d, e) <=> e.schedule[s] # d.schedule[s]
           /\ \A r \in ReviewIds : <<"review", r>> \in Written(d, e) <=> e.review[r] # d.review[r]
           /\ \A p \in PublicationIds :
                 <<"publication", p>> \in Written(d, e) <=> e.publication[p] # d.publication[p]
           /\ \A f \in Fixtures : <<"match", f>> \in Written(d, e) <=> e.match[f] # d.match[f]
           /\ <<"day", 1>> \in Written(d, e) <=> e.day[1] # d.day[1]
<1>1. ASSUME NEW t \in DOMAIN d, NEW i \in DOMAIN d[t]
      PROVE  <<t, i>> \in Written(d, e) <=> e[t][i] # d[t][i]
  BY DEF Written
<1>2. /\ {"day", "schedule", "review", "publication", "match"} \subseteq DOMAIN d
      /\ d["schedule"] = d.schedule /\ d["review"] = d.review /\ d["publication"] = d.publication
      /\ d["match"] = d.match /\ d["day"] = d.day
      /\ e["schedule"] = e.schedule /\ e["review"] = e.review /\ e["publication"] = e.publication
      /\ e["match"] = e.match /\ e["day"] = e.day
  BY DEF Shape, Tables
<1>3. /\ DOMAIN d.schedule = ScheduleIds /\ DOMAIN d.review = ReviewIds
      /\ DOMAIN d.publication = PublicationIds /\ DOMAIN d.match = Fixtures
      /\ 1 \in DOMAIN d.day
  <2>1. d.day = <<d.day[1]>>
    BY DEF Shape
  <2>2. 1 \in DOMAIN d.day
    BY <2>1
  <2>3. QED
    BY <2>2 DEF Shape
<1>4. QED
  BY <1>1, <1>2, <1>3

LEMMA MergedRows ==
    ASSUME NEW d, Shape(d), NEW new, Shape(db), slow.mine = Mine(d, new)
    PROVE  Joined(d, new, db, Merged)
<1> DEFINE w == Written(d, new)
           row(t, i) == IF <<t, i>> \in w THEN new[t][i] ELSE db[t][i]
           m == [t \in DOMAIN db |-> [i \in DOMAIN db[t] |-> row(t, i)]]
<1>1. DOMAIN slow.mine = w /\ \A t, i : <<t, i>> \in w => slow.mine[<<t, i>>] = new[t][i]
  BY DEF Mine
<1>2. Merged = m
  BY <1>1 DEF Merged
<1>3. DOMAIN db = {"day", "plan", "slot", "schedule", "review", "publication", "match"}
  BY DEF Shape, Tables
<1> HIDE DEF row
<1>4. /\ m = Tables(m.day, m.plan, m.slot, m.schedule, m.review, m.publication, m.match)
      /\ m.day = [i \in DOMAIN db.day |-> row("day", i)]
      /\ m.plan = [i \in DOMAIN db.plan |-> row("plan", i)]
      /\ m.slot = [i \in DOMAIN db.slot |-> row("slot", i)]
      /\ m.schedule = [i \in DOMAIN db.schedule |-> row("schedule", i)]
      /\ m.review = [i \in DOMAIN db.review |-> row("review", i)]
      /\ m.publication = [i \in DOMAIN db.publication |-> row("publication", i)]
      /\ m.match = [i \in DOMAIN db.match |-> row("match", i)]
  BY <1>3 DEF Tables
<1> HIDE DEF m
<1>5. /\ DOMAIN db.plan = Fixtures /\ DOMAIN db.slot = Slots
      /\ DOMAIN db.schedule = ScheduleIds /\ DOMAIN db.review = ReviewIds
      /\ DOMAIN db.publication = PublicationIds /\ DOMAIN db.match = Fixtures
  BY DEF Shape
<1>6. m.day = <<m.day[1]>> /\ m.day[1] = row("day", 1)
  <2>1. db.day = <<db.day[1]>>
    BY DEF Shape
  <2>2. DOMAIN db.day = 1..1
    BY <2>1
  <2>3. QED
    BY <1>4, <2>2
<1>7. /\ \A s \in ScheduleIds :
            row("schedule", s) = Chosen(d.schedule[s], new.schedule[s], db.schedule[s])
      /\ \A r \in ReviewIds : row("review", r) = Chosen(d.review[r], new.review[r], db.review[r])
      /\ \A p \in PublicationIds :
            row("publication", p)
              = Chosen(d.publication[p], new.publication[p], db.publication[p])
      /\ \A f \in Fixtures : row("match", f) = Chosen(d.match[f], new.match[f], db.match[f])
      /\ row("day", 1) = Chosen(d.day[1], new.day[1], db.day[1])
  BY WrittenRows DEF row, Chosen
<1>8. QED
  BY <1>2, <1>4, <1>5, <1>6, <1>7 DEF Joined

(* The slow transaction and the others, each from the same snapshot and      *)
(* without a row that both wrote, leave a good plan behind together.         *)
LEMMA JoinedKeeps ==
    ASSUME NEW d, NEW new, NEW now, PlanOK(d), PlanOK(new), PlanOK(now), Advance(d, new),
           NEW others, Later(d, now, others), Written(d, new) \cap others = {},
           NEW m, Joined(d, new, now, m)
    PROVE  PlanOK(m) /\ Grown(now, m)
<1>1. Shape(d) /\ Shape(new) /\ Shape(now) /\ Grown(d, new) /\ Grown(d, now)
  BY DEF PlanOK, Advance, Later
<1>2. /\ \A s \in ScheduleIds :
            \/ m.schedule[s] = new.schedule[s] /\ now.schedule[s] = d.schedule[s]
            \/ m.schedule[s] = now.schedule[s] /\ new.schedule[s] = d.schedule[s]
      /\ \A r \in ReviewIds :
            \/ m.review[r] = new.review[r] /\ now.review[r] = d.review[r]
            \/ m.review[r] = now.review[r] /\ new.review[r] = d.review[r]
      /\ \A p \in PublicationIds :
            m.publication[p] = Chosen(d.publication[p], new.publication[p], now.publication[p])
      /\ \A f \in Fixtures : m.match[f] = Chosen(d.match[f], new.match[f], now.match[f])
  <2>1. \A s \in ScheduleIds :
           new.schedule[s] # d.schedule[s] => now.schedule[s] = d.schedule[s]
    BY <1>1, WrittenRows DEF Later
  <2>2. \A r \in ReviewIds : new.review[r] # d.review[r] => now.review[r] = d.review[r]
    BY <1>1, WrittenRows DEF Later
  <2>3. /\ \A s \in ScheduleIds :
              m.schedule[s] = Chosen(d.schedule[s], new.schedule[s], now.schedule[s])
        /\ \A r \in ReviewIds : m.review[r] = Chosen(d.review[r], new.review[r], now.review[r])
        /\ \A p \in PublicationIds :
              m.publication[p] = Chosen(d.publication[p], new.publication[p], now.publication[p])
        /\ \A f \in Fixtures : m.match[f] = Chosen(d.match[f], new.match[f], now.match[f])
    BY DEF Joined
  <2>4. QED
    BY <2>1, <2>2, <2>3 DEF Chosen
<1>3. Grown(new, m) /\ Grown(now, m)
  <2>1. ASSUME NEW s \in ScheduleIds
        PROVE  /\ Continues(new.schedule[s], m.schedule[s])
               /\ Continues(now.schedule[s], m.schedule[s])
    <3>1. /\ Continues(d.schedule[s], new.schedule[s])
          /\ Continues(d.schedule[s], now.schedule[s])
          /\ ScheduleRow(new.schedule[s]) /\ ScheduleRow(now.schedule[s])
      BY <1>1 DEF Grown, Shape
    <3>2. /\ Continues(new.schedule[s], new.schedule[s])
          /\ Continues(now.schedule[s], now.schedule[s])
      BY <3>1, StaysSo
    <3>3. QED
      BY <1>2, <3>1, <3>2
  <2>2. ASSUME NEW r \in ReviewIds
        PROVE  /\ new.review[r].state = "approved" => m.review[r] = new.review[r]
               /\ now.review[r].state = "approved" => m.review[r] = now.review[r]
    <3>1. d.review[r].state = "approved" =>
             new.review[r] = d.review[r] /\ now.review[r] = d.review[r]
      BY <1>1 DEF Grown
    <3>2. QED
      BY <1>2, <3>1
  <2>3. QED
    BY <2>1, <2>2 DEF Grown
<1>4. Shape(m)
  <2>1. /\ \A s \in ScheduleIds : ScheduleRow(new.schedule[s]) /\ ScheduleRow(now.schedule[s])
        /\ \A r \in ReviewIds : ReviewRow(new.review[r]) /\ ReviewRow(now.review[r])
        /\ \A p \in PublicationIds :
              PublicationRow(new.publication[p]) /\ PublicationRow(now.publication[p])
        /\ \A f \in Fixtures : MatchRow(new.match[f]) /\ MatchRow(now.match[f])
        /\ DayRow(new.day[1]) /\ DayRow(now.day[1])
    BY <1>1 DEF Shape
  <2>2. /\ \A s \in ScheduleIds : ScheduleRow(m.schedule[s])
        /\ \A r \in ReviewIds : ReviewRow(m.review[r])
        /\ \A p \in PublicationIds : PublicationRow(m.publication[p])
        /\ \A f \in Fixtures : MatchRow(m.match[f])
    BY <1>2, <2>1 DEF Chosen
  <2>3. DayRow(m.day[1])
    BY <2>1 DEF Joined, Chosen
  <2>4. /\ m = Tables(m.day, m.plan, m.slot, m.schedule, m.review, m.publication, m.match)
        /\ m.day = <<m.day[1]>>
        /\ m.plan = [f \in Fixtures |-> m.plan[f]] /\ m.slot = [s \in Slots |-> m.slot[s]]
        /\ m.schedule = [s \in ScheduleIds |-> m.schedule[s]]
        /\ m.review = [r \in ReviewIds |-> m.review[r]]
        /\ m.publication = [p \in PublicationIds |-> m.publication[p]]
        /\ m.match = [f \in Fixtures |-> m.match[f]]
    BY DEF Joined
  <2>5. QED
    BY <2>2, <2>3, <2>4 DEF Shape
<1>5. \A r \in ReviewIds : Signed(m.review[r])
  <2>1. \A r \in ReviewIds : Signed(new.review[r]) /\ Signed(now.review[r])
    BY DEF PlanOK, Reviewed
  <2>2. QED
    BY <1>2, <2>1
<1>6. /\ m.publication = [p \in PublicationIds |-> m.publication[p]]
      /\ new.publication = [p \in PublicationIds |-> new.publication[p]]
      /\ now.publication = [p \in PublicationIds |-> now.publication[p]]
      /\ m.match = [f \in Fixtures |-> m.match[f]]
      /\ new.match = [f \in Fixtures |-> new.match[f]]
      /\ now.match = [f \in Fixtures |-> now.match[f]]
      /\ m.day = <<m.day[1]>> /\ new.day = <<new.day[1]>> /\ now.day = <<now.day[1]>>
  BY <1>1, <1>4 DEF Shape
<1>7. m.day[1] = Chosen(d.day[1], new.day[1], now.day[1])
  BY DEF Joined
<1>8. CASE new.day[1] # d.day[1]
  <2>1. /\ now.publication = d.publication
        /\ "result" \notin Overlapping => now.match = d.match
    BY <1>1, <1>8, WrittenRows DEF Later
  <2>2. \A p \in PublicationIds : m.publication[p] = new.publication[p]
    BY <1>2, <2>1 DEF Chosen
  <2>3. m.publication = new.publication
    BY <1>6, <2>2
  <2>4. "result" \notin Overlapping => m.match = new.match
    <3>1. now.match = d.match => \A f \in Fixtures : m.match[f] = new.match[f]
      BY <1>2 DEF Chosen
    <3>2. now.match = d.match => m.match = new.match
      BY <1>6, <3>1
    <3>3. QED
      BY <2>1, <3>2
  <2>5. m.day = new.day
    BY <1>6, <1>7, <1>8 DEF Chosen
  <2>6. Planning(new, m)
    BY <1>3, <1>4, <1>5, <2>3, <2>4, <2>5 DEF Planning
  <2>7. QED
    BY <1>3, <2>6, PlanningKeeps
<1>9. CASE new.day[1] = d.day[1]
  <2>1. /\ new.publication = d.publication
        /\ "result" \notin Overlapping => new.match = d.match
    BY <1>9 DEF Advance
  <2>2. \A p \in PublicationIds : m.publication[p] = now.publication[p]
    BY <1>2, <2>1 DEF Chosen
  <2>3. m.publication = now.publication
    BY <1>6, <2>2
  <2>4. "result" \notin Overlapping => m.match = now.match
    <3>1. new.match = d.match => \A f \in Fixtures : m.match[f] = now.match[f]
      BY <1>2 DEF Chosen
    <3>2. new.match = d.match => m.match = now.match
      BY <1>6, <3>1
    <3>3. QED
      BY <2>1, <3>2
  <2>5. m.day = now.day
    BY <1>6, <1>7, <1>9 DEF Chosen
  <2>6. Planning(now, m)
    BY <1>3, <1>4, <1>5, <2>3, <2>4, <2>5 DEF Planning
  <2>7. QED
    BY <1>3, <2>6, PlanningKeeps
<1>10. QED
  BY <1>8, <1>9

(* One more of the others commits. *)
LEMMA LaterStill ==
    ASSUME NEW d, NEW now, NEW e, Shape(d), Shape(now), Shape(e), NEW others,
           Later(d, now, others), Advance(now, e)
    PROVE  Later(d, e, others \cup Written(now, e))
<1>1. Grown(d, e)
  BY GrownTwice DEF Later, Advance
<1>2. /\ \A s \in ScheduleIds : <<"schedule", s>> \notin Written(now, e)
                                   => e.schedule[s] = now.schedule[s]
      /\ \A r \in ReviewIds : <<"review", r>> \notin Written(now, e)
                                   => e.review[r] = now.review[r]
      /\ \A p \in PublicationIds : <<"publication", p>> \notin Written(now, e)
                                   => e.publication[p] = now.publication[p]
      /\ \A f \in Fixtures : <<"match", f>> \notin Written(now, e)
                                   => e.match[f] = now.match[f]
      /\ <<"day", 1>> \notin Written(now, e) => e.day[1] = now.day[1]
  BY WrittenRows
<1>3. e.day[1] = now.day[1] => /\ e.publication = now.publication
                               /\ "result" \notin Overlapping => e.match = now.match
  BY DEF Advance
<1>4. QED
  BY <1>1, <1>2, <1>3 DEF Later

LEMMA LaterAtOnce ==
    ASSUME NEW d, Shape(d)
    PROVE  Later(d, d, {})
<1>1. Grown(d, d)
  BY StaysSo DEF Grown, Shape
<1>2. QED
  BY <1>1 DEF Later

-----------------------------------------------------------------------------
(* The invariant, action by action. *)
PlanInv == PlanOK(db) /\ SlowOK /\ PageOK

LEMMA PolicyKept ==
    ASSUME NEW d, PlanOK(d), policy' = policy
    PROVE  PlanOK(d)'
<1>1. \A x : Signed(x) => Signed(x)'
  BY DEF Signed
<1>2. Reviewed(d) => Reviewed(d)'
  BY <1>1 DEF Reviewed
<1>3. QED
  BY <1>2 DEF PlanOK

(* The page stays true while its schedule is there, or is closed with it.    *)
LEMMA PageKept ==
    ASSUME PlanOK(db), PageOK, NEW e, db' = e, Shape(e), NEW gone \in BOOLEAN,
           ~gone => Grown(db, e), gone => \A s \in ScheduleIds : ~KeptRow(e.schedule[s]),
           Shown \/ (~gone /\ page' = page)
    PROVE  PageOK'
<1>1. DOMAIN e.schedule = ScheduleIds
  BY DEF Shape
<1>2. page' = page \/ ~page'.open
  BY DEF Shown, NoPage
<1>3. CASE page' = page /\ page.open
  <2> DEFINE s == page.schedule
  <2>1. /\ s \in ScheduleIds /\ KeptRow(db.schedule[s]) /\ page.revision \in Nat
        /\ page.revision <= db.schedule[s].revision
        /\ page.revision = db.schedule[s].revision => page.map = db.schedule[s].map
    BY <1>3 DEF PageOK
  <2>2. ~gone
    BY <1>1, <1>3, <2>1 DEF Shown, NoPage, Kept, KeptRow
  <2>3. Continues(db.schedule[s], e.schedule[s])
    BY <2>1, <2>2 DEF Grown
  <2>4. KeptRow(e.schedule[s])
    BY <2>1, <2>3 DEF Continues
  <2>5. db.schedule[s].revision \in Nat /\ e.schedule[s].revision \in Nat
    <3>1. ScheduleRow(db.schedule[s]) /\ ScheduleRow(e.schedule[s])
      BY <2>1 DEF PlanOK, Shape
    <3>2. QED
      BY <2>1, <2>4, <3>1 DEF ScheduleRow
  <2>6. /\ page.revision <= e.schedule[s].revision
        /\ page.revision = e.schedule[s].revision => page.map = e.schedule[s].map
    BY <2>1, <2>3, <2>5 DEF Continues
  <2>7. QED
    BY <1>3, <2>1, <2>4, <2>6 DEF PageOK
<1>4. CASE ~page'.open
  BY <1>4 DEF PageOK
<1>5. QED
  BY <1>2, <1>3, <1>4

LEMMA InitPlan == Init => PlanInv
<1> SUFFICES ASSUME Init PROVE PlanInv
  OBVIOUS
<1> DEFINE day == [state |-> "draft", current |-> NoPublication, session |-> NoPublication]
           match == [f \in Fixtures |-> [teams |-> f \notin Placeholders, exists |-> FALSE,
                                         publication |-> NoPublication, slot |-> NoSlot]]
           none(S) == [i \in S |-> NoRow]
<1>1. /\ db = [day |-> <<day>>, plan |-> [f \in Fixtures |-> TRUE], slot |-> [s \in Slots |-> 0],
               schedule |-> none(ScheduleIds), review |-> none(ReviewIds),
               publication |-> none(PublicationIds), match |-> match]
      /\ slow = NoTransaction /\ page = NoPage
  BY DEF Init
<1>2. DayRow(day) /\ day.state = "draft" /\ day.current = NoPublication
      /\ day.session = NoPublication
  BY DEF DayRow
<1>3. match = [f \in Fixtures |-> match[f]] /\ \A f \in Fixtures : MatchRow(match[f])
  BY DEF MatchRow
<1>4. /\ ScheduleRow(NoRow) /\ ReviewRow(NoRow) /\ PublicationRow(NoRow) /\ Signed(NoRow)
      /\ ~KeptRow(NoRow) /\ NoRow.state # "live"
  BY DEF ScheduleRow, ReviewRow, PublicationRow, Signed, KeptRow, NoRow
<1>5. \A S : none(S) = [i \in S |-> none(S)[i]] /\ \A i \in S : none(S)[i] = NoRow
  OBVIOUS
<1> HIDE DEF day, match, none
<1>6. /\ db.day = <<day>> /\ db.day[1] = day /\ db.plan = [f \in Fixtures |-> TRUE]
      /\ db.slot = [s \in Slots |-> 0] /\ db.schedule = none(ScheduleIds)
      /\ db.review = none(ReviewIds) /\ db.publication = none(PublicationIds)
      /\ db.match = match
      /\ db = Tables(db.day, db.plan, db.slot, db.schedule, db.review, db.publication, db.match)
  BY <1>1 DEF Tables
<1>7. Shape(db)
  <2>1. db.plan = [f \in Fixtures |-> db.plan[f]] /\ db.slot = [s \in Slots |-> db.slot[s]]
    BY <1>6
  <2>2. QED
    BY <1>2, <1>3, <1>4, <1>5, <1>6, <2>1 DEF Shape
<1>8. Reviewed(db)
  BY <1>4, <1>5, <1>6 DEF Reviewed
<1>9. PlansKept(db)
  BY <1>4, <1>5, <1>6 DEF PlansKept
<1>10. Follow(db)
  BY <1>4, <1>5, <1>6 DEF Follow
<1>11. DayShows(db.day[1], db.publication)
  BY <1>2, <1>4, <1>5, <1>6 DEF DayShows
<1>12. QED
  BY <1>1, <1>7, <1>8, <1>9, <1>10, <1>11 DEF PlanInv, PlanOK, SlowOK, PageOK,
     NoTransaction, NoPage

(* A command that commits at once, alone or beside the slow transaction.     *)
LEMMA RunKeeps ==
    ASSUME PlanInv, NEW c \in Commands, Run(c)
    PROVE  PlanInv'
<1>1. PICK e \in Outcomes(c, db) :
        /\ db' = e
        /\ slow' = IF slow.running THEN [slow EXCEPT !.others = @ \cup Written(db, e)] ELSE slow
  BY DEF Run, Commit, CommitSettled
<1>2. policy' = policy /\ Shown /\ (slow.running => c \in Overlapping)
  BY DEF Run
<1>3. PlanOK(db) /\ SlowOK /\ PageOK
  BY DEF PlanInv
<1>4. /\ PlanOK(e)
      /\ c \in Overlapping => Advance(db, e)
      /\ Grown(db, e) \/ \A s \in ScheduleIds : ~KeptRow(e.schedule[s])
  BY <1>3, OutcomesKeep DEF PageOK
<1>5. Shape(db) /\ Shape(e)
  BY <1>3, <1>4 DEF PlanOK
<1>6. PlanOK(db)'
  BY <1>1, <1>2, <1>4, PolicyKept
<1>7. PageOK'
  BY <1>1, <1>2, <1>3, <1>4, <1>5, PageKept
<1>8. SlowOK'
  <2>1. CASE ~slow.running
    BY <1>1, <2>1 DEF SlowOK
  <2>2. CASE slow.running
    <3>1. PICK d, new :
            /\ PlanOK(d) /\ PlanOK(new) /\ Advance(d, new)
            /\ slow = [running |-> TRUE, others |-> slow.others, locked |-> {},
                       mine |-> Mine(d, new)]
            /\ Later(d, db, slow.others)
      BY <1>3, <2>2 DEF SlowOK
    <3>2. Later(d, e, slow.others \cup Written(db, e))
      BY <1>2, <1>4, <1>5, <2>2, <3>1, LaterStill DEF PlanOK
    <3>3. slow' = [running |-> TRUE, others |-> slow.others \cup Written(db, e), locked |-> {},
                   mine |-> Mine(d, new)]
      <4> DEFINE before == slow.others
                 after == before \cup Written(db, e)
                 mine == Mine(d, new)
      <4>1. slow = [running |-> TRUE, others |-> before, locked |-> {}, mine |-> mine]
        BY <3>1
      <4>2. slow' = [slow EXCEPT !.others = after]
        BY <1>1, <2>2
      <4> HIDE DEF before, after, mine
      <4>3. slow' = [running |-> TRUE, others |-> after, locked |-> {}, mine |-> mine]
        BY <4>1, <4>2
      <4>4. QED
        BY <4>3 DEF before, after, mine
    <3>4. slow'.others = slow.others \cup Written(db, e)
      BY <3>3
    <3>5. PlanOK(d)' /\ PlanOK(new)'
      BY <1>2, <3>1, PolicyKept
    <3>6. QED
      BY <1>1, <3>1, <3>2, <3>3, <3>4, <3>5 DEF SlowOK
  <2>3. QED
    BY <2>1, <2>2
<1>9. QED
  BY <1>6, <1>7, <1>8 DEF PlanInv

LEMMA RunSlowlyKeeps ==
    ASSUME PlanInv, NEW c \in Commands, RunSlowly(c)
    PROVE  PlanInv'
<1>1. PICK new \in Outcomes(c, db) :
        slow' = [running |-> TRUE, others |-> {}, locked |-> {}, mine |-> Mine(db, new)]
  BY DEF RunSlowly, Begin, BeginLocking, Mine
<1>2. db' = db /\ policy' = policy /\ page' = page /\ c \in Overlapping
  BY DEF RunSlowly, Begin, BeginLocking
<1>3. PlanOK(db) /\ PageOK
  BY DEF PlanInv
<1>4. PlanOK(new) /\ Advance(db, new)
  BY <1>2, <1>3, OutcomesKeep DEF PageOK
<1>5. Later(db, db, {}) /\ slow'.others = {}
  BY <1>1, <1>3, LaterAtOnce DEF PlanOK
<1>6. PICK d : d = db
  OBVIOUS
<1>7. PlanOK(d)' /\ PlanOK(new)'
  BY <1>2, <1>3, <1>4, <1>6, PolicyKept
<1>8. SlowOK'
  <2>1. /\ slow' = [running |-> TRUE, others |-> slow'.others, locked |-> {},
                    mine |-> Mine(d, new)]
        /\ Later(d, db', slow'.others) /\ Advance(d, new)
    BY <1>1, <1>2, <1>4, <1>5, <1>6
  <2>2. QED
    BY <1>7, <2>1 DEF SlowOK
<1>9. PlanOK(db)' /\ PageOK'
  BY <1>2, <1>3, <1>6, <1>7 DEF PageOK
<1>10. QED
  BY <1>8, <1>9 DEF PlanInv

(* The slow transaction commits into what is there, or fails as a whole.     *)
LEMMA RunEndsKeeps ==
    ASSUME PlanInv, RunEnds
    PROVE  PlanInv'
<1>1. /\ slow.running /\ slow' = NoTransaction /\ policy' = policy /\ page' = page
      /\ db' = IF Conflict THEN db ELSE Merged
  BY DEF RunEnds, End, EndSettled
<1>2. PlanOK(db) /\ SlowOK /\ PageOK
  BY DEF PlanInv
<1>3. PICK d, new :
        /\ PlanOK(d) /\ PlanOK(new) /\ Advance(d, new)
        /\ slow = [running |-> TRUE, others |-> slow.others, locked |-> {},
                   mine |-> Mine(d, new)]
        /\ Later(d, db, slow.others)
  BY <1>1, <1>2 DEF SlowOK
<1>4. PICK e : e = db'
  OBVIOUS
<1>5. PlanOK(e) /\ Grown(db, e)
  <2>1. CASE Conflict
    <3>1. e = db
      BY <1>1, <1>4, <2>1
    <3>2. Grown(db, db)
      BY <1>2, LaterAtOnce DEF Later, PlanOK
    <3>3. QED
      BY <1>2, <3>1, <3>2
  <2>2. CASE ~Conflict
    <3>1. e = Merged
      BY <1>1, <1>4, <2>2
    <3>2. slow.mine = Mine(d, new) /\ slow.locked = {}
      BY <1>3
    <3>3. Joined(d, new, db, Merged)
      BY <1>2, <1>3, <3>2, MergedRows DEF PlanOK
    <3>4. Written(d, new) \cap slow.others = {}
      BY <2>2, <3>2 DEF Conflict, Mine
    <3>5. QED
      BY <1>2, <1>3, <3>1, <3>3, <3>4, JoinedKeeps
  <2>3. QED
    BY <2>1, <2>2
<1>6. PlanOK(e)'
  BY <1>1, <1>5, PolicyKept
<1>7. PageOK'
  BY <1>1, <1>2, <1>4, <1>5, PageKept DEF PlanOK
<1>8. SlowOK'
  BY <1>1 DEF SlowOK, NoTransaction
<1>9. QED
  BY <1>4, <1>6, <1>7, <1>8 DEF PlanInv

LEMMA LoadKeeps ==
    ASSUME PlanInv, NEW s \in ScheduleIds, LoadPage(s)
    PROVE  PlanInv'
<1>1. /\ s \in Active(db) /\ UNCHANGED <<db, policy, slow>>
      /\ page' = [open |-> TRUE, schedule |-> s, revision |-> db.schedule[s].revision,
                  map |-> db.schedule[s].map, live |-> Live(db)]
  BY DEF LoadPage
<1>2. KeptRow(db.schedule[s]) /\ ScheduleRow(db.schedule[s])
  BY <1>1 DEF Active, Kept, KeptRow, PlanInv, PlanOK, Shape
<1>3. PageOK'
  BY <1>1, <1>2 DEF PageOK, ScheduleRow
<1>4. PICK d : d = db
  OBVIOUS
<1>5. PlanOK(db)'
  BY <1>1, <1>4, PolicyKept DEF PlanInv
<1>6. SlowOK'
  <2>1. CASE slow.running
    <3>1. PICK k, new :
            /\ PlanOK(k) /\ PlanOK(new) /\ Advance(k, new)
            /\ slow = [running |-> TRUE, others |-> slow.others, locked |-> {},
                       mine |-> Mine(k, new)]
            /\ Later(k, db, slow.others)
      BY <2>1 DEF PlanInv, SlowOK
    <3>2. PlanOK(k)' /\ PlanOK(new)'
      BY <1>1, <3>1, PolicyKept
    <3>3. QED
      BY <1>1, <3>1, <3>2 DEF SlowOK
  <2>2. CASE ~slow.running
    BY <1>1, <2>2 DEF SlowOK
  <2>3. QED
    BY <2>1, <2>2
<1>7. QED
  BY <1>3, <1>5, <1>6 DEF PlanInv

LEMMA PlanAlways == Spec => []PlanInv
<1>1. PlanInv /\ [Next]_vars => PlanInv'
  <2> SUFFICES ASSUME PlanInv, [Next]_vars PROVE PlanInv'
    OBVIOUS
  <2>1. CASE UNCHANGED vars
    <3>1. /\ UNCHANGED <<db, policy, slow, page>>
      BY <2>1 DEF vars
    <3>2. PICK d : d = db
      OBVIOUS
    <3>3. PlanOK(db)'
      BY <3>1, <3>2, PolicyKept DEF PlanInv
    <3>4. PageOK'
      BY <3>1 DEF PlanInv, PageOK
    <3>5. SlowOK'
      <4>1. CASE slow.running
        <5>1. PICK k, new :
                /\ PlanOK(k) /\ PlanOK(new) /\ Advance(k, new)
                /\ slow = [running |-> TRUE, others |-> slow.others, locked |-> {},
                           mine |-> Mine(k, new)]
                /\ Later(k, db, slow.others)
          BY <4>1 DEF PlanInv, SlowOK
        <5>2. PlanOK(k)' /\ PlanOK(new)'
          BY <3>1, <5>1, PolicyKept
        <5>3. QED
          BY <3>1, <5>1, <5>2 DEF SlowOK
      <4>2. CASE ~slow.running
        BY <3>1, <4>2 DEF SlowOK
      <4>3. QED
        BY <4>1, <4>2
    <3>6. QED
      BY <3>3, <3>4, <3>5 DEF PlanInv
  <2>2. CASE \E c \in Commands : Run(c)
    BY <2>2, RunKeeps
  <2>3. CASE \E c \in Commands : RunSlowly(c)
    BY <2>3, RunSlowlyKeeps
  <2>4. CASE RunEnds
    BY <2>4, RunEndsKeeps
  <2>5. CASE \E s \in ScheduleIds : LoadPage(s)
    BY <2>5, LoadKeeps
  <2>6. QED
    BY <2>1, <2>2, <2>3, <2>4, <2>5 DEF Next
<1>2. QED
  BY InitPlan, <1>1, PTL DEF Spec

-----------------------------------------------------------------------------
(* What is published was reviewed, for every policy, page and overlap of two *)
(* transactions: no command between the decision and the publication, and no *)
(* transaction beside them, changes what the reviewer saw.                   *)
THEOREM PublishedWasReviewed == Spec => []ReviewedContent
<1>1. PlanInv => ReviewedContent
  <2> SUFFICES ASSUME PlanInv PROVE ReviewedContent
    OBVIOUS
  <2>1. Shape(db) /\ Reviewed(db)
    BY DEF PlanInv, PlanOK
  <2>2. \A p \in Everything : p \in PublicationIds /\ KeptRow(db.publication[p])
    <3>1. DOMAIN db.publication = PublicationIds
      BY <2>1 DEF Shape
    <3>2. QED
      BY <3>1 DEF Everything, Kept, KeptRow
  <2>3. ASSUME NEW p \in Everything
        PROVE  LET pub == db.publication[p]
                   rev == db.review[pub.review] IN
               /\ rev.state = "approved" /\ rev.schedule = pub.schedule
               /\ pub.snapshot.facts = rev.snapshot.facts
               /\ rev.reviewer # rev.by \/ policy.self
    <3>1. db.publication[p].review \in ReviewIds
      BY <2>1, <2>2, PublicationRefers
    <3>2. QED
      BY <2>1, <2>2, <3>1 DEF Reviewed, Signed
  <2>4. QED
    BY <2>3 DEF ReviewedContent
<1>2. QED
  BY PlanAlways, <1>1, PTL

(* One publication is live, it is the newest and the match day shows it, also *)
(* when two planners publish at the same time; a session that runs is that   *)
(* of the live publication.                                                  *)
THEOREM OneAlwaysLive == Spec => []OneLivePublication
<1>1. PlanInv => OneLivePublication
  <2> SUFFICES ASSUME PlanInv PROVE OneLivePublication
    OBVIOUS
  <2>1. Shape(db) /\ DayShows(db.day[1], db.publication)
    BY DEF PlanInv, PlanOK
  <2>2. \A p : p \in Live(db) <=> p \in PublicationIds /\ db.publication[p].state = "live"
    BY DEF Live
  <2>3. \A p \in Everything : p \in PublicationIds /\ KeptRow(db.publication[p])
    <3>1. DOMAIN db.publication = PublicationIds
      BY <2>1 DEF Shape
    <3>2. QED
      BY <3>1 DEF Everything, Kept, KeptRow
  <2>4. \A p \in Live(db) : Day(db).current = p
    BY <2>1, <2>2 DEF DayShows, Day
  <2>5. Cardinality(Live(db)) <= 1
    <3>1. CASE Live(db) = {}
      BY <3>1, FS_EmptySet
    <3>2. CASE Live(db) # {}
      <4>1. Live(db) = {Day(db).current}
        BY <2>4, <3>2
      <4>2. Cardinality({Day(db).current}) = 1
        BY FS_Singleton
      <4>3. QED
        BY <4>1, <4>2
    <3>3. QED
      BY <3>1, <3>2
  <2>6. \A p, q \in Everything :
           /\ p # q => db.publication[p].version # db.publication[q].version
           /\ p \in Live(db) => db.publication[q].version <= db.publication[p].version
    BY <2>1, <2>2, <2>3 DEF DayShows
  <2>7. Day(db).session # NoPublication => Day(db).state = "open" /\ Day(db).session \in Live(db)
    BY <2>1, <2>2 DEF DayShows, Day
  <2>8. QED
    BY <2>4, <2>5, <2>6, <2>7 DEF OneLivePublication
<1>2. QED
  BY PlanAlways, <1>1, PTL

(* The schedule behind the live publication keeps the assignments that were  *)
(* published: a planner who edits at the same time cannot change them.       *)
THEOREM PublishedPlanKept == Spec => []LivePlanKept
<1>1. PlanInv => LivePlanKept
  <2> SUFFICES ASSUME PlanInv PROVE LivePlanKept
    OBVIOUS
  <2>1. PlansKept(db)
    BY DEF PlanInv, PlanOK
  <2>2. \A p \in Live(db) : p \in PublicationIds /\ KeptRow(db.publication[p])
    BY DEF Live, KeptRow
  <2>3. QED
    BY <2>1, <2>2 DEF LivePlanKept, PlansKept, Pairs
<1>2. QED
  BY PlanAlways, <1>1, PTL

(* As long as no approved result overlaps with a publication, every match of *)
(* a fixture that is published is linked to the live publication, in its     *)
(* slot: matches that exist then, and matches that are decided later.        *)
THEOREM MatchesAlwaysFollow ==
    ASSUME "result" \notin Overlapping
    PROVE  Spec => []MatchesFollowLive
<1>1. PlanInv => MatchesFollowLive
  <2> SUFFICES ASSUME PlanInv PROVE MatchesFollowLive
    OBVIOUS
  <2>1. Shape(db) /\ Follow(db)
    BY DEF PlanInv, PlanOK
  <2>2. ASSUME NEW p \in Live(db), NEW f \in Fixtures, db.match[f].exists,
               db.schedule[db.publication[p].schedule].map[f] # NoSlot
        PROVE  LET slot == db.schedule[db.publication[p].schedule].map[f] IN
               db.match[f] = Linked(db.match[f], p, slot)
    <3> DEFINE m == db.match[f]
               slot == db.schedule[db.publication[p].schedule].map[f]
    <3>1. m.publication = p /\ m.slot = slot
      BY <2>1, <2>2 DEF Follow, Live
    <3>2. MatchRow(m)
      BY <2>1 DEF Shape
    <3> HIDE DEF m, slot
    <3>3. m = Linked(m, p, slot)
      <4> DEFINE l == Linked(m, p, slot)
      <4>1. m = [teams |-> m.teams, exists |-> m.exists, publication |-> p, slot |-> slot]
        BY <3>1, <3>2 DEF MatchRow
      <4>2. l = [[m EXCEPT !.publication = p] EXCEPT !.slot = slot]
        BY DEF Linked
      <4> HIDE DEF l
      <4>3. l = [teams |-> m.teams, exists |-> m.exists, publication |-> p, slot |-> slot]
        BY <4>1, <4>2
      <4>4. QED
        BY <4>1, <4>3 DEF l
    <3>4. QED
      BY <3>3 DEF m, slot
  <2>3. QED
    BY <2>2 DEF MatchesFollowLive
<1>2. QED
  BY PlanAlways, <1>1, PTL

(* The revision on a planner's page still names the assignments on the page: *)
(* who edits or submits with it changes what they saw.                       *)
THEOREM RevisionAlwaysNamesPlan == Spec => []RevisionNamesPlan
<1>1. PlanInv => RevisionNamesPlan
  BY DEF PlanInv, PageOK, RevisionNamesPlan
<1>2. QED
  BY PlanAlways, <1>1, PTL
=============================================================================
