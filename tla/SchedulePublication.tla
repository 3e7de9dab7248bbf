------------------------ MODULE SchedulePublication -------------------------
(***************************************************************************)
(* The plan of one match day: its working schedules, their reviews, the    *)
(* publications, and the matches that take their slot from the live one.   *)
(*                                                                         *)
(* A command is a set of databases that it may leave behind: empty when it *)
(* is refused.                                                             *)
(***************************************************************************)
EXTENDS FiniteSets, FiniteSetsExt, RepeatableRead

CONSTANTS
    Fixtures, Slots,
    Placeholders,      \* fixtures whose teams an earlier result decides
    People,            \* each may plan, review and publish
    Policies,          \* workflow policies an edition may have
    Overlapping,       \* commands that may overlap with one another
    ScheduleIds, ReviewIds, PublicationIds,   \* bounds: ids the rows may take
    MaxEdits           \* bound: edits of assignments, plan and slots

ASSUME PlanAssumption ==
    /\ Placeholders \subseteq Fixtures
    /\ Policies \subseteq [review : BOOLEAN, self : BOOLEAN, publish : BOOLEAN]
    /\ {ScheduleIds, ReviewIds, PublicationIds} \subseteq SUBSET (Nat \ {0})
    /\ IsFiniteSet(ReviewIds) /\ IsFiniteSet(PublicationIds)
    /\ MaxEdits \in Nat

VARIABLES
    policy,   \* the edition's: independent review, self approval, publish at once
    page,     \* what one planner's page shows, or NoPage
    edits     \* counter of the bound

vars == <<db, policy, slow, page, edits>>

NoPage == [open |-> FALSE]
NoSlot == 0
NoPublication == 0

Day(d) == d.day[1]
Assigned(map) == {f \in Fixtures : map[f] # NoSlot}
Planned(d) == {f \in Fixtures : d.plan[f]}

(* The rows of a table that are there. *)
Kept(d, t) == {i \in DOMAIN d[t] : d[t][i].state \notin {"none", "deleted"}}
Active(d) == {s \in Kept(d, "schedule") : d.schedule[s].state # "superseded"}
Live(d) == {p \in PublicationIds : d.publication[p].state = "live"}

-----------------------------------------------------------------------------
(* The validator.  Team clashes, rest, blackouts and the order of stages    *)
(* depend on the teams and times of a map like the clauses kept here.       *)
Errors(d, map) == Assigned(map) \ Planned(d)
Distinct(map) == \A f, g \in Assigned(map) : map[f] = map[g] => f = g
Maps == {m \in [Fixtures -> Slots \cup {NoSlot}] : Distinct(m)}
Valid(d, map) == Errors(d, map) = {} /\ Planned(d) \subseteq Assigned(map)

(* What a review and a publication keep of a schedule. *)
Snapshot(d, s) ==
    LET map == d.schedule[s].map IN
    [facts |-> {<<f, map[f], d.slot[map[f]]>> : f \in Assigned(map)},
     matches |-> {f \in Assigned(map) : d.match[f].exists}]

-----------------------------------------------------------------------------
(* Planning. *)

MutableStatesMutant == {"draft", "changes_requested", "published"}
MutableStates == {"draft", "changes_requested"}
Mutable(d, s) == d.schedule[s].state \in MutableStates

CreateSchedule(d) ==
    {[d EXCEPT !.schedule[s] =
         [state |-> "draft", revision |-> 0, map |-> [f \in Fixtures |-> NoSlot],
          replacedBy |-> 0]] :
     s \in IF Active(d) = {} /\ Day(d).state # "deleted" THEN NewId(d, "schedule")
           ELSE {}}

NextRevisionMutant(d, s) == d.schedule[s].revision
NextRevision(d, s) == d.schedule[s].revision + 1

Edited(d, s, map) ==
    [d EXCEPT !.schedule[s].map = map, !.schedule[s].revision = NextRevision(d, s)]

(* _resolve: only on the revision that the planner's page shows. *)
Resolved(d) ==
    {s \in ScheduleIds : /\ page.open /\ page.schedule = s /\ Mutable(d, s)
                         /\ d.schedule[s].revision = page.revision}

Moved(d, s, f, slot) == [d.schedule[s].map EXCEPT ![f] = slot]

AssignFixture(d) ==
    {Edited(d, x[1], Moved(d, x[1], x[2], x[3])) :
     x \in {y \in Resolved(d) \X Fixtures \X Slots :
               LET map == Moved(d, y[1], y[2], y[3])
               IN Distinct(map) /\ Errors(d, map) = {}}}

UnassignFixture(d) ==
    {Edited(d, x[1], Moved(d, x[1], x[2], NoSlot)) :
     x \in {y \in Resolved(d) \X Fixtures : y[2] \in Assigned(d.schedule[y[1]].map)}}

(* The solvers: whatever they find; they read the revision themselves.      *)
AutoSchedule(d) ==
    {Edited(d, x[1], x[2]) :
     x \in {y \in Active(d) \X Maps :
               /\ Mutable(d, y[1])
               /\ Errors(d, y[2]) = {} /\ y[2] # d.schedule[y[1]].map}}

(* The season board moves a fixture to a slot, whose fixture takes its old   *)
(* one, or off the day, and the day's plan with it.                          *)
BoardMove(d) ==
    {[Edited(d, x[1], x[3]) EXCEPT !.plan[x[2]] = x[3][x[2]] # NoSlot] :
     x \in {y \in Active(d) \X Fixtures \X Maps :
               LET before == d.schedule[y[1]].map
                   others == {f \in Fixtures \ {y[2]} : y[3][f] # before[f]} IN
               /\ Mutable(d, y[1]) /\ Day(d).state \notin {"open", "closed"}
               /\ y[3][y[2]] # before[y[2]]
               /\ \A f \in others : /\ before[f] = y[3][y[2]]
                                    /\ y[3][f] = before[y[2]] /\ before[y[2]] # NoSlot
               /\ Errors(d, y[3]) \ {y[2]} \subseteq Errors(d, before)}}

(* The calendar: allocations and slots stay editable. *)
ChangePlan(d) ==
    IF Day(d).state = "deleted" THEN {} ELSE {[d EXCEPT !.plan[f] = ~@] : f \in Fixtures}
EditSlot(d) ==
    IF Day(d).state = "deleted" THEN {} ELSE {[d EXCEPT !.slot[s] = @ + 1] : s \in Slots}

-----------------------------------------------------------------------------
(* Review. *)

(* submit, with the start of its review. *)
Submit(d, who) ==
    {[d EXCEPT !.schedule[x[1]].state = "ready_for_review",
               !.schedule[x[1]].revision = NextRevision(d, x[1]),
               !.review[x[2]] = [state |-> "pending", schedule |-> x[1],
                                 revision |-> NextRevision(d, x[1]),
                                 snapshot |-> Snapshot(d, x[1]), by |-> who,
                                 reviewer |-> 0]] :
     x \in {y \in Resolved(d) \X NewId(d, "review") :
               Valid(d, d.schedule[y[1]].map)}}

(* _resolve_pending: the schedule is still what was submitted. *)
Pending(d, who) ==
    {r \in ReviewIds :
        LET v == d.review[r] IN
        /\ v.state = "pending"
        /\ v.by # who \/ policy.self
        /\ d.schedule[v.schedule].revision = v.revision
        /\ Snapshot(d, v.schedule) = v.snapshot
        /\ d.schedule[v.schedule].state = "ready_for_review"}

Decided(d, r, decision, who) ==
    [d EXCEPT !.review[r] = [@ EXCEPT !.state = decision, !.reviewer = who],
              !.schedule[d.review[r].schedule].state = decision]

Approve(d, who) ==
    {Decided(d, r, "approved", who) :
     r \in {r \in Pending(d, who) : Valid(d, d.schedule[d.review[r].schedule].map)}}

RequestChanges(d, who) ==
    {Decided(d, r, "changes_requested", who) : r \in Pending(d, who)}

Withdraw(d) ==
    {[d EXCEPT !.review[r].state = "withdrawn",
               !.schedule[d.review[r].schedule].state = "changes_requested"] :
     r \in {r \in ReviewIds : /\ d.review[r].state = "pending"
                              /\ d.schedule[d.review[r].schedule].state
                                    = "ready_for_review"}}

-----------------------------------------------------------------------------
(* Publication. *)

(* _link_match_to_publication. *)
Linked(match, p, slot) == [match EXCEPT !.publication = p, !.slot = slot]

SameFactsMutant(a, b) == TRUE
SameFacts(a, b) == a.facts = b.facts

(* While a match day is open its publication is not replaced; once closed it *)
(* never is.                                                                *)
Replaceable == {"draft", "scheduled"}

ApprovedReviews(d, s) ==
    {r \in ReviewIds : /\ d.review[r].state = "approved" /\ d.review[r].schedule = s
                       /\ d.review[r].revision = d.schedule[s].revision}

(* _ensure_operational_matches. *)
WithMatches(d, s) ==
    [d EXCEPT !.match = [f \in Fixtures |->
        [d.match[f] EXCEPT !.exists =
            @ \/ (f \in Assigned(d.schedule[s].map) /\ d.match[f].teams)]]]

SupersededMutant(d) == d.publication
Superseded(d) ==
    [p \in PublicationIds |-> IF p \in Live(d)
                              THEN [d.publication[p] EXCEPT !.state = "superseded"]
                              ELSE d.publication[p]]

Published(d, s, r, p) ==
    LET e == WithMatches(d, s)
        map == d.schedule[s].map IN
    [e EXCEPT
        !.publication = [Superseded(d) EXCEPT ![p] =
            [state |-> "live", schedule |-> s, review |-> r, snapshot |-> Snapshot(e, s),
             version |-> 1 + Max({0} \cup {d.publication[q].version :
                               q \in Kept(d, "publication")})]],
        !.match = [f \in Fixtures |-> IF f \in Assigned(map) /\ e.match[f].exists
                                      THEN Linked(e.match[f], p, map[f])
                                      ELSE e.match[f]],
        !.schedule[s].state = "published",
        !.day[1] = [Day(d) EXCEPT !.state = "scheduled", !.current = p]]

Publish(d, expected) ==
    LET s == page.schedule
        r == Max(ApprovedReviews(d, s)) IN
    IF /\ d.schedule[s].state = "approved" /\ Day(d).state \in Replaceable
       /\ Valid(d, d.schedule[s].map)
       /\ ApprovedReviews(d, s) # {}
       /\ SameFacts(Snapshot(WithMatches(d, s), s), d.review[r].snapshot)
       /\ Live(d) = expected
    THEN {Published(d, s, r, p) : p \in NewId(d, "publication")}
    ELSE {}

(* The review button of the schedule form: policies may approve and publish  *)
(* at once.                                                                 *)
SubmitForReview(d, who) ==
    LET submitted == Submit(d, who)
        approved == UNION {Approve(e, who) : e \in submitted} IN
    IF policy.review THEN submitted
    ELSE IF ~policy.publish \/ Live(d) # {} THEN approved
    ELSE UNION {Publish(e, {}) : e \in approved}

(* action_create_revision. *)
Amend(d) ==
    {[d EXCEPT !.schedule[x[1]].state = "superseded", !.schedule[x[1]].replacedBy = x[2],
               !.schedule[x[2]] = [state |-> "changes_requested", revision |-> 0,
                                   map |-> d.schedule[x[1]].map, replacedBy |-> 0]] :
     x \in {y \in ScheduleIds \X NewId(d, "schedule") :
               /\ d.schedule[y[1]].state = "published" /\ Day(d).state # "open"
               /\ d.schedule[y[1]].replacedBy = 0}}

-----------------------------------------------------------------------------
(* Match-day operations, and results that decide a placeholder's teams. *)

OpenDay(d) ==
    IF Day(d).state = "scheduled" /\ Day(d).current \in Live(d)
    THEN {[d EXCEPT !.day[1] = [@ EXCEPT !.state = "open", !.session = Day(d).current]]}
    ELSE {}

CloseDay(d) ==
    IF Day(d).state = "open"
    THEN {[d EXCEPT !.day[1] = [@ EXCEPT !.state = "closed", !.session = NoPublication]]}
    ELSE {}

(* The deciding result is approved: the fixture gets its teams and its match, *)
(* and the match joins the publication that shows the fixture.               *)
LinkedOnArrivalMutant(d, f) == {}
LinkedOnArrival(d, f) ==
    {p \in Live(d) : f \in Assigned(d.schedule[d.publication[p].schedule].map)}

DecideTeams(d) ==
    {LET new == [d.match[f] EXCEPT !.teams = TRUE, !.exists = TRUE]
         live == LinkedOnArrival(d, f) IN
     [d EXCEPT !.match[f] =
        IF live = {} THEN new
        ELSE Linked(new, Max(live),
                    d.schedule[d.publication[Max(live)].schedule].map[f])] :
     f \in {f \in Fixtures : ~d.match[f].teams}}

-----------------------------------------------------------------------------
(* Planning that starts again: a day without reviews and publications is     *)
(* deleted, or replaced by a new one; a closed day is deleted with all its   *)
(* history and frees its matches.                                           *)

NoDay == [state |-> "deleted", current |-> NoPublication, session |-> NoPublication]
NewDay == [NoDay EXCEPT !.state = "draft"]

Discarded(rows) ==
    [i \in DOMAIN rows |-> IF rows[i] = NoRow THEN NoRow ELSE [state |-> "deleted"]]
WithoutPlans(d, day) ==
    [d EXCEPT !.day[1] = day, !.plan = [f \in Fixtures |-> FALSE],
              !.slot = [s \in Slots |-> 0], !.schedule = Discarded(@)]

Restartable(d) ==
    /\ Day(d).state \notin {"open", "closed", "deleted"}
    /\ Kept(d, "publication") = {} /\ Kept(d, "review") = {}
    /\ \A s \in Kept(d, "schedule") : Mutable(d, s)
RestartDay(d) == IF Restartable(d) THEN {WithoutPlans(d, NewDay)} ELSE {}

DeleteDay(d) ==
    IF Restartable(d) THEN {WithoutPlans(d, NoDay)}
    ELSE IF Day(d).state = "closed"
    THEN {[WithoutPlans(d, NoDay) EXCEPT
              !.review = Discarded(@), !.publication = Discarded(@),
              !.match = [f \in Fixtures |-> Linked(@[f], NoPublication, NoSlot)]]}
    ELSE {}

CreateDay(d) == IF Day(d).state = "deleted" THEN {[d EXCEPT !.day[1] = NewDay]} ELSE {}

-----------------------------------------------------------------------------
Commands == {"create", "edit", "calendar", "submit", "decide", "publish", "amend",
             "operate", "result", "restart", "delete"}

(* Foreign keys keep rows that a running transaction refers to. *)
ASSUME OverlapAssumption == Overlapping \subseteq Commands \ {"restart", "delete"}

Outcomes(c, d) ==
    CASE c = "create" -> CreateSchedule(d)
      [] c = "edit" -> AssignFixture(d) \cup UnassignFixture(d) \cup AutoSchedule(d)
                       \cup BoardMove(d)
      [] c = "calendar" -> ChangePlan(d) \cup EditSlot(d)
      [] c = "submit" -> UNION {SubmitForReview(d, who) : who \in People}
      [] c = "decide" -> Withdraw(d) \cup
                         UNION {Approve(d, who) \cup RequestChanges(d, who) : who \in People}
      [] c = "publish" -> IF page.open THEN Publish(d, page.live) ELSE {}
      [] c = "amend" -> Amend(d)
      [] c = "operate" -> OpenDay(d) \cup CloseDay(d)
      [] c = "result" -> DecideTeams(d)
      [] c = "restart" -> RestartDay(d) \cup CreateDay(d)
      [] c = "delete" -> DeleteDay(d)

Counted(c) ==
    IF c \in {"edit", "calendar"} THEN edits < MaxEdits /\ edits' = edits + 1
    ELSE UNCHANGED edits

(* A page whose schedule is deleted can do nothing any more.                 *)
Shown == page' = IF page.open /\ page.schedule \notin Kept(db', "schedule") THEN NoPage
                 ELSE page

Run(c) ==
    /\ slow.running => c \in Overlapping
    /\ Counted(c)
    /\ Commit(Outcomes(c, db))
    /\ Shown
    /\ UNCHANGED policy

RunSlowly(c) ==
    /\ c \in Overlapping
    /\ Counted(c)
    /\ Begin(Outcomes(c, db))
    /\ UNCHANGED <<policy, page>>

RunEnds == End /\ UNCHANGED <<policy, page, edits>>

LoadPage(s) ==
    /\ s \in Active(db)
    /\ page' = [open |-> TRUE, schedule |-> s, revision |-> db.schedule[s].revision,
                map |-> db.schedule[s].map, live |-> Live(db)]
    /\ UNCHANGED <<db, policy, slow, edits>>

Init ==
    /\ policy \in Policies
    /\ db = [day |-> <<[state |-> "draft", current |-> NoPublication,
                        session |-> NoPublication]>>,
             plan |-> [f \in Fixtures |-> TRUE],
             slot |-> [s \in Slots |-> 0],
             schedule |-> [s \in ScheduleIds |-> NoRow],
             review |-> [r \in ReviewIds |-> NoRow],
             publication |-> [p \in PublicationIds |-> NoRow],
             match |-> [f \in Fixtures |->
                           [teams |-> f \notin Placeholders, exists |-> FALSE,
                            publication |-> NoPublication, slot |-> NoSlot]]]
    /\ slow = NoTransaction /\ page = NoPage /\ edits = 0

Next ==
    \/ \E c \in Commands : Run(c) \/ RunSlowly(c)
    \/ RunEnds
    \/ \E s \in ScheduleIds : LoadPage(s)

Spec == Init /\ [][Next]_vars

-----------------------------------------------------------------------------
Everything == Kept(db, "publication")

(* What is published was reviewed: an approved review of this schedule shows *)
(* the same fixtures at the same times, and another person than its          *)
(* submitter gave it, unless the competition allows self-approval.           *)
ReviewedContent ==
    \A p \in Everything :
        LET pub == db.publication[p]
            rev == db.review[pub.review] IN
        /\ rev.state = "approved" /\ rev.schedule = pub.schedule
        /\ pub.snapshot.facts = rev.snapshot.facts
        /\ rev.reviewer # rev.by \/ policy.self

(* One publication is live, it is the newest, and it is the one that the     *)
(* match day shows.  A session that runs was opened for it, and its match    *)
(* day is still open.                                                       *)
OneLivePublication ==
    /\ Cardinality(Live(db)) <= 1
    /\ \A p \in Live(db) : Day(db).current = p
    /\ \A p, q \in Everything :
          /\ p # q => db.publication[p].version # db.publication[q].version
          /\ p \in Live(db) => db.publication[q].version <= db.publication[p].version
    /\ Day(db).session # NoPublication =>
          Day(db).state = "open" /\ Day(db).session \in Live(db)

(* The schedule behind the live publication still has the assignments that   *)
(* were published: new matches are put into its slots.                       *)
LivePlanKept ==
    \A p \in Live(db) :
        LET map == db.schedule[db.publication[p].schedule].map IN
        {<<f, map[f]>> : f \in Assigned(map)}
            = {<<x[1], x[2]>> : x \in db.publication[p].snapshot.facts}

(* A match that exists is linked to the live publication that shows its      *)
(* fixture, in the slot that was published.                                  *)
MatchesFollowLive ==
    \A p \in Live(db), f \in Fixtures :
        LET slot == db.schedule[db.publication[p].schedule].map[f] IN
        db.match[f].exists /\ slot # NoSlot
            => db.match[f] = Linked(db.match[f], p, slot)

(* Whoever changes a schedule with the revision on the page changes the      *)
(* assignments on the page: a revision stands for one set of assignments.    *)
RevisionNamesPlan ==
    page.open /\ db.schedule[page.schedule].revision = page.revision
        => db.schedule[page.schedule].map = page.map
=============================================================================
