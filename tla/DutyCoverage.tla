---------------------------- MODULE DutyCoverage ------------------------------
(***************************************************************************)
(* The officials of one published match: who is assigned, who accepted for *)
(* which schedule, who came, which clubs owe somebody, the dialogs with    *)
(* which coordinators resolve gaps, and the to-do of an overdue match.     *)
(*                                                                         *)
(* Commands lock the match with SELECT ... FOR UPDATE, but not all of them *)
(* write it: those that end with _coverage_sync_escalations mostly do.     *)
(***************************************************************************)
EXTENDS FiniteSets, FiniteSetsExt, RepeatableRead

CONSTANTS
    Officials,
    Clubs, Members,        \* the officials that play for each club
    Coordinators, Nobody,  \* who may own the coverage of a match
    Owners,                \* who may own it at first
    Times,                 \* how near the match may be
    Required,              \* officials that the rules require
    Slow, Meanwhile,       \* commands that may be slow, and that run meanwhile
    AssignmentIds, TodoIds,   \* bounds: ids the rows may take
    MaxChanges             \* bound: changes of schedule, people and to-dos

ASSUME CoverageAssumption ==
    /\ Members \in [Clubs -> SUBSET Officials]
    /\ Nobody \notin Officials \cup Coordinators
    /\ Owners \subseteq Coordinators \cup {Nobody}
    /\ Times \subseteq 0..3
    /\ {AssignmentIds, TodoIds} \subseteq SUBSET (Nat \ {0})
    /\ {Required, MaxChanges} \subseteq Nat

VARIABLES
    now,      \* how near the match is: one of Times
    fit,      \* officials with a certificate and the time
    checked,  \* the last that happened was a run of the cron
    changes   \* counter of the bound

vars == <<db, slow, now, fit, checked, changes>>

(* Before these, a match is early (0). *)
NominationDue == 1
ResponseDue == 2
Kickoff == 3

NoTerms == [plan |-> 0, slot |-> 0]
NoAssignment == 0

Match(d) == d.match[1]
Assigned(d) == {a \in AssignmentIds : d.assignment[a] # NoRow}
Active(d) == {a \in Assigned(d) : d.assignment[a].state # "cancelled"}
Owed(d) == {c \in Clubs : d.duty[c] # NoRow}
ActiveFor(d, o) == {a \in Active(d) : d.assignment[a].official = o}

-----------------------------------------------------------------------------
(* Derived facts. *)

(* _coverage_signature: the publication, and the time and court of the slot. *)
Terms(d) == [plan |-> Match(d).plan, slot |-> d.slot[1]]

IsCurrent(d) == Match(d).stage # "off"

(* _coverage_issues.  Overlapping duties and games are among what makes an  *)
(* official unfit.                                                          *)
NoIssues(d, o) == IsCurrent(d) /\ o \in fit

Accepted(d, a) ==
    LET r == d.assignment[a]
    IN r.state \in {"confirmed", "done"} /\ r.accepted # NoTerms /\ r.accepted = Terms(d)
Eligible(d, a) == NoIssues(d, d.assignment[a].official)
Ready(d, a) == Accepted(d, a) /\ Eligible(d, a)
Present(d, a) == d.assignment[a].present # NoTerms /\ Ready(d, a)

Requirement(d) == Max({Required, Cardinality(Owed(d))})
PendingDuties(d) ==
    {c \in Owed(d) :
        LET a == d.duty[c].assignment IN
        \/ d.duty[c].state # "confirmed" \/ a = NoAssignment
        \/ a \notin Active(d) \/ ~Ready(d, a)}

CoverageState(d) ==
    IF ~IsCurrent(d) THEN "unchecked"
    ELSE IF Requirement(d) = 0 THEN "not_required"
    ELSE IF Cardinality(Active(d)) < Requirement(d) THEN "uncovered"
    ELSE IF PendingDuties(d) # {} \/ \E a \in Active(d) : ~Ready(d, a) THEN "needs_action"
    ELSE "ready"

(* Whoever came is missed from the kickoff on. *)
Absent(d) ==
    now = Kickoff /\ Cardinality({a \in Active(d) : Present(d, a)}) < Requirement(d)

-----------------------------------------------------------------------------
(* The to-do of an overdue match. *)

Overdue(d) ==
    /\ Match(d).stage = "live"
    /\ CoverageState(d) \notin {"ready", "not_required"} \/ Absent(d)
    /\ \/ now >= ResponseDue
       \/ now >= NominationDue /\ \E c \in Owed(d) :
             d.duty[c].state \in {"draft", "open", "rejected"}

NoSignature == [state |-> "none"]
Signature(d) ==
    [state |-> CoverageState(d), absent |-> Absent(d), owner |-> Match(d).owner,
     short |-> Requirement(d) - Cardinality(Active(d)), duties |-> PendingDuties(d),
     waiting |-> {a \in Active(d) : ~Ready(d, a)}]

Todos(d) == {t \in TodoIds : d.todo[t] # NoRow}

(* A write of the ORM also writes write_date: the row changes even if nothing *)
(* else of it does.                                                         *)
Escalated(d, signature) ==
    [d EXCEPT !.match[1] = [@ EXCEPT !.signature = signature, !.write_date = TRUE],
              !.todo = [t \in TodoIds |-> NoRow]]
Settled(d) == [d EXCEPT !.match[1].write_date = FALSE]

(* _coverage_sync_escalations. *)
Known(d) == Match(d).signature = Signature(d) /\ Todos(d) # {}
Sync(d) ==
    IF ~Overdue(d) THEN {Escalated(d, NoSignature)}
    ELSE IF Match(d).owner = Nobody \/ Known(d) THEN {d}
    ELSE LET cleared == Escalated(d, Signature(d))
         IN {[cleared EXCEPT !.todo[t] = [state |-> "open", owner |-> Match(d).owner]] :
             t \in NewId(cleared, "todo")}
Synced(outcomes) == UNION {Sync(d) : d \in outcomes}

(* cron_escalate_coverage, and a manager's refresh.  A match that is off has  *)
(* nothing to clear unless it has a signature.                              *)
CronDomainMutant(d) == Match(d).stage = "live"
CronDomain(d) == Match(d).stage = "live" \/ Match(d).signature # NoSignature
Escalate(d) == IF CronDomain(d) THEN Sync(d) ELSE {d}

-----------------------------------------------------------------------------
(* Assignments. *)

NewAssignment(o, replaces) ==
    [state |-> "draft", official |-> o, accepted |-> NoTerms, seen |-> NoTerms,
     present |-> NoTerms, replaces |-> replaces]
Created(d, o, replaces) ==
    {[d EXCEPT !.assignment[a] = NewAssignment(o, replaces)] :
     a \in NewId(d, "assignment")}

Assign(d) ==
    UNION {Created(d, o, NoAssignment) : o \in {o \in Officials : ActiveFor(d, o) = {}}}

(* An official answers on a page that may be old: it shows some terms.      *)
Shown(d, seen) == seen = Terms(d)
Pages(d) == [plan : 1..Match(d).plan, slot : 1..d.slot[1]]

Outstanding(d) ==
    {a \in Assigned(d) : d.assignment[a].state \in {"draft", "confirmed"} /\ ~Accepted(d, a)}

(* The evidence that a cancelled assignment keeps is history. *)
Off(r) == [r EXCEPT !.state = "cancelled", !.accepted = NoTerms, !.seen = NoTerms,
                    !.present = NoTerms]

Accept(d) ==
    Synced({[d EXCEPT !.assignment[x[1]] =
               [@ EXCEPT !.state = "confirmed", !.accepted = Terms(d), !.seen = x[2],
                         !.present = NoTerms]] :
            x \in {x \in Outstanding(d) \X Pages(d) : Shown(d, x[2]) /\ Eligible(d, x[1])}})
Decline(d) ==
    IF Match(d).stage # "live" THEN {}
    ELSE Synced({[d EXCEPT !.assignment[x[1]] = Off(@)] :
                 x \in {x \in Outstanding(d) \X Pages(d) : Shown(d, x[2])}})

MarkPresent(d) ==
    Synced({IF d.assignment[a].present # NoTerms THEN d
            ELSE [d EXCEPT !.assignment[a].present = Terms(d)] :
            a \in {a \in Active(d) : Ready(d, a)}})
ClearPresence(d) ==
    {[d EXCEPT !.assignment[a].present = NoTerms] :
     a \in {a \in Assigned(d) : d.assignment[a].state # "done"}}
Complete(d) ==
    Synced({[d EXCEPT !.assignment[a].state = "done"] :
            a \in {a \in Active(d) : d.assignment[a].state = "confirmed" /\ Present(d, a)}})

Cancelled(d, a) ==
    IF a \in Active(d) THEN [d EXCEPT !.assignment[a] = Off(@)] ELSE d
Cancel(d) ==
    Synced({Cancelled(d, a) : a \in {a \in Assigned(d) : d.assignment[a].state # "done"}})

Successors(d, a) == {b \in Assigned(d) : d.assignment[b].replaces = a}
Resettable(d, a) == d.assignment[a].state # "done" /\ Successors(d, a) = {}
Reset(d) ==
    {[d EXCEPT !.assignment[a] = NewAssignment(@.official, @.replaces)] :
     a \in {a \in Assigned(d) : /\ Resettable(d, a)
                                /\ ActiveFor(d, d.assignment[a].official) \subseteq {a}}}

(* The index on active assignments. *)
TwiceActive(d) == \E o \in Officials : Cardinality(ActiveFor(d, o)) > 1

-----------------------------------------------------------------------------
(* Club duties. *)

InDuty(d, states) == {c \in Owed(d) : d.duty[c].state \in states}

(* Publication and the wizards create and open the duty. *)
Request(d, c) ==
    IF c \notin Owed(d)
    THEN {[d EXCEPT !.duty[c] = [state |-> "open", nominee |-> Nobody,
                                 assignment |-> NoAssignment]]}
    ELSE IF d.duty[c].state = "draft" THEN {[d EXCEPT !.duty[c].state = "open"]}
    ELSE {d}
Nominate(d) ==
    IF Match(d).stage # "live" THEN {}
    ELSE UNION {{[d EXCEPT !.duty[c] = [@ EXCEPT !.state = "nominated", !.nominee = o]] :
                 o \in Members[c]} : c \in InDuty(d, {"open", "rejected"})}

(* action_confirm: the nominated duty gets an assignment. *)
Link(d, c) ==
    IF Match(d).stage # "live" \/ c \notin InDuty(d, {"nominated"}) THEN {}
    ELSE LET o == d.duty[c].nominee
             found == ActiveFor(d, o) IN
         UNION {{[e EXCEPT !.duty[c] = [@ EXCEPT !.state = "confirmed", !.assignment = a]] :
                 a \in ActiveFor(e, o)} :
                e \in IF found = {} THEN Created(d, o, NoAssignment) ELSE {d}}
Reject(d) == {[d EXCEPT !.duty[c].state = "rejected"] : c \in InDuty(d, {"nominated"})}
CancelDuty(d) ==
    {[d EXCEPT !.duty[c] = [state |-> "draft", nominee |-> Nobody,
                            assignment |-> NoAssignment]] :
     c \in {c \in Owed(d) : d.duty[c].state # "confirmed"}}
Reopen(d, c) ==
    IF c \in Owed(d) /\ d.duty[c].assignment \notin Active(d)
    THEN {[d EXCEPT !.duty[c].state = "rejected"]} ELSE {}

-----------------------------------------------------------------------------
(* The dialog Resolve / replace. *)

AssignOne(d, o) ==
    IF ~NoIssues(d, o) THEN {}
    ELSE IF ActiveFor(d, o) # {} THEN {d} ELSE Created(d, o, NoAssignment)

Serves(d, a) == {c \in Owed(d) : d.duty[c].assignment = a}
Replaced(d, old, o) ==
    {[Cancelled(e, old) EXCEPT
        !.duty = [c \in Clubs |->
            IF c \in Serves(d, old)
            THEN [state |-> "confirmed", nominee |-> o,
                  assignment |-> CHOOSE a \in ActiveFor(e, o) : TRUE]
            ELSE d.duty[c]]] :
     e \in Created(d, o, old)}
Replace(d, old, o) ==
    IF /\ d.assignment[old].state # "done" /\ Successors(d, old) = {}
       /\ o # d.assignment[old].official /\ ActiveFor(d, o) = {} /\ NoIssues(d, o)
       /\ \A c \in Serves(d, old) : o \in Members[c]
    THEN Replaced(d, old, o) ELSE {}

Resolutions(d) ==
    UNION ({AssignOne(d, o) : o \in Officials}
           \cup {Replace(d, x[1], x[2]) : x \in Assigned(d) \X Officials}
           \cup {Request(d, c) \cup Link(d, c) \cup Reopen(d, c) : c \in Clubs})

(* A wizard acts once, and only if its signature is still that of the match, *)
(* its assignments and its duties: as if it were opened when it is applied. *)
Apply(d) == IF Match(d).stage = "live" THEN Synced(Resolutions(d)) ELSE {}

-----------------------------------------------------------------------------
(* Elsewhere: publications and day-of moves write the match, the calendar   *)
(* writes a slot.                                                           *)
Replan(d) ==
    {[d EXCEPT !.match[1] = [@ EXCEPT !.plan = Match(d).plan + 1, !.stage = stage]] :
     stage \in IF Match(d).stage = "done" THEN {} ELSE {"live", "off"}}
EditSlot(d) == {[d EXCEPT !.slot[1] = @ + 1]}
HandOver(d) ==
    {[d EXCEPT !.match[1].owner = u] :
     u \in IF Match(d).owner = Nobody THEN {} ELSE Coordinators \ {Match(d).owner}}
Dismiss(d) == {[d EXCEPT !.todo[t] = NoRow] : t \in Todos(d)}
PlayMatch(d) ==
    IF Match(d).stage = "live" THEN {[d EXCEPT !.match[1].stage = "done"]} ELSE {}

-----------------------------------------------------------------------------
OfMatch == {"assign", "accept", "decline", "present", "absent", "complete", "cancel",
            "reset", "club", "resolve", "escalate"}
OfOthers == {"replan", "slot", "owner", "dismiss", "play"}

Outcomes(c, d) ==
    CASE c = "assign" -> Assign(d)
      [] c = "accept" -> Accept(d)
      [] c = "decline" -> Decline(d)
      [] c = "present" -> MarkPresent(d)
      [] c = "absent" -> ClearPresence(d)
      [] c = "complete" -> Complete(d)
      [] c = "cancel" -> Cancel(d)
      [] c = "reset" -> Reset(d)
      [] c = "club" -> Nominate(d) \cup Reject(d) \cup CancelDuty(d)
                       \cup UNION {Request(d, k) \cup Link(d, k) \cup Reopen(d, k) : k \in Clubs}
      [] c = "resolve" -> Apply(d)
      [] c = "escalate" -> Escalate(d)
      [] c = "replan" -> Replan(d)
      [] c = "slot" -> EditSlot(d)
      [] c = "owner" -> HandOver(d)
      [] c = "dismiss" -> Dismiss(d)
      [] c = "play" -> PlayMatch(d)

(* _coverage_lock: the match and the assignments of the command; a resolution *)
(* also locks what it replaces.                                             *)
LocksMutant(c, new) == {}
Locks(c, new) ==
    IF c \in OfOthers THEN {}
    ELSE {<<"match", 1>>}
         \cup {<<"assignment", new.assignment[a].replaces>> :
               a \in Assigned(new) \ Assigned(db)}

Counted(c) ==
    IF c \in OfOthers THEN changes < MaxChanges /\ changes' = changes + 1
    ELSE UNCHANGED changes

Run(c) ==
    /\ slow.running => c \in Meanwhile
    /\ Counted(c)
    /\ CommitSettled(Outcomes(c, db), Settled)
    /\ checked' = (c = "escalate")
    /\ UNCHANGED <<now, fit>>

RunSlowly(c) ==
    /\ c \in Slow
    /\ Counted(c)
    /\ BeginLocking(Outcomes(c, db), LAMBDA new : Locks(c, new))
    /\ UNCHANGED <<now, fit, checked>>

RunEnds ==
    /\ EndSettled(TwiceActive, Settled)
    /\ checked' = FALSE
    /\ UNCHANGED <<now, fit, changes>>

TimePasses ==
    /\ changes < MaxChanges /\ changes' = changes + 1
    /\ \E t \in Times : now < t /\ now' = t
    /\ checked' = FALSE
    /\ UNCHANGED <<db, slow, fit>>

FitnessChanges(o) ==
    /\ changes < MaxChanges /\ changes' = changes + 1
    /\ fit' = IF o \in fit THEN fit \ {o} ELSE fit \cup {o}
    /\ checked' = FALSE
    /\ UNCHANGED <<db, slow, now>>

Init ==
    /\ \E u \in Owners :
          db = [match |-> <<[plan |-> 1, stage |-> "live", owner |-> u,
                             signature |-> NoSignature, write_date |-> FALSE]>>,
                slot |-> <<1>>,
                assignment |-> [a \in AssignmentIds |-> NoRow],
                duty |-> [c \in Clubs |-> NoRow],
                todo |-> [t \in TodoIds |-> NoRow]]
    /\ slow = NoTransaction /\ now \in Times /\ fit = Officials
    /\ checked = FALSE /\ changes = 0

Next ==
    \/ \E c \in OfMatch \cup OfOthers : Run(c) \/ RunSlowly(c)
    \/ RunEnds
    \/ TimePasses
    \/ \E o \in Officials : FitnessChanges(o)

Spec == Init /\ [][Next]_vars

-----------------------------------------------------------------------------
Evidence(d, a) ==
    IF a \notin Assigned(d) THEN {}
    ELSE LET r == d.assignment[a] IN
         {<<"accepted", r.accepted>>, <<"present", r.present>>, <<"done", r.state = "done">>}
            \ {<<"accepted", NoTerms>>, <<"present", NoTerms>>, <<"done", FALSE>>}

(* Whoever counts as accepted saw the schedule in force when accepting, and  *)
(* whoever counts as present came for it.  No evidence is recorded for a     *)
(* publication that is replaced by the time the record is there; a duty is   *)
(* completed on an acceptance and an attendance that are for this publication. *)
EvidenceOnTheseTerms ==
    [][\A a \in Assigned(db') :
        LET r == db'.assignment[a] IN
        /\ Accepted(db', a) => r.seen = Terms(db')
        /\ Accepted(db', a) /\ r.present # NoTerms => r.present = Terms(db')
        /\ Evidence(db', a) \ Evidence(db, a) # {} =>
              /\ r.accepted.plan = Match(db').plan
              /\ r.state = "done" => r.present = r.accepted]_vars

(* An assignment that was replaced stays out, and one other takes its place: *)
(* while somebody coordinates the match, commands write its row, which is    *)
(* what makes them fail on one another.                                      *)
ReplacedForGood ==
    Match(db).owner # Nobody =>
        \A a \in Assigned(db) :
            Successors(db, a) # {} =>
                a \notin Active(db) /\ Cardinality(Successors(db, a)) = 1

(* Each run of the cron leaves the coordinator of an overdue match with one  *)
(* to-do, about what is missing now, and without one once nothing is.        *)
TodosCatchUp ==
    checked =>
        IF Overdue(db)
        THEN Match(db).owner # Nobody =>
                /\ Match(db).signature = Signature(db)
                /\ \E t \in TodoIds :
                      Todos(db) = {t} /\ db.todo[t].owner = Match(db).owner
        ELSE Todos(db) = {}
=============================================================================
