------------------------ MODULE MatchdayOperations --------------------------
(***************************************************************************)
(* A published match day as it is played: opening, changes to the plan,    *)
(* incidents, results, and its closing by a person or by itself.           *)
(*                                                                         *)
(* While it is open its publication is not replaced (SchedulePublication), *)
(* so the plan is a constant here.  Times are the start of a slot and the  *)
(* delays since.                                                           *)
(***************************************************************************)
EXTENDS FiniteSets, FiniteSetsExt, RepeatableRead

CONSTANTS
    Matches, Slots,
    Placeholders,      \* matches that exist once an earlier result is approved
    Plan,              \* the published slot of each match
    Overlapping,       \* commands that may overlap with one another
    DeviationIds, IncidentIds   \* bounds: ids the rows may take

ASSUME DayAssumption ==
    /\ Placeholders \subseteq Matches
    /\ Slots \subseteq Nat \ {0}
    /\ Plan \in [Matches -> Slots]
    /\ {DeviationIds, IncidentIds} \subseteq SUBSET (Nat \ {0})

VARIABLE due   \* the date of the match day has come

vars == <<db, slow, due>>

NoSlot == 0
NoDate == [slot |-> NoSlot, late |-> 0]

Day(d) == d.day[1]
IsOpen(d) == Day(d).state = "open"
Linked(d) == {m \in Matches : d.match[m].linked}
Unresolved(d) == {i \in IncidentIds : d.incident[i].state = "unresolved"}

-----------------------------------------------------------------------------
(* Opening. *)

Opened(d) == [d EXCEPT !.day[1].state = "open"]

OpenDay(d) == IF Day(d).state = "scheduled" THEN {Opened(d)} ELSE {}

(* On its date a day opens by itself, when there is something to play.      *)
AutoOpened(d) ==
    IF due /\ Day(d).state = "scheduled" /\ Linked(d) # {} THEN Opened(d) ELSE d

-----------------------------------------------------------------------------
(* Incidents; a court that is delayed or unavailable is one. *)

Reported(d) == {[d EXCEPT !.incident[i] = [state |-> "unresolved"]] :
                i \in NewId(d, "incident")}
ReportIncident(d) == IF IsOpen(d) THEN Reported(d) ELSE {}
ResolveIncident(d) ==
    IF IsOpen(d)
    THEN {[d EXCEPT !.incident[i].state = "resolved"] : i \in Unresolved(d)}
    ELSE {}

-----------------------------------------------------------------------------
(* Changes to the plan. *)

CurrentSlotMutant(d, m) == Plan[m]
CurrentSlot(d, m) == IF d.match[m].slot = NoSlot THEN Plan[m] ELSE d.match[m].slot

Occupied(d, m, s) ==
    \E n \in Matches \ {m} : /\ d.match[n].slot = s
                             /\ d.match[n].status \notin {"postponed", "cancelled"}

Moved(match, s) == [match EXCEPT !.slot = s, !.status = "moved",
                                 !.date = [slot |-> s, late |-> 0]]
Delayed(match, old) ==
    [match EXCEPT !.slot = old, !.status = "delayed",
                  !.date = [slot |-> IF @ = NoDate THEN old ELSE @.slot, late |-> @.late + 1]]
Postponed(match) == [match EXCEPT !.slot = NoSlot, !.status = "postponed", !.date = NoDate]
Cancelled(match) == [Postponed(match) EXCEPT !.status = "cancelled", !.state = "cancelled"]

(* Each change leaves its record and an incident, and writes its match even  *)
(* if no value changes.                                                     *)
Deviated(d, m, kind, new, match) ==
    {[e EXCEPT !.match[m] = [match EXCEPT !.writeDate = i],
               !.deviation[i] = [state |-> kind, match |-> m, new |-> new,
                                 old |-> CurrentSlot(d, m)]] :
     i \in NewId(d, "deviation"), e \in Reported(d)}

RecordDeviation(d) ==
    UNION {LET match == d.match[m]
               slots == {s \in Slots : ~Occupied(d, m, s)} IN
           (UNION {Deviated(d, m, "move", s, Moved(match, s)) : s \in slots})
           \cup Deviated(d, m, "delay", NoSlot, Delayed(match, CurrentSlot(d, m)))
           \cup Deviated(d, m, "postpone", NoSlot, Postponed(match))
           \cup Deviated(d, m, "cancel", NoSlot, Cancelled(match)) :
           m \in IF IsOpen(d) THEN Linked(d) ELSE {}}

-----------------------------------------------------------------------------
(* Closing. *)

Unfinished(d) == {m \in Linked(d) : d.match[m].state \notin {"done", "cancelled"}}
Waiting(d) == Matches \ Linked(d)
BlockedMutant(d) == Unfinished(d) \cup Waiting(d) # {}
Blocked(d) == Unresolved(d) # {} \/ Unfinished(d) \cup Waiting(d) # {}

Closed(d, how) == [d EXCEPT !.day[1] = [state |-> "closed", how |-> how]]

CloseDay(d) ==
    IF IsOpen(d)
    THEN {Closed(d, "forced")} \cup (IF Blocked(d) THEN {} ELSE {Closed(d, "complete")})
    ELSE {}

OfficialMutant(match) == match.state \in {"done", "cancelled"}
NeverCancelledMutant(match) == match.state = "done" /\ match.official
Official(match) == match.state = "cancelled" \/ (match.state = "done" /\ match.official)

(* It closes by itself when every match has its official result.             *)
AutoClosed(d) ==
    IF /\ IsOpen(d) /\ Linked(d) # {}
       /\ \A m \in Linked(d) : Official(d.match[m])
       /\ Unresolved(d) = {} /\ ~Blocked(d)
    THEN Closed(d, "automatic") ELSE d

MatchdayCron(d) == {AutoClosed(AutoOpened(d))} \ {d}

-----------------------------------------------------------------------------
(* Matches: their lifecycle, their results, and those that arrive late. *)

MoveMatch(d) ==
    {[d EXCEPT !.match[x[1]].state = x[2]] :
     x \in {y \in Linked(d) \X {"unfinished", "done", "cancelled"} :
               <<d.match[y[1]].state, y[2]>> \in {<<"unfinished", "done">>,
                   <<"unfinished", "cancelled">>, <<"cancelled", "unfinished">>}}}

ApproveResult(d) ==
    {AutoClosed([d EXCEPT !.match[m].official = TRUE,
                          !.match[m].state = IF @ = "cancelled" THEN @ ELSE "done"]) :
     m \in {m \in Linked(d) : ~d.match[m].official}}

WithdrawResult(d) ==
    {[d EXCEPT !.match[m].official = FALSE,
               !.match[m].state = IF @ = "done" THEN "unfinished" ELSE @] :
     m \in {m \in Linked(d) : d.match[m].official}}

PlannedMatch(m) == [linked |-> TRUE, state |-> "unfinished", official |-> FALSE,
                    slot |-> Plan[m], status |-> "as_published", writeDate |-> 0,
                    date |-> [slot |-> Plan[m], late |-> 0]]
NoMatch == [linked |-> FALSE, state |-> "none", slot |-> NoSlot, status |-> "none"]

Arrive(d) == {[d EXCEPT !.match[m] = PlannedMatch(m)] : m \in Waiting(d)}

-----------------------------------------------------------------------------
Commands == {"open", "report", "resolve", "deviate", "match", "result", "arrive",
             "close", "cron"}

Outcomes(c) ==
    CASE c = "open" -> OpenDay(db)
      [] c = "report" -> ReportIncident(db)
      [] c = "resolve" -> ResolveIncident(db)
      [] c = "deviate" -> RecordDeviation(db)
      [] c = "match" -> MoveMatch(db)
      [] c = "result" -> ApproveResult(db) \cup WithdrawResult(db)
      [] c = "arrive" -> Arrive(db)
      [] c = "close" -> CloseDay(db)
      [] c = "cron" -> MatchdayCron(db)

Run(c) ==
    /\ slow.running => c \in Overlapping
    /\ Commit(Outcomes(c))
    /\ UNCHANGED due

RunSlowly(c) == c \in Overlapping /\ Begin(Outcomes(c)) /\ UNCHANGED due

RunEnds == End /\ UNCHANGED due

DateComes == ~due /\ due' = TRUE /\ UNCHANGED <<db, slow>>

Init ==
    /\ db = [day |-> <<[state |-> "scheduled", how |-> "not closed"]>>,
             match |-> [m \in Matches |->
                           IF m \in Placeholders THEN NoMatch ELSE PlannedMatch(m)],
             deviation |-> [i \in DeviationIds |-> NoRow],
             incident |-> [i \in IncidentIds |-> NoRow]]
    /\ slow = NoTransaction /\ due = FALSE

Next == \/ \E c \in Commands : Run(c) \/ RunSlowly(c)
        \/ RunEnds
        \/ DateComes

(* The cron runs on, and no transaction stays open.                         *)
Spec == Init /\ [][Next]_vars /\ WF_vars(Run("cron")) /\ WF_vars(RunEnds)

-----------------------------------------------------------------------------
(* The slot that a recorded change leaves its match in.                     *)
LeftIn(v) == CASE v.state = "move" -> v.new
               [] v.state = "delay" -> v.old
               [] OTHER -> NoSlot
Log(m) == {i \in DeviationIds : db.deviation[i] # NoRow /\ db.deviation[i].match = m}
Delays(m) == {i \in Log(m) : \A j \in Log(m) : j >= i => db.deviation[j].state = "delay"}

(* The recorded changes of a match are a chain from its published slot to    *)
(* the slot and time it has now, whoever recorded them at the same time.     *)
DeviationsExplainSlots ==
    \A m \in Linked(db) :
        LET SlotAfter(log) ==
                IF log = {} THEN Plan[m] ELSE LeftIn(db.deviation[Max(log)])
            match == db.match[m] IN
        /\ \A i \in Log(m) :
              LET before == SlotAfter({j \in Log(m) : j < i}) IN
              db.deviation[i].old = IF before = NoSlot THEN Plan[m] ELSE before
        /\ match.slot = SlotAfter(Log(m))
        /\ match.date = IF match.slot = NoSlot THEN NoDate
                        ELSE [slot |-> match.slot, late |-> Cardinality(Delays(m))]

(* Nothing is left behind on a day that was closed without force: no         *)
(* incident that nobody can resolve any more, no fixture without its match.  *)
NothingLeftBehind ==
    Day(db).how \in {"complete", "automatic"} =>
        Unresolved(db) = {} /\ Waiting(db) = {}

(* A day does not close by itself before every match that was played has an  *)
(* official result.                                                         *)
ClosesOnOfficialResults ==
    [][Day(db').how = "automatic" /\ Day(db).how # "automatic"
        => \A m \in Matches : /\ db'.match[m].linked
                              /\ \/ db'.match[m].state = "cancelled"
                                 \/ /\ db'.match[m].state = "done"
                                    /\ db'.match[m].official]_vars

(* A day whose date has come opens, and one whose results are official and   *)
(* whose incidents are resolved closes, without anybody's doing.             *)
Complete ==
    /\ IsOpen(db) /\ Linked(db) = Matches /\ Unresolved(db) = {}
    /\ \A m \in Matches : \/ db.match[m].state = "cancelled"
                          \/ db.match[m].state = "done" /\ db.match[m].official
DayRunsItself ==
    /\ (due /\ Day(db).state = "scheduled" /\ Linked(db) # {})
            ~> Day(db).state # "scheduled"
    /\ Complete ~> ~Complete
=============================================================================
