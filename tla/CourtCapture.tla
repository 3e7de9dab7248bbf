---------------------------- MODULE CourtCapture ----------------------------
(***************************************************************************)
(* Score capture on a court: the drafts that operators keep on their       *)
(* devices, the command batches they send, and the server's one draft of   *)
(* the match with its receipts.                                            *)
(*                                                                         *)
(* A device edits with or without a connection.  Commands wait in its      *)
(* journal until one batch of all of them is acknowledged.  A request or   *)
(* its answer may be lost, a request may arrive long after its sender gave *)
(* it up, a page may die and be opened again.  The server handles a batch  *)
(* command by command in one transaction that holds the row of the match,  *)
(* and rolls all of it back when one command is refused.                   *)
(***************************************************************************)
EXTENDS Naturals, Sequences, FiniteSets

CONSTANTS
    Devices,           \* browsers, each with the account of one operator
    Scores,            \* home and away score, with the sets that give it, as
                       \* entered on court
    OfficeScores,      \* scores entered at the office
    Outcomes,          \* outcomes an operator may choose besides "normal"
    AfterSubmission,   \* where the result may be once submitted, by policy
    MaxEdits,          \* bound: edits of drafts
    MaxKeys,           \* bound: commands issued
    MaxPending,        \* bound: commands waiting on a device (100 in the code)
    MaxEvents          \* bound: calls without an answer, failed local writes,
                       \* closed pages, coordinator's decisions and changes
                       \* made elsewhere, all together

Holding == {"abandoned", "disputed"}
Unofficial == {"interrupted"} \cup Holding

ASSUME CourtAssumption ==
    /\ IsFiniteSet(Devices) /\ Scores # {}
    /\ Outcomes \subseteq Unofficial \cup {"forfeit_home", "forfeit_away"}
    /\ AfterSubmission \subseteq {"submitted", "verified", "approved"}
    /\ {MaxEdits, MaxKeys, MaxPending, MaxEvents} \subseteq Nat

Mutable == {"draft", "corrected"}
ResultStates == Mutable \cup {"submitted", "verified", "approved", "contested"}
AllScores == Scores \cup OfficeScores
Payloads == [score : Scores, outcome : Outcomes \cup {"normal", "abandoned"}]

VARIABLES
    match,      \* what a signature digests: publication, session, slot and
                \* deviations (context), result_state, and the scores
    capture,    \* the federation.court.capture of the match, once it exists
    receipts,   \* its receipts in the order of their ids
    incident,   \* an incident of this capture is unresolved
    sessionOpen, operators,   \* operators: devices whose court access is active
    app,        \* app[d]: the open page, or Closed
    journal,    \* journal[d]: what is in localStorage, or NoJournal
    waiting,    \* devices that wait for the answer to a batch
    net,        \* batches on their way
    txn,        \* the batch in the server's transaction, or NoTxn
    edits, issued, events,   \* counters of the bounds
    stored, exported   \* history: keys durably queued, keys given up after export

serverVars == <<match, capture, receipts, incident>>
officeVars == <<sessionOpen, operators>>
deviceVars == <<app, journal, stored, exported, edits, issued>>
vars == <<serverVars, officeVars, deviceVars, waiting, net, events, txn>>

NoJournal == [exists |-> FALSE]
Closed == [open |-> FALSE]
NoTxn == [running |-> FALSE]
Anything == [score |-> "any", outcome |-> "any"]

KeysOf(cmds) == {cmds[i].key : i \in DOMAIN cmds}
Receipted == KeysOf(receipts)

-----------------------------------------------------------------------------
(* The server's side of a request. *)

Signature == match

(* Access and session are read and share-locked before anything else. *)
Access(d) == d \in operators /\ sessionOpen

NewCapture(exists) ==
    [exists |-> exists, revision |-> 0, signature |-> Signature,
     payload |-> [score |-> match.score, outcome |-> "normal"],
     previous |-> Anything, undo |-> FALSE,
     submitted |-> FALSE, review |-> FALSE, closed |-> FALSE]
Capture == IF capture.exists THEN capture ELSE NewCapture(TRUE)

(* _response, with what the page derives from it. *)
Response(c, m) ==
    [revision |-> c.revision, signature |-> m, payload |-> c.payload,
     drifted |-> c.signature # m, undo |-> c.undo, review |-> c.review,
     locked |-> c.submitted \/ c.closed \/ m.state \notin Mutable]

Receipt(key, op, payload) == [key |-> key, op |-> op, payload |-> payload]

-----------------------------------------------------------------------------
(* The page and its journal.  A write to localStorage may fail: the page    *)
(* then keeps its state in memory only.                                     *)

JournalOf(a) ==
    [exists |-> TRUE, view |-> a.view, draft |-> a.draft,
     pending |-> a.pending, dirty |-> a.dirty]

Saved(d, a) ==
    /\ journal' = [journal EXCEPT ![d] = JournalOf(a)]
    /\ stored' = stored \cup KeysOf(a.pending)
Event == events < MaxEvents /\ events' = events + 1
Persist(d, a) ==
    \/ Saved(d, a) /\ UNCHANGED events
    \/ Event /\ UNCHANGED <<journal, stored>>

Show(d, a) == app' = [app EXCEPT ![d] = a]

UnsentMutant(cached) == cached.exists /\ cached.dirty
Unsent(cached) == cached.exists /\ (cached.dirty \/ cached.pending # <<>>)

(* What the page shows for a server answer and the journal it finds. *)
Restore(server, cached) ==
    IF ~Unsent(cached)
    THEN [open |-> TRUE, view |-> server, draft |-> server.payload,
          pending |-> <<>>, dirty |-> FALSE, conflict |-> server.drifted]
    ELSE [open |-> TRUE,
          view |-> [server EXCEPT !.revision = cached.view.revision,
                                  !.signature = cached.view.signature],
          draft |-> cached.draft, pending |-> cached.pending,
          dirty |-> cached.dirty,
          conflict |-> /\ cached.pending = <<>>
                       /\ \/ server.drifted
                          \/ cached.view.revision # server.revision
                          \/ cached.view.signature # server.signature]

OpenMatch(d) ==
    /\ ~app[d].open /\ Access(d) /\ ~txn.running
    /\ capture' = Capture
    /\ LET a == Restore(Response(Capture, match), journal[d]) IN
          /\ Show(d, a)
          /\ IF a.pending = <<>> /\ ~a.dirty
             THEN Persist(d, a) ELSE UNCHANGED <<journal, stored, events>>
    /\ UNCHANGED <<match, receipts, incident, officeVars, exported, edits, issued,
                   waiting, net, txn>>

(* Without a connection the page falls back to the snapshot it keeps. *)
OpenOffline(d) ==
    /\ ~app[d].open /\ journal[d].exists
    /\ Show(d, Restore(journal[d].view, journal[d]))
    /\ UNCHANGED <<serverVars, officeVars, journal, stored, exported, edits, issued,
                   waiting, net, events, txn>>

ClosePage(d) ==
    /\ app[d].open /\ Event
    /\ Show(d, Closed)
    /\ waiting' = waiting \ {d}
    /\ UNCHANGED <<serverVars, officeVars, journal, stored, exported, edits, issued,
                   net, txn>>

Locked(a) == a.view.locked \/ \E i \in DOMAIN a.pending : a.pending[i].op = "submit"
Usable(d) == app[d].open /\ d \notin waiting /\ ~app[d].conflict /\ ~Locked(app[d])

EditDraft(d, payload) ==
    /\ Usable(d) /\ payload # app[d].draft
    /\ edits < MaxEdits /\ edits' = edits + 1
    /\ LET a == [app[d] EXCEPT !.draft = payload, !.dirty = TRUE]
       IN Show(d, a) /\ Persist(d, a)
    /\ UNCHANGED <<serverVars, officeVars, exported, issued, waiting, net, txn>>

Offered(a, op) ==
    CASE op = "save" -> TRUE
      [] op = "undo" -> a.pending = <<>> /\ a.view.undo
      [] op = "submit" -> ~a.view.review /\ a.draft.outcome \notin Unofficial

(* The draft that the operator saw the command replace: history only. *)
Seen(a) ==
    IF a.pending = <<>> THEN a.view.payload
    ELSE LET c == a.pending[Len(a.pending)] IN
         IF c.op = "undo" THEN Anything ELSE c.payload

QueueCommand(d, op) ==
    /\ Usable(d) /\ Offered(app[d], op)
    /\ Len(app[d].pending) < MaxPending /\ issued < MaxKeys
    /\ issued' = issued + 1
    /\ LET a == app[d]
           c == [key |-> <<"command", issued'>>, op |-> op, payload |-> a.draft,
                 revision |-> a.view.revision + Len(a.pending),
                 signature |-> a.view.signature, seen |-> Seen(a)]
           b == [a EXCEPT !.pending = Append(@, c), !.dirty = FALSE]
       IN Show(d, b) /\ Persist(d, b)
    /\ UNCHANGED <<serverVars, officeVars, exported, edits, waiting, net, txn>>

(* A batch leaves only after its journal is written. *)
SendBatch(d) ==
    /\ app[d].open /\ d \notin waiting /\ ~app[d].conflict
    /\ app[d].pending # <<>>
    /\ Saved(d, app[d])
    /\ waiting' = waiting \cup {d}
    /\ net' = net \cup {[dev |-> d, cmds |-> app[d].pending, attempt |-> events]}
    /\ UNCHANGED <<serverVars, officeVars, app, exported, edits, issued, events, txn>>

(* The call fails without an answer; its batch may still be on its way, at   *)
(* the server, or done.                                                     *)
GiveUp(d) ==
    /\ d \in waiting /\ Event
    /\ waiting' = waiting \ {d}
    /\ UNCHANGED <<serverVars, officeVars, deviceVars, net, txn>>

-----------------------------------------------------------------------------
(* sync: one transaction for a batch. *)

Answered(m) == m.dev \in waiting /\ m.cmds = app[m.dev].pending

RefusedMutant(m) == UNCHANGED <<waiting, app>>
Refused(m) ==
    IF Answered(m)
    THEN /\ waiting' = waiting \ {m.dev}
         /\ app' = [app EXCEPT ![m.dev].conflict = TRUE]
    ELSE UNCHANGED <<waiting, app>>

BeginBatch(m) ==
    /\ m \in net /\ ~txn.running /\ Access(m.dev)
    /\ net' = net \ {m}
    /\ txn' = [running |-> TRUE, batch |-> m, left |-> m.cmds,
               capture |-> capture, receipts |-> receipts, match |-> match,
               incident |-> incident]
    /\ UNCHANGED <<serverVars, officeVars, deviceVars, waiting, events>>

DenyBatch(m) ==
    /\ m \in net /\ ~txn.running /\ ~Access(m.dev)
    /\ net' = net \ {m}
    /\ Refused(m)
    /\ UNCHANGED <<serverVars, officeVars, journal, stored, exported, edits, issued,
                   events, txn>>

Current == Head(txn.left)
AtCommand == txn.running /\ txn.left # <<>>

ReplayCommand ==
    /\ AtCommand /\ Current.key \in Receipted
    /\ txn' = [txn EXCEPT !.left = Tail(@)]
    /\ UNCHANGED <<serverVars, officeVars, deviceVars, waiting, net, events>>

FreshMutant(c) == c.signature = Signature /\ capture.signature = c.signature
Fresh(c) ==
    /\ c.revision = capture.revision
    /\ c.signature = Signature /\ capture.signature = c.signature

Open == ~capture.submitted /\ ~capture.closed /\ match.state \in Mutable

(* A hold outlives later drafts. *)
ReviewAfter(payload) == capture.review \/ payload.outcome \in Holding

NewPayload(c) == IF c.op = "undo" THEN capture.previous ELSE c.payload

AcceptableMutant(c) ==
    /\ Fresh(c) /\ Open
    /\ c.op = "undo" => capture.undo
    /\ c.op = "submit" => c.payload.outcome \notin Unofficial
Acceptable(c) ==
    /\ Fresh(c) /\ Open
    /\ c.op = "undo" => capture.undo
    /\ c.op = "submit" => ~capture.review /\ c.payload.outcome \notin Unofficial

ApplyCommand ==
    LET c == Current
        payload == NewPayload(c) IN
    /\ AtCommand /\ c.key \notin Receipted /\ Acceptable(c)
    /\ IF c.op = "submit"
       THEN \E s \in AfterSubmission :
               match' = [match EXCEPT !.score = payload.score, !.state = s]
       ELSE match' = match
    /\ capture' = [capture EXCEPT
                      !.payload = payload, !.previous = capture.payload,
                      !.undo = c.op = "save",
                      !.revision = @ + 1, !.signature = match',
                      !.review = ReviewAfter(payload),
                      !.submitted = c.op = "submit"]
    /\ incident' = (incident \/ (payload.outcome # "normal" /\ c.op # "undo"))
    /\ receipts' = Append(receipts, Receipt(c.key, c.op, payload))
    /\ txn' = [txn EXCEPT !.left = Tail(@)]
    /\ UNCHANGED <<officeVars, deviceVars, waiting, net, events>>

RefuseBatch ==
    /\ AtCommand /\ Current.key \notin Receipted /\ ~Acceptable(Current)
    /\ capture' = txn.capture /\ receipts' = txn.receipts
    /\ match' = txn.match /\ incident' = txn.incident
    /\ txn' = NoTxn
    /\ Refused(txn.batch)
    /\ UNCHANGED <<officeVars, journal, stored, exported, edits, issued, net, events>>

(* An acknowledged device takes over the server's draft, except for edits    *)
(* made after the batch was queued.                                          *)
CommitBatch ==
    /\ txn.running /\ txn.left = <<>>
    /\ txn' = NoTxn
    /\ LET m == txn.batch
           a == app[m.dev]
           now == Response(capture, match)
           b == [a EXCEPT !.view = now, !.pending = <<>>,
                          !.draft = IF a.dirty THEN a.draft ELSE now.payload,
                          !.conflict = /\ a.dirty
                                       /\ \/ now.signature # a.view.signature
                                          \/ now.revision # m.cmds[Len(m.cmds)].revision + 1]
       IN IF Answered(m)
          THEN Show(m.dev, b) /\ Persist(m.dev, b) /\ waiting' = waiting \ {m.dev}
          ELSE UNCHANGED <<app, journal, stored, waiting, events>>
    /\ UNCHANGED <<serverVars, officeVars, exported, edits, issued, net>>

-----------------------------------------------------------------------------
(* Reading the server again, and the two ways out of a conflict. *)

Idle(d) == app[d].open /\ d \notin waiting /\ Access(d) /\ ~txn.running

RefreshStatus(d) ==
    LET a == app[d]
        now == Response(capture, match)
        b == [a EXCEPT !.view = now, !.draft = now.payload]
        stale == now.revision # a.view.revision \/ now.signature # a.view.signature IN
    /\ Idle(d) /\ a.pending = <<>>
    /\ \/ a.dirty /\ stale /\ Show(d, [a EXCEPT !.conflict = TRUE])
                  /\ UNCHANGED <<journal, stored, events>>
       \/ ~a.dirty /\ Show(d, b) /\ Persist(d, b)
    /\ UNCHANGED <<serverVars, officeVars, exported, edits, issued, waiting, net, txn>>

(* The operator exports the evidence and takes the server's draft instead. *)
DiscardLocal(d) ==
    LET now == Response(capture, match)
        a == [open |-> TRUE, view |-> now, draft |-> now.payload, pending |-> <<>>,
              dirty |-> FALSE, conflict |-> now.drifted] IN
    /\ Idle(d) /\ app[d].conflict
    /\ Show(d, a) /\ Persist(d, a)
    /\ exported' = exported \cup KeysOf(app[d].pending)
    /\ UNCHANGED <<serverVars, officeVars, edits, issued, waiting, net, txn>>

(* The operator confirms the server's draft in the changed context; the      *)
(* answer may be lost.                                                       *)
Reconcile(d) ==
    LET a == app[d]
        c == [capture EXCEPT !.signature = Signature, !.revision = @ + 1]
        now == Response(c, match)
        b == [a EXCEPT !.view = now, !.draft = now.payload,
                       !.conflict = FALSE, !.dirty = FALSE] IN
    /\ Idle(d) /\ a.conflict /\ a.pending = <<>> /\ ~a.dirty /\ ~Locked(a)
    /\ a.view.revision = capture.revision
    /\ ~capture.submitted /\ match.state \in Mutable
    /\ capture' = c
    /\ receipts' = Append(receipts,
                      Receipt(<<"reconcile", c.revision>>, "reconcile", c.payload))
    /\ \/ Show(d, b) /\ Persist(d, b)
       \/ Event /\ UNCHANGED <<app, journal, stored>>
    /\ UNCHANGED <<match, incident, sessionOpen, operators, exported,
                   edits, issued, waiting, net, txn>>

-----------------------------------------------------------------------------
(* The coordinator, the match-day managers and the office. *)

UndecidedMutant == capture.exists
Undecided == capture.exists /\ ~capture.submitted

(* ResolveCourtException: resume, or confirm the abandonment. *)
Decide(outcome) ==
    LET payload == [capture.payload EXCEPT !.outcome = outcome] IN
    /\ Undecided /\ ~txn.running
    /\ incident => sessionOpen
    /\ Event
    /\ capture' = [capture EXCEPT !.payload = payload, !.previous = capture.payload,
                                  !.revision = @ + 1, !.review = FALSE,
                                  !.closed = outcome = "abandoned", !.undo = FALSE]
    /\ incident' = FALSE
    /\ receipts' = Append(receipts,
                      Receipt(<<"decision", capture'.revision>>, "decision", payload))
    /\ UNCHANGED <<match, sessionOpen, operators, deviceVars, waiting,
                   net, txn>>

ResolveIncident ==
    /\ incident /\ sessionOpen /\ ~txn.running
    /\ incident' = FALSE
    /\ UNCHANGED <<match, capture, receipts, officeVars, deviceVars, waiting, net,
                   events, txn>>

Elsewhere == ~txn.running /\ Event

(* A deviation of this match, or a new session or publication. *)
ChangeContext ==
    /\ Elsewhere /\ match' = [match EXCEPT !.context = @ + 1]
    /\ sessionOpen' = TRUE
    /\ UNCHANGED <<capture, receipts, incident, operators, deviceVars,
                   waiting, net, txn>>

CloseSession ==
    /\ Elsewhere /\ sessionOpen /\ sessionOpen' = FALSE
    /\ UNCHANGED <<serverVars, operators, deviceVars, waiting, net,
                   txn>>

SetAccess(d) ==
    /\ Elsewhere
    /\ operators' = IF d \in operators THEN operators \ {d} ELSE operators \cup {d}
    /\ UNCHANGED <<serverVars, sessionOpen, deviceVars, waiting, net,
                   txn>>

(* Results are also entered, reviewed and withdrawn at the office. *)
OfficeMoves ==
    (Mutable \X AfterSubmission) \cup ({"submitted"} \X {"verified", "approved"})
    \cup ({"submitted", "verified", "approved"} \X {"contested"})
    \cup ({"contested", "approved"} \X {"corrected"})
    \cup ((ResultStates \ {"draft"}) \X {"draft"}) \cup {<<"verified", "approved">>}

OfficeResult ==
    /\ Elsewhere
    /\ \/ \E mv \in OfficeMoves :
             match.state = mv[1] /\ match' = [match EXCEPT !.state = mv[2]]
       \/ match.state # "approved"
          /\ \E s \in OfficeScores \ {match.score} : match' = [match EXCEPT !.score = s]
    /\ UNCHANGED <<capture, receipts, incident, sessionOpen, operators,
                   deviceVars, waiting, net, txn>>
-----------------------------------------------------------------------------
Init ==
    /\ \E s \in Scores : match = [context |-> 0, state |-> "draft", score |-> s]
    /\ capture = NewCapture(FALSE) /\ receipts = <<>> /\ incident = FALSE
    /\ sessionOpen = TRUE /\ operators = Devices
    /\ app = [d \in Devices |-> Closed]
    /\ journal = [d \in Devices |-> NoJournal]
    /\ waiting = {} /\ net = {} /\ txn = NoTxn
    /\ edits = 0 /\ issued = 0 /\ events = 0
    /\ stored = {} /\ exported = {}

PageStep(d) ==
    \/ OpenMatch(d) \/ OpenOffline(d) \/ ClosePage(d)
    \/ \E p \in Payloads : EditDraft(d, p)
    \/ \E op \in {"save", "undo", "submit"} : QueueCommand(d, op)
    \/ RefreshStatus(d) \/ DiscardLocal(d) \/ Reconcile(d)

BatchStep ==
    \/ \E m \in net : BeginBatch(m) \/ DenyBatch(m)
    \/ ReplayCommand \/ ApplyCommand \/ RefuseBatch \/ CommitBatch

OfficeStep ==
    \/ \E outcome \in {"normal", "abandoned"} : Decide(outcome)
    \/ ResolveIncident \/ ChangeContext \/ CloseSession \/ OfficeResult
    \/ \E d \in Devices : SetAccess(d)

(* A running transaction reads no page before it answers, so what pages do  *)
(* meanwhile is the same as what they do before it.                         *)
Next ==
    \/ /\ ~txn.running
       /\ \E d \in Devices : PageStep(d) \/ SendBatch(d) \/ GiveUp(d)
    \/ BatchStep
    \/ OfficeStep

(* The page sends when the connection returns or the operator asks for it;  *)
(* what reached the server is handled.                                      *)
Fairness == WF_vars(BatchStep) /\ \A d \in Devices : WF_vars(~txn.running /\ SendBatch(d))

Spec == Init /\ [][Next]_vars /\ Fairness

-----------------------------------------------------------------------------
Drafts == [score : AllScores, outcome : Outcomes \cup {"normal", "abandoned"}] \cup {Anything}
Matches == [context : Nat, state : ResultStates, score : AllScores \cup {"any"}]
Ops == {"save", "undo", "submit"}
Commands == [key : {"command"} \X Nat, op : Ops, payload : Drafts, revision : Nat,
             signature : Matches, seen : Drafts]
Captures == [exists : BOOLEAN, revision : Nat, signature : Matches, payload : Drafts,
             previous : Drafts, undo : BOOLEAN, submitted : BOOLEAN,
             review : BOOLEAN, closed : BOOLEAN]
Receipts == [key : {"command", "decision", "reconcile"} \X Nat,
             op : Ops \cup {"decision", "reconcile"}, payload : Drafts]
Views == [revision : Nat, signature : Matches, payload : Drafts, drifted : BOOLEAN,
          undo : BOOLEAN, review : BOOLEAN, locked : BOOLEAN]
Pages == [open : {TRUE}, view : Views, draft : Drafts, pending : Seq(Commands),
          dirty : BOOLEAN, conflict : BOOLEAN]
Journals == [exists : {TRUE}, view : Views, draft : Drafts, pending : Seq(Commands),
             dirty : BOOLEAN]
Batches == [dev : Devices, cmds : Seq(Commands), attempt : Nat]
Txns == [running : {TRUE}, batch : Batches, left : Seq(Commands), capture : Captures,
         receipts : Seq(Receipts), match : Matches, incident : BOOLEAN]

(* Everything keeps its shape. *)
TypeOK ==
    /\ match \in Matches /\ capture \in Captures /\ receipts \in Seq(Receipts)
    /\ incident \in BOOLEAN /\ sessionOpen \in BOOLEAN /\ operators \subseteq Devices
    /\ app \in [Devices -> Pages \cup {Closed}]
    /\ journal \in [Devices -> Journals \cup {NoJournal}]
    /\ waiting \subseteq Devices /\ \A d \in waiting : app[d].open
    /\ net \subseteq Batches /\ txn \in Txns \cup {NoTxn}
    /\ edits \in Nat /\ issued \in Nat /\ events \in Nat

(* Retried, late and repeated batches: no command is applied twice, and      *)
(* nothing follows a submission.                                            *)
AppliedOnce ==
    /\ capture.revision = Len(receipts)
    /\ \A i, j \in DOMAIN receipts : receipts[i].key = receipts[j].key => i = j
    /\ \A i \in DOMAIN receipts : receipts[i].op = "submit" => i = Len(receipts)

(* No silent overwriting: whatever batch arrives, from whatever device and   *)
(* however late, a command of it that the server accepts replaces the very  *)
(* draft its operator saw.                                                  *)
InformedChange ==
    AtCommand /\ Current.key \notin Receipted /\ Acceptable(Current)
        => Current.seen \in {Anything, capture.payload}

(* A dispute or an abandonment that reached the server is decided by a      *)
(* coordinator before the match is submitted from any court device, whatever *)
(* outcome later drafts show.                                               *)
HoldNeedsDecision ==
    \A i, j \in DOMAIN receipts :
        /\ i < j
        /\ receipts[i].op \in {"save", "undo"} /\ receipts[i].payload.outcome \in Holding
        /\ receipts[j].op = "submit"
        => \E k \in i..j : receipts[k].op = "decision"

(* A command that a device confirmed as saved is never lost: it stays in the *)
(* device's journal until the server has its receipt or the operator has     *)
(* exported it, through failed writes, lost answers and closed pages.        *)
NoCommandVanishes ==
    \A k \in stored :
        \/ k \in exported
        \/ k \in (IF txn.running THEN KeysOf(txn.receipts) ELSE Receipted)
        \/ \E d \in Devices : journal[d].exists /\ k \in KeysOf(journal[d].pending)

(* Every queued batch is settled: acknowledged, or stopped by a conflict that *)
(* the operator sees, unless the page is closed.                             *)
BatchesSettle ==
    \A d \in Devices :
        (app[d].open /\ app[d].pending # <<>>)
            ~> (~app[d].open \/ app[d].pending = <<>> \/ app[d].conflict)
=============================================================================
