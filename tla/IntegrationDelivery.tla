------------------------- MODULE IntegrationDelivery -------------------------
(***************************************************************************)
(* What a partner sends by the integration interface, until it is imported: *)
(* deliveries staged once however often they are sent, the wizards in which *)
(* operators preview, correct and import them, the jobs in which managers   *)
(* approve that, and the retention of what is finished.                     *)
(*                                                                         *)
(* No command locks a row.  Requests of one partner exclude one another     *)
(* because each writes the row of the partner that it authenticates.        *)
(***************************************************************************)
EXTENDS FiniteSets, RepeatableRead

CONSTANTS
    Contents, Labels,      \* payloads, and what else a request says of them
    Uploads,               \* files of the operators
    Keys, NoKey,           \* idempotency keys, and a request without one
    Slow, Meanwhile,       \* commands that may be slow, and that run meanwhile
    DeliveryIds, WizardIds, JobIds, ReplyIds, RunIds,   \* bounds: ids of rows
    MaxEdits,              \* bound: edits of a wizard
    MaxChanges             \* bound: cancelled deliveries, purges, new templates

ASSUME DeliveryAssumption ==
    /\ NoKey \notin Keys
    /\ {DeliveryIds, WizardIds, JobIds, ReplyIds, RunIds} \subseteq SUBSET (Nat \ {0})
    /\ {MaxEdits, MaxChanges} \subseteq Nat

VARIABLES edits, changes   \* counters of the bounds

vars == <<db, slow, edits, changes>>

None == 0
NoContent == [content |-> "none"]

Exists(d, t) == {i \in DOMAIN d[t] : d[t][i] # NoRow /\ d[t][i].state # "purged"}
Deliveries(d) == Exists(d, "delivery")
Template(d) == d.template[1]

(* Rows that are inserted: the id is the sequence's next. *)
Inserted(d, t, row) == {[d EXCEPT ![t][i] = row] : i \in NewId(d, t)}

-----------------------------------------------------------------------------
(* Staging.  A partner repeats a request of which it got no answer. *)

Requests == [content : Contents, label : Labels]

ActiveStates == {"staged", "previewed", "awaiting_approval", "approved"}
Terminal == {"processed", "processed_with_errors", "failed", "cancelled"}

(* authenticate_partner: every write of the ORM changes write_date. *)
AuthenticatedMutant(d) == d
Authenticated(d) == [d EXCEPT !.partner[1].write_date = TRUE]
Settled(d) == [d EXCEPT !.partner[1].write_date = FALSE]

Keyed(d, key) == {i \in Deliveries(d) : key # NoKey /\ d.delivery[i].key = key}
Duplicates(d, content) ==
    {i \in Deliveries(d) : /\ d.delivery[i].content = content
                           /\ d.delivery[i].state \in ActiveStates}

(* History: the answers to requests with a key. *)
Reply(d, i, key, request) ==
    IF key = NoKey THEN {d}
    ELSE Inserted(d, "reply",
                  [state |-> "sent", delivery |-> i, key |-> key, request |-> request])

(* _match_idempotent_delivery: a key stands for one request. *)
Replay(d, key, request) ==
    UNION {Reply(d, i, key, request) :
           i \in {i \in Keyed(d, key) : d.delivery[i].fingerprint = request}}

(* _reuse_staged_payload: the newest one, which takes the key if it has none. *)
Attached(d, i, key, request) ==
    IF key # NoKey /\ d.delivery[i].key = NoKey
    THEN [d EXCEPT !.delivery[i] = [@ EXCEPT !.key = key, !.fingerprint = request]] ELSE d
Reusable(d, i, key) == key = NoKey \/ d.delivery[i].key \in {NoKey, key}
Newest(ids) == {i \in ids : \A j \in ids : i >= j}
Reuse(d, key, request) ==
    UNION {Reply(Attached(d, i, key, request), i, key, request) :
           i \in {i \in Newest(Duplicates(d, request.content)) : Reusable(d, i, key)}}

(* _create_staged_delivery.  "left": it was out of the active states once.  *)
NewDelivery(key, request) ==
    [state |-> "staged", content |-> request.content, key |-> key, job |-> None,
     fingerprint |-> IF key = NoKey THEN NoContent ELSE request, left |-> FALSE]
CreateStaged(d, key, request) ==
    UNION {Reply([d EXCEPT !.delivery[i] = NewDelivery(key, request)], i, key, request) :
           i \in NewId(d, "delivery")}

(* stage_partner_delivery_result. *)
Stage(d, key, request) ==
    IF Keyed(d, key) # {} THEN Replay(d, key, request)
    ELSE IF Duplicates(d, request.content) # {} THEN Reuse(d, key, request)
    ELSE CreateStaged(d, key, request)
StageRequest(d) ==
    UNION {Stage(Authenticated(d), x[1], x[2]) : x \in (Keys \cup {NoKey}) \X Requests}

(* The unique index. *)
KeyTwice(d) == \E k \in Keys : Cardinality(Keyed(d, k)) > 1

-----------------------------------------------------------------------------
(* What jobs tell their delivery (action_mark_...). *)

StateRow(x, state) == [x EXCEPT !.state = state, !.left = @ \/ state \in Terminal]
InState(d, i, state) == [d EXCEPT !.delivery[i] = StateRow(@, state)]
MarkedMutant(d, i, state, j) == IF i = None THEN d ELSE InState(d, i, state)
Marked(d, i, state, j) ==
    IF i = None THEN d ELSE [InState(d, i, state) EXCEPT !.delivery[i].job = j]

JobMoves(d, j, state, shown) ==
    Marked([d EXCEPT !.job[j].state = state], d.job[j].delivery, shown, j)

InJobState(d, states) == {j \in Exists(d, "job") : d.job[j].state \in states}
Submit(d) ==
    {JobMoves(d, j, "awaiting_approval", "awaiting_approval") : j \in InJobState(d, {"rejected"})}
Approve(d) ==
    {JobMoves(d, j, "approved", "approved") : j \in InJobState(d, {"awaiting_approval"})}
Reject(d) ==
    {JobMoves(d, j, "rejected", "failed") :
     j \in InJobState(d, {"awaiting_approval", "approved"})}

-----------------------------------------------------------------------------
(* The wizard of a delivery. *)

OpenWizard(d) ==
    UNION {Inserted(d, "wizard",
                    [state |-> "open", delivery |-> i, content |-> d.delivery[i].content,
                     preview |-> NoContent, job |-> None]) :
           i \in {i \in Deliveries(d) : d.delivery[i].state # "cancelled"}}

(* The form takes another file.  Its checkbox for a dry run is saved with    *)
(* the press of the button that reads it.                                   *)
EditWizard(d) ==
    {[d EXCEPT !.wizard[x[1]].content = x[2]] :
     x \in Exists(d, "wizard") \X (Contents \cup Uploads)}

(* _finalize_import_result of a dry run. *)
Previewed(d, w) ==
    LET wiz == d.wizard[w]
        kept == wiz.job # None /\ d.job[wiz.job].content = wiz.content
        e == [d EXCEPT !.wizard[w] = [@ EXCEPT !.preview = wiz.content,
                                               !.job = IF kept THEN wiz.job ELSE None]]
    IN IF wiz.delivery = None THEN e ELSE InState(e, wiz.delivery, "previewed")
Preview(d) == {Previewed(d, w) : w \in Exists(d, "wizard")}

(* action_request_approval. *)
Requested(d, w, j) ==
    LET wiz == d.wizard[w]
        e == [d EXCEPT !.job[j] = [state |-> "awaiting_approval", delivery |-> wiz.delivery,
                                   content |-> wiz.content, version |-> Template(d).version],
                       !.wizard[w].job = j]
    IN Marked(e, wiz.delivery, "awaiting_approval", j)
RequestApproval(d) ==
    UNION {{Requested(d, w, j) : j \in NewId(d, "job")} :
           w \in {w \in Exists(d, "wizard") : d.wizard[w].preview = d.wizard[w].content}}

(* action_approve_import: the job is still about the uploaded file. *)
ApproveImport(d) ==
    {JobMoves(d, d.wizard[w].job, "approved", "approved") :
     w \in {w \in Exists(d, "wizard") :
               LET j == d.wizard[w].job IN
               /\ j \in InJobState(d, {"awaiting_approval"})
               /\ d.job[j].content = d.wizard[w].content}}

(* _ensure_live_import_approved. *)
ApprovedMutant(d, w) ==
    LET j == d.wizard[w].job IN
    Template(d).required =>
        j \in InJobState(d, {"approved"}) /\ d.job[j].version = Template(d).version
Approved(d, w) ==
    LET j == d.wizard[w].job IN
    Template(d).required =>
        /\ j \in InJobState(d, {"approved"})
        /\ d.job[j].content = d.wizard[w].content
        /\ d.job[j].version = Template(d).version

(* A live run; its rows may fail one by one.  History: what was imported     *)
(* under a template that asks for approval.                                 *)
Ran(d, wiz) ==
    IF ~Template(d).required THEN {d}
    ELSE Inserted(d, "run", [state |-> "committed", content |-> wiz.content,
                             version |-> Template(d).version, job |-> wiz.job])
Imported(d, w) ==
    LET wiz == d.wizard[w]
        ran == Ran(d, wiz)
    IN IF wiz.job \in InJobState(d, {"approved"})
       THEN UNION {{JobMoves(e, wiz.job, "completed", "processed"),
                    JobMoves(e, wiz.job, "completed_with_errors", "processed_with_errors")} :
                   e \in ran}
       ELSE ran
Import(d) ==
    UNION {Imported(d, w) : w \in {w \in Exists(d, "wizard") : Approved(d, w)}}

-----------------------------------------------------------------------------
(* Operators, retention, new versions of the template. *)

Cancel(d) == {InState(d, i, "cancelled") : i \in Deliveries(d)}

(* The references to a deleted delivery become empty. *)
Forget(rows, gone) ==
    [r \in DOMAIN rows |->
        IF rows[r] # NoRow /\ rows[r].delivery \in gone
        THEN [rows[r] EXCEPT !.delivery = None] ELSE rows[r]]
Purge(d) ==
    {[d EXCEPT !.delivery = [i \in DeliveryIds |->
                                IF i \in gone THEN [state |-> "purged"] ELSE @[i]],
               !.job = Forget(@, gone), !.wizard = Forget(@, gone)] :
     gone \in SUBSET {i \in Deliveries(d) : d.delivery[i].state \in Terminal} \ {{}}}

ChangeTemplate(d) ==
    {[d EXCEPT !.template[1].version = @ + 1],
     [d EXCEPT !.template[1].required = ~@]}

-----------------------------------------------------------------------------
OfOperators == {"open", "preview", "request", "approve", "reject", "submit", "import"}
OfOthers == {"cancel", "purge", "template"}
Commands == {"stage", "edit"} \cup OfOperators \cup OfOthers

(* A purge overlaps nothing here: the foreign keys that order it with whoever *)
(* refers to its deliveries are more than rows that are merged.              *)
ASSUME OverlapAssumption == {Slow, Meanwhile} \subseteq SUBSET (Commands \ {"purge"})

Outcomes(c, d) ==
    CASE c = "stage" -> StageRequest(d)
      [] c = "open" -> OpenWizard(d)
      [] c = "edit" -> EditWizard(d)
      [] c = "preview" -> Preview(d)
      [] c = "request" -> RequestApproval(d)
      [] c = "approve" -> Approve(d) \cup ApproveImport(d)
      [] c = "reject" -> Reject(d)
      [] c = "submit" -> Submit(d)
      [] c = "import" -> Import(d)
      [] c = "cancel" -> Cancel(d)
      [] c = "purge" -> Purge(d)
      [] c = "template" -> ChangeTemplate(d)

Counted(c) ==
    /\ IF c = "edit" THEN edits < MaxEdits /\ edits' = edits + 1 ELSE UNCHANGED edits
    /\ IF c \in OfOthers THEN changes < MaxChanges /\ changes' = changes + 1
       ELSE UNCHANGED changes

Run(c) ==
    /\ slow.running => c \in Meanwhile
    /\ Counted(c)
    /\ CommitSettled(Outcomes(c, db), Settled)

RunSlowly(c) ==
    /\ c \in Slow
    /\ Counted(c)
    /\ Begin(Outcomes(c, db))

RunEnds == EndSettled(KeyTwice, Settled) /\ UNCHANGED <<edits, changes>>

Init ==
    /\ db = [partner |-> <<[write_date |-> FALSE]>>,
             template |-> <<[version |-> 1, required |-> TRUE]>>,
             delivery |-> [i \in DeliveryIds |-> NoRow],
             wizard |-> [w \in WizardIds |-> NoRow],
             job |-> [j \in JobIds |-> NoRow],
             reply |-> [r \in ReplyIds |-> NoRow],
             run |-> [n \in RunIds |-> NoRow]]
    /\ slow = NoTransaction /\ edits = 0 /\ changes = 0

Next == \/ \E c \in Commands : Run(c) \/ RunSlowly(c)
        \/ RunEnds

Spec == Init /\ [][Next]_vars

-----------------------------------------------------------------------------
(* A request that is sent again, late, together with its first copy, or with *)
(* a key that it had not before, finds the delivery that is there: an answer *)
(* to a key always names the same delivery and the same request until that  *)
(* is purged, and one payload is staged twice only if a delivery of it was   *)
(* finished once.                                                           *)
RetransmissionsReuse ==
    /\ \A r, s \in Exists(db, "reply") :
          LET a == db.reply[r]
              b == db.reply[s] IN
          a.key = b.key =>
             \/ a.delivery = b.delivery /\ a.request = b.request
             \/ {a.delivery, b.delivery} \ Deliveries(db) # {}
    /\ \A i, j \in Deliveries(db) :
          i # j /\ db.delivery[i].content = db.delivery[j].content
             => db.delivery[i].left \/ db.delivery[j].left

(* Under a template that asks for approval nothing is imported but the file  *)
(* of an approved job, in the version of the template that was approved; an  *)
(* approval admits one import, and the job keeps the record of it.           *)
ImportsAsApproved ==
    \A n \in Exists(db, "run") :
        LET r == db.run[n] IN
        /\ r.job \in InJobState(db, {"completed", "completed_with_errors"})
        /\ db.job[r.job].content = r.content
        /\ db.job[r.job].version = r.version
        /\ \A m \in Exists(db, "run") : db.run[m].job = r.job => m = n

(* With several jobs for one delivery, approved, rejected, submitted again   *)
(* and imported in any order: whatever the delivery shows of approval and    *)
(* import is true of the very job that it names.                            *)
ShownFor == [awaiting_approval |-> "awaiting_approval", approved |-> "approved",
             failed |-> "rejected", processed |-> "completed",
             processed_with_errors |-> "completed_with_errors"]
DeliveryShowsItsJob ==
    \A i \in Deliveries(db) :
        LET r == db.delivery[i] IN
        r.state \in DOMAIN ShownFor =>
            /\ r.job # None
            /\ db.job[r.job].state = ShownFor[r.state]
            /\ db.job[r.job].delivery = i
=============================================================================
