-------------------------- MODULE NotificationOutbox --------------------------
(***************************************************************************)
(* The event mail outbox of sports_federation_notifications.  A business   *)
(* step persists a notification log and an outgoing mail; Odoo's mail      *)
(* queue is the only transport; the log is the evidence of delivery and    *)
(* owns the retries.  The transport commits the outcome of a mail before   *)
(* it reports it to the log, so a worker that dies in between leaves the   *)
(* two apart, and a cron brings them together again, a bounded batch of    *)
(* the least recently checked logs at a time.                              *)
(***************************************************************************)
EXTENDS Naturals, Sequences, SequencesExt, FiniteSets

CONSTANTS
    Logs,              \* federation.notification.log records
    BatchLimit,        \* logs one reconciliation looks at (200 in the code)
    MaxAttempts,       \* MAX_AUTOMATIC_ATTEMPTS (3 in the code)
    MaxOperatorSteps,  \* bound: requests by operators, over all logs
    MaxCancels,        \* bound: mails operators cancel or delete
    MaxDeaths          \* bound: workers that die

ASSUME OutboxAssumption ==
    /\ IsFiniteSet(Logs)
    /\ {BatchLimit, MaxAttempts} \subseteq Nat \ {0}
    /\ {MaxOperatorSteps, MaxCancels, MaxDeaths} \subseteq Nat

VARIABLES
    log,             \* state of the log; "none" before it, "purged" after it
    mail,            \* state of its mail
    cause,           \* why the transport last failed
    queued,          \* queued_on is set
    attempts,        \* attempt_count
    retry,           \* next_attempt_on: not set, set, or due
    checked,         \* the logs in the order of outbox_checked_on
    transport,       \* what the mail queue is doing with the mail
    accepted,        \* history: how often the server took the mail
    made,            \* history: mails created for the log
    asked,           \* history: operators' retries of the log
    lost,            \* history: attempts a dead worker left no trace of
    cancels          \* mails cancelled or deleted so far

logVars == <<log, queued, retry, checked>>
mailVars == <<mail, cause, attempts>>
history == <<accepted, made, asked, lost, cancels>>
vars == <<logVars, mailVars, transport, history>>

TypeOK ==
    /\ log \in [Logs -> {"none", "pending", "sent", "failed", "purged"}]
    /\ mail \in [Logs -> {"none", "outgoing", "sent", "exception", "cancel", "deleted"}]
    /\ cause \in [Logs -> {"transient", "permanent"}]
    /\ queued \in [Logs -> BOOLEAN]
    /\ attempts \in [Logs -> 0..MaxAttempts + MaxOperatorSteps]
    /\ retry \in [Logs -> {"none", "set", "due"}]
    /\ checked \in Seq(Logs) /\ IsInjective(checked)
    /\ transport \in [Logs -> {"idle", "sending", "reporting"}]
    /\ {accepted, made, asked, lost} \subseteq [Logs -> Nat] /\ cancels \in Nat

Init ==
    /\ log = [n \in Logs |-> "none"] /\ mail = [n \in Logs |-> "none"]
    /\ cause = [n \in Logs |-> "transient"]
    /\ queued = [n \in Logs |-> FALSE]
    /\ retry = [n \in Logs |-> "none"]
    /\ checked = << >>
    /\ transport = [n \in Logs |-> "idle"]
    /\ attempts = [n \in Logs |-> 0] /\ accepted = [n \in Logs |-> 0]
    /\ made = [n \in Logs |-> 0] /\ asked = [n \in Logs |-> 0]
    /\ lost = [n \in Logs |-> 0] /\ cancels = 0

Sum(f) == FoldFunction(+, 0, f)
Locked(n) == transport[n] = "sending"

-----------------------------------------------------------------------------
(* The log and its mail. *)

(* A rendered template leaves the log pending on a new outgoing mail; one    *)
(* that does not render leaves it failed and never queued.                   *)
QueueTemplate(n, renders) ==
    /\ log' = [log EXCEPT ![n] = IF renders THEN "pending" ELSE "failed"]
    /\ mail' = [mail EXCEPT ![n] = IF renders THEN "outgoing" ELSE @]
    /\ queued' = [queued EXCEPT ![n] = @ \/ renders]
    /\ made' = [made EXCEPT ![n] = IF renders THEN @ + 1 ELSE @]
    /\ retry' = [retry EXCEPT ![n] = "none"]

SendTemplate(n, renders) ==
    /\ log[n] = "none"
    /\ QueueTemplate(n, renders)
    /\ checked' = Append(checked, n)
    /\ UNCHANGED <<cause, attempts, transport, accepted, asked, lost, cancels>>

Delivered == {"sent"}
Gone == {"none", "deleted"}
AttemptsLeft(n) == attempts[n] < MaxAttempts

(* What _reconcile_mail makes of the log. *)
ReconciledLog(n) ==
    CASE mail[n] \in Gone -> IF queued[n] /\ log[n] # "sent" THEN "failed" ELSE log[n]
      [] mail[n] \in Delivered -> "sent"
      [] mail[n] \in {"exception", "cancel"} -> "failed"
      [] OTHER -> log[n]

ReconciledRetry(n) ==
    CASE ReconciledLog(n) = log[n] /\ ~(mail[n] \in Gone /\ queued[n]) -> retry[n]
      [] /\ mail[n] = "exception" /\ ReconciledLog(n) # log[n]
         /\ cause[n] = "transient" /\ AttemptsLeft(n) -> "set"
      [] OTHER -> "none"

-----------------------------------------------------------------------------
(* The mail queue. *)

StartSend(n) ==
    /\ mail[n] = "outgoing" /\ transport[n] = "idle"
    /\ transport' = [transport EXCEPT ![n] = "sending"]
    /\ UNCHANGED <<logVars, mailVars, history>>

(* The outcome is committed with its attempt; the log hears of it later.     *)
Accept(n) ==
    /\ transport[n] = "sending"
    /\ transport' = [transport EXCEPT ![n] = "reporting"]
    /\ mail' = [mail EXCEPT ![n] = "sent"]
    /\ attempts' = [attempts EXCEPT ![n] = @ + 1]
    /\ accepted' = [accepted EXCEPT ![n] = @ + 1]
    /\ UNCHANGED <<logVars, cause, made, asked, lost, cancels>>

Refuse(n, why) ==
    /\ transport[n] = "sending"
    /\ transport' = [transport EXCEPT ![n] = "reporting"]
    /\ mail' = [mail EXCEPT ![n] = "exception"]
    /\ cause' = [cause EXCEPT ![n] = why]
    /\ attempts' = [attempts EXCEPT ![n] = @ + 1]
    /\ UNCHANGED <<logVars, history>>

Report(n) ==
    /\ transport[n] = "reporting"
    /\ transport' = [transport EXCEPT ![n] = "idle"]
    /\ log' = [log EXCEPT ![n] = ReconciledLog(n)]
    /\ retry' = [retry EXCEPT ![n] = ReconciledRetry(n)]
    /\ UNCHANGED <<queued, checked, mailVars, history>>

(* A worker that dies while sending leaves no trace, even of a mail that     *)
(* the server took; one that dies reporting leaves the log behind its mail.  *)
Die(n, took) ==
    /\ transport[n] \in {"sending", "reporting"}
    /\ Sum(lost) < MaxDeaths
    /\ took => transport[n] = "sending"
    /\ transport' = [transport EXCEPT ![n] = "idle"]
    /\ lost' = [lost EXCEPT ![n] = @ + 1]
    /\ accepted' = [accepted EXCEPT ![n] = IF took THEN @ + 1 ELSE @]
    /\ UNCHANGED <<logVars, mailVars, made, asked, cancels>>

-----------------------------------------------------------------------------
(* Requeueing the same mail, by a manager or the cron. *)

RequeueableMutant == {"outgoing", "exception", "sent"}
CancelledMutant == {"outgoing", "exception", "cancel"}
Requeueable == {"outgoing", "exception"}
Recreatable(n) == mail[n] \in Gone /\ ~queued[n]

RetryQueuedEmail(n) ==
    \/ /\ mail[n] \in Requeueable
       /\ mail' = [mail EXCEPT ![n] = "outgoing"]
       /\ log' = [log EXCEPT ![n] = "pending"]
       /\ retry' = [retry EXCEPT ![n] = "none"]
       /\ queued' = [queued EXCEPT ![n] = TRUE]
       /\ UNCHANGED made
    \/ /\ mail[n] = "sent" /\ mail[n] \notin Requeueable
       /\ log' = [log EXCEPT ![n] = ReconciledLog(n)]
       /\ retry' = [retry EXCEPT ![n] = ReconciledRetry(n)]
       /\ UNCHANGED <<mail, queued, made>>
    \/ Recreatable(n) /\ \E renders \in BOOLEAN : QueueTemplate(n, renders)

QueueRetry(n) ==
    /\ log[n] = "failed" /\ ~Locked(n)
    /\ Sum(asked) + cancels < MaxOperatorSteps
    /\ RetryQueuedEmail(n)
    /\ asked' = [asked EXCEPT ![n] = @ + 1]
    /\ UNCHANGED <<checked, cause, attempts, transport, accepted, lost, cancels>>

(* Operators also have Odoo's own mail form: retry, cancel and delete.       *)
ReopenMail(n) ==
    /\ mail[n] = "exception" /\ ~Locked(n)
    /\ Sum(asked) + cancels < MaxOperatorSteps
    /\ mail' = [mail EXCEPT ![n] = "outgoing"]
    /\ asked' = [asked EXCEPT ![n] = @ + 1]
    /\ UNCHANGED <<logVars, cause, attempts, transport, accepted, made, lost, cancels>>

DropMail(n, as) ==
    /\ mail[n] \in {"outgoing", "exception"} /\ ~Locked(n)
    /\ cancels < MaxCancels /\ Sum(asked) + cancels < MaxOperatorSteps
    /\ mail' = [mail EXCEPT ![n] = as]
    /\ cancels' = cancels + 1
    /\ UNCHANGED <<logVars, cause, attempts, transport, accepted, made, asked, lost>>

-----------------------------------------------------------------------------
(* The reconciliation cron. *)

CronStatesMutant == {"failed"}
CronStates == {"pending", "failed"}
RetryIsDue(n) == ReconciledLog(n) = "failed" /\ ReconciledRetry(n) = "due" /\ AttemptsLeft(n)

(* A due retry of a cancelled mail raises, and the savepoint takes back the  *)
(* time of the check as well.                                                *)
Raises(n) == RetryIsDue(n) /\ mail[n] \notin Requeueable \cup {"sent"}
Requeued(n) == RetryIsDue(n) /\ mail[n] \in Requeueable

ReconcileOutbox ==
    LET due == SelectSeq(checked, LAMBDA n : log[n] \in CronStates /\ queued[n])
        batch == SubSeq(due, 1, IF Len(due) < BatchLimit THEN Len(due) ELSE BatchLimit)
        done == SelectSeq(batch, LAMBDA n : ~Locked(n) /\ ~Raises(n))
        Handled(n) == Contains(done, n)
    IN
    /\ done # << >>
    /\ checked' = SelectSeq(checked, LAMBDA n : ~Handled(n)) \o done
    /\ log' = [n \in Logs |-> IF ~Handled(n) THEN log[n]
                              ELSE IF Requeued(n) THEN "pending" ELSE ReconciledLog(n)]
    /\ retry' = [n \in Logs |-> IF ~Handled(n) THEN retry[n]
                                ELSE IF Requeued(n) THEN "none" ELSE ReconciledRetry(n)]
    /\ mail' = [n \in Logs |-> IF Handled(n) /\ Requeued(n) THEN "outgoing" ELSE mail[n]]
    /\ UNCHANGED <<queued, cause, attempts, transport, history>>

RetryDue(n) ==
    /\ retry[n] = "set"
    /\ retry' = [retry EXCEPT ![n] = "due"]
    /\ UNCHANGED <<log, queued, checked, mailVars, transport, history>>

(* Retention removes an old log and its sent mail, never one whose mail is   *)
(* open or under review; a pending log only without a mail.                  *)
Purgeable(n) == mail[n] \in Gone \cup {"sent"} /\ transport[n] = "idle"
PurgeLog(n) ==
    /\ log[n] \in {"sent", "failed"} \cup IF mail[n] \in Gone THEN {"pending"} ELSE {}
    /\ Purgeable(n)
    /\ log' = [log EXCEPT ![n] = "purged"]
    /\ mail' = [mail EXCEPT ![n] = "deleted"]
    /\ checked' = Remove(checked, n)
    /\ UNCHANGED <<queued, retry, cause, attempts, transport, history>>

-----------------------------------------------------------------------------
Transport(n) ==
    \/ Accept(n) \/ Report(n)
    \/ \E why \in {"transient", "permanent"} : Refuse(n, why)
    \/ \E took \in BOOLEAN : Die(n, took)

Operator(n) == QueueRetry(n) \/ ReopenMail(n) \/ \E as \in {"cancel", "deleted"} : DropMail(n, as)

Next ==
    \/ \E n \in Logs :
          \/ \E renders \in BOOLEAN : SendTemplate(n, renders)
          \/ StartSend(n) \/ Transport(n) \/ Operator(n) \/ RetryDue(n) \/ PurgeLog(n)
    \/ ReconcileOutbox

Fairness ==
    /\ WF_vars(ReconcileOutbox)
    /\ \A n \in Logs : WF_vars(Transport(n))

Spec == Init /\ [][Next]_vars /\ Fairness

-----------------------------------------------------------------------------
(* A log has one mail, also when that disappeared.  The server takes it      *)
(* once, and once more only for a worker that died before it could commit    *)
(* the first time; and a log says sent only of a mail that the server took.  *)
AcceptedAsReported ==
    \A n \in Logs :
        /\ made[n] <= 1 /\ accepted[n] <= 1 + lost[n]
        /\ log[n] = "sent" => accepted[n] > 0

(* No retry brings a cancelled mail back: it needs an operator's review.     *)
CancelledStays == [][\A n \in Logs : mail[n] = "cancel" => mail'[n] = "cancel"]_vars

(* The log of a mail the server took says so some day, also when the worker  *)
(* died before it could report.                                              *)
EvidenceReachesLog ==
    \A n \in Logs : (mail[n] = "sent") ~> (log[n] \in {"sent", "purged"})
=============================================================================
