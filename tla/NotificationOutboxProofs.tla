---------------------- MODULE NotificationOutboxProofs ----------------------
(***************************************************************************)
(* For any logs, batches and limits, with workers that die and operators   *)
(* that retry, cancel and delete: a log has one mail, the server takes it  *)
(* once, and once more only for a worker that died, and what a log says    *)
(* happened.                                                               *)
(***************************************************************************)
EXTENDS NotificationOutbox, TLAPS

(* What the invariant counts. *)
OutboxShape ==
    /\ log \in [Logs -> {"none", "pending", "sent", "failed", "purged"}]
    /\ mail \in [Logs -> {"none", "outgoing", "sent", "exception", "cancel", "deleted"}]
    /\ queued \in [Logs -> BOOLEAN]
    /\ transport \in [Logs -> {"idle", "sending", "reporting"}]
    /\ made \in [Logs -> Nat] /\ accepted \in [Logs -> Nat] /\ lost \in [Logs -> Nat]

(* AcceptedAsReported of one log, with what makes it inductive: a mail exists *)
(* only for a log that is queued, a mail that is sent was taken, and one that *)
(* may still be sent was taken by nobody but workers that died.              *)
LogOK(n) ==
    /\ ~queued[n] => /\ made[n] = 0 /\ accepted[n] = 0
                     /\ mail[n] \in Gone /\ transport[n] = "idle"
    /\ queued[n] => made[n] = 1 /\ log[n] # "none"
    /\ transport[n] = "sending" => mail[n] = "outgoing"
    /\ accepted[n] <= 1 + lost[n]
    /\ mail[n] \notin {"sent", "deleted"} => accepted[n] <= lost[n]
    /\ "sent" \in {mail[n], log[n]} => accepted[n] > 0

OutboxInv == OutboxShape /\ \A n \in Logs : LogOK(n)

LEMMA OutboxInvInit == Init => OutboxInv
  BY DEF Init, OutboxInv, OutboxShape, LogOK, Gone

-----------------------------------------------------------------------------
(* A step about one log leaves the others alone. *)
OthersAlone(n) ==
    \A o \in Logs \ {n} :
        /\ log'[o] = log[o] /\ mail'[o] = mail[o] /\ queued'[o] = queued[o]
        /\ transport'[o] = transport[o] /\ made'[o] = made[o]
        /\ accepted'[o] = accepted[o] /\ lost'[o] = lost[o]

LEMMA OneLogStep ==
    ASSUME OutboxInv, NEW n \in Logs, OutboxShape', OthersAlone(n), LogOK(n)'
    PROVE  OutboxInv'
  BY DEF OutboxInv, OthersAlone, LogOK

(* What a reconciliation makes of a log is a state, and not a new success. *)
LEMMA ReconciledLogType ==
    ASSUME OutboxInv, NEW n \in Logs
    PROVE  /\ ReconciledLog(n) \in {"none", "pending", "sent", "failed", "purged"}
           /\ ReconciledLog(n) = "sent" => "sent" \in {mail[n], log[n]}
           /\ ReconciledLog(n) = "none" => log[n] = "none"
  BY DEF OutboxInv, OutboxShape, ReconciledLog, Gone, Delivered

(* The business step that persists the log. *)
LEMMA TemplateKeepsInv ==
    ASSUME OutboxInv, NEW n \in Logs, NEW renders \in BOOLEAN,
           QueueTemplate(n, renders), ~queued[n],
           UNCHANGED <<transport, accepted, lost>>
    PROVE  OutboxInv'
<1>1. LogOK(n)
  BY DEF OutboxInv
<1>2. OutboxShape'
  BY DEF OutboxInv, OutboxShape, QueueTemplate
<1>3. OthersAlone(n)
  BY DEF OutboxInv, OutboxShape, QueueTemplate, OthersAlone
<1>4. LogOK(n)'
  BY <1>1 DEF OutboxInv, OutboxShape, QueueTemplate, LogOK, Gone
<1>5. QED
  BY <1>2, <1>3, <1>4, OneLogStep

LEMMA TransportKeepsInv ==
    ASSUME OutboxInv, NEW n \in Logs, StartSend(n) \/ Transport(n)
    PROVE  OutboxInv'
<1> USE DEF logVars, mailVars, history
<1>1. LogOK(n)
  BY DEF OutboxInv
<1>2. CASE StartSend(n)
  <2>1. OutboxShape' /\ OthersAlone(n)
    BY <1>2 DEF StartSend, OutboxInv, OutboxShape, OthersAlone
  <2>2. LogOK(n)'
    BY <1>1, <1>2 DEF StartSend, OutboxInv, OutboxShape, LogOK, Gone
  <2>3. QED
    BY <2>1, <2>2, OneLogStep
<1>3. CASE Accept(n)
  <2>1. OutboxShape' /\ OthersAlone(n)
    BY <1>3 DEF Accept, OutboxInv, OutboxShape, OthersAlone
  <2>2. LogOK(n)'
    BY <1>1, <1>3 DEF Accept, OutboxInv, OutboxShape, LogOK, Gone
  <2>3. QED
    BY <2>1, <2>2, OneLogStep
<1>4. ASSUME NEW why, Refuse(n, why)
      PROVE  OutboxInv'
  <2>1. OutboxShape' /\ OthersAlone(n)
    BY <1>4 DEF Refuse, OutboxInv, OutboxShape, OthersAlone
  <2>2. LogOK(n)'
    BY <1>1, <1>4 DEF Refuse, OutboxInv, OutboxShape, LogOK, Gone
  <2>3. QED
    BY <2>1, <2>2, OneLogStep
<1>5. CASE Report(n)
  <2>1. OutboxShape' /\ OthersAlone(n)
    BY <1>5, ReconciledLogType DEF Report, OutboxInv, OutboxShape, OthersAlone
  <2>2. LogOK(n)'
    BY <1>1, <1>5, ReconciledLogType DEF Report, OutboxInv, OutboxShape, LogOK
  <2>3. QED
    BY <2>1, <2>2, OneLogStep
<1>6. ASSUME NEW took \in BOOLEAN, Die(n, took)
      PROVE  OutboxInv'
  <2>1. OutboxShape' /\ OthersAlone(n)
    BY <1>6 DEF Die, OutboxInv, OutboxShape, OthersAlone
  <2>2. LogOK(n)'
    BY <1>1, <1>6 DEF Die, OutboxInv, OutboxShape, LogOK, Gone
  <2>3. QED
    BY <2>1, <2>2, OneLogStep
<1>7. QED
  BY <1>2, <1>3, <1>4, <1>5, <1>6 DEF Transport

(* A retry sends the same mail again, if it was not sent, or makes the first. *)
LEMMA OperatorKeepsInv ==
    ASSUME OutboxInv, NEW n \in Logs, Operator(n)
    PROVE  OutboxInv'
<1> USE DEF logVars, mailVars
<1>1. LogOK(n)
  BY DEF OutboxInv
<1>2. ASSUME QueueRetry(n), mail[n] \in Requeueable, mail' = [mail EXCEPT ![n] = "outgoing"],
             log' = [log EXCEPT ![n] = "pending"], queued' = [queued EXCEPT ![n] = TRUE],
             UNCHANGED made
      PROVE  OutboxInv'
  <2>1. OutboxShape' /\ OthersAlone(n)
    BY <1>2 DEF QueueRetry, OutboxInv, OutboxShape, OthersAlone
  <2>2. LogOK(n)'
    BY <1>1, <1>2 DEF QueueRetry, OutboxInv, OutboxShape, LogOK, Gone, Requeueable
  <2>3. QED
    BY <2>1, <2>2, OneLogStep
<1>3. ASSUME QueueRetry(n), log' = [log EXCEPT ![n] = ReconciledLog(n)],
             UNCHANGED <<mail, queued, made>>
      PROVE  OutboxInv'
  <2>1. OutboxShape' /\ OthersAlone(n)
    BY <1>3, ReconciledLogType DEF QueueRetry, OutboxInv, OutboxShape, OthersAlone
  <2>2. LogOK(n)'
    BY <1>1, <1>3, ReconciledLogType DEF QueueRetry, OutboxInv, OutboxShape, LogOK
  <2>3. QED
    BY <2>1, <2>2, OneLogStep
<1>4. ASSUME QueueRetry(n), Recreatable(n), \E renders \in BOOLEAN : QueueTemplate(n, renders)
      PROVE  OutboxInv'
  BY <1>4, TemplateKeepsInv DEF QueueRetry, Recreatable
<1>5. CASE ReopenMail(n)
  <2>1. OutboxShape' /\ OthersAlone(n)
    BY <1>5 DEF ReopenMail, OutboxInv, OutboxShape, OthersAlone
  <2>2. LogOK(n)'
    BY <1>1, <1>5 DEF ReopenMail, OutboxInv, OutboxShape, LogOK, Gone
  <2>3. QED
    BY <2>1, <2>2, OneLogStep
<1>6. ASSUME NEW as \in {"cancel", "deleted"}, DropMail(n, as)
      PROVE  OutboxInv'
  <2>1. OutboxShape' /\ OthersAlone(n)
    BY <1>6 DEF DropMail, OutboxInv, OutboxShape, OthersAlone
  <2>2. LogOK(n)'
    BY <1>1, <1>6 DEF DropMail, Locked, OutboxInv, OutboxShape, LogOK, Gone
  <2>3. QED
    BY <2>1, <2>2, OneLogStep
<1>7. QED
  BY <1>2, <1>3, <1>4, <1>5, <1>6 DEF Operator, QueueRetry, RetryQueuedEmail

(* The cron requeues only mails that were not sent, whatever its batch. *)
LEMMA CronHandles ==
    ASSUME ReconcileOutbox
    PROVE  \E handled \in SUBSET Logs :
              /\ log' = [n \in Logs |-> IF n \notin handled THEN log[n]
                                        ELSE IF Requeued(n) THEN "pending"
                                        ELSE ReconciledLog(n)]
              /\ mail' = [n \in Logs |-> IF n \in handled /\ Requeued(n) THEN "outgoing"
                                         ELSE mail[n]]
              /\ UNCHANGED <<queued, transport, made, accepted, lost>>
<1> DEFINE due == SelectSeq(checked, LAMBDA n : log[n] \in CronStates /\ queued[n])
           batch == SubSeq(due, 1, IF Len(due) < BatchLimit THEN Len(due) ELSE BatchLimit)
           done == SelectSeq(batch, LAMBDA n : ~Locked(n) /\ ~Raises(n))
           handled == {n \in Logs : Contains(done, n)}
<1>1. /\ log' = [n \in Logs |-> IF ~Contains(done, n) THEN log[n]
                                ELSE IF Requeued(n) THEN "pending" ELSE ReconciledLog(n)]
      /\ mail' = [n \in Logs |-> IF Contains(done, n) /\ Requeued(n) THEN "outgoing" ELSE mail[n]]
      /\ UNCHANGED <<queued, transport, made, accepted, lost>>
  BY Zenon DEF ReconcileOutbox, history
<1> HIDE DEF done
<1>2. \A n \in Logs : n \in handled <=> Contains(done, n)
  OBVIOUS
<1> HIDE DEF handled
<1>3. handled \in SUBSET Logs
  BY DEF handled
<1>4. QED
  BY <1>1, <1>2, <1>3

LEMMA CronKeepsInv ==
    ASSUME OutboxInv, ReconcileOutbox
    PROVE  OutboxInv'
<1>1. PICK handled \in SUBSET Logs :
         /\ log' = [n \in Logs |-> IF n \notin handled THEN log[n]
                                   ELSE IF Requeued(n) THEN "pending"
                                   ELSE ReconciledLog(n)]
         /\ mail' = [n \in Logs |-> IF n \in handled /\ Requeued(n) THEN "outgoing"
                                    ELSE mail[n]]
         /\ UNCHANGED <<queued, transport, made, accepted, lost>>
  BY CronHandles
<1>2. OutboxShape'
  BY <1>1, ReconciledLogType DEF OutboxInv, OutboxShape
<1>3. ASSUME NEW n \in Logs PROVE LogOK(n)'
  <2>1. LogOK(n) /\ OutboxShape
    BY DEF OutboxInv
  <2>2. CASE n \in handled /\ Requeued(n)
    BY <1>1, <2>1, <2>2 DEF Requeued, Requeueable, OutboxShape, LogOK, Gone
  <2>3. CASE ~(n \in handled /\ Requeued(n))
    BY <1>1, <2>1, <2>3, ReconciledLogType DEF LogOK
  <2>4. QED
    BY <2>2, <2>3
<1>4. QED
  BY <1>2, <1>3 DEF OutboxInv

LEMMA NextKeepsOutbox == OutboxInv /\ [Next]_vars => OutboxInv'
<1> SUFFICES ASSUME OutboxInv, [Next]_vars PROVE OutboxInv'
  OBVIOUS
<1> USE DEF logVars, mailVars, history
<1>1. ASSUME NEW n \in Logs, NEW renders \in BOOLEAN, SendTemplate(n, renders)
      PROVE  OutboxInv'
  <2>1. ~queued[n]
    BY <1>1 DEF SendTemplate, OutboxInv, OutboxShape, LogOK
  <2>2. QED
    BY <1>1, <2>1, TemplateKeepsInv DEF SendTemplate
<1>2. ASSUME NEW n \in Logs, StartSend(n) \/ Transport(n)
      PROVE  OutboxInv'
  BY <1>2, TransportKeepsInv
<1>3. ASSUME NEW n \in Logs, Operator(n)
      PROVE  OutboxInv'
  BY <1>3, OperatorKeepsInv
<1>4. ASSUME NEW n \in Logs, RetryDue(n)
      PROVE  OutboxInv'
  BY <1>4 DEF RetryDue, OutboxInv, OutboxShape, LogOK
<1>5. ASSUME NEW n \in Logs, PurgeLog(n)
      PROVE  OutboxInv'
  <2>1. LogOK(n)
    BY DEF OutboxInv
  <2>2. OutboxShape' /\ OthersAlone(n)
    BY <1>5 DEF PurgeLog, OutboxInv, OutboxShape, OthersAlone
  <2>3. LogOK(n)'
    BY <1>5, <2>1 DEF PurgeLog, Purgeable, OutboxInv, OutboxShape, LogOK, Gone
  <2>4. QED
    BY <2>2, <2>3, OneLogStep
<1>6. CASE ReconcileOutbox
  BY <1>6, CronKeepsInv
<1>7. CASE UNCHANGED vars
  BY <1>7 DEF vars, OutboxInv, OutboxShape, LogOK
<1>8. QED
  BY <1>1, <1>2, <1>3, <1>4, <1>5, <1>6, <1>7 DEF Next

(* A log has one mail, also when that disappeared; the server takes it once,  *)
(* and once more only for each worker that died before it could commit; and  *)
(* a log says sent only of a mail that the server took.                      *)
THEOREM LogsAlwaysTrue == Spec => []AcceptedAsReported
<1>1. OutboxInv => AcceptedAsReported
  BY DEF OutboxInv, OutboxShape, LogOK, AcceptedAsReported
<1>2. QED
  BY <1>1, OutboxInvInit, NextKeepsOutbox, PTL DEF Spec

-----------------------------------------------------------------------------
LEMMA CancelledStaysStep ==
    ASSUME OutboxInv, [Next]_vars, NEW n \in Logs, mail[n] = "cancel"
    PROVE  mail'[n] = "cancel"
<1> USE DEF logVars, mailVars, history
<1>1. LogOK(n) /\ OutboxShape
  BY DEF OutboxInv
<1>2. ASSUME NEW o \in Logs, NEW renders \in BOOLEAN, SendTemplate(o, renders)
      PROVE  mail'[n] = "cancel"
  BY <1>1, <1>2 DEF SendTemplate, QueueTemplate, OutboxShape, LogOK, Gone
<1>3. ASSUME NEW o \in Logs, StartSend(o) \/ Transport(o)
      PROVE  mail'[n] = "cancel"
  BY <1>1, <1>3 DEF StartSend, Transport, Accept, Report, Refuse, Die, OutboxShape, LogOK
<1>4. ASSUME NEW o \in Logs, Operator(o)
      PROVE  mail'[n] = "cancel"
  BY <1>1, <1>4 DEF Operator, QueueRetry, RetryQueuedEmail, Recreatable, QueueTemplate,
                    ReopenMail, DropMail, Requeueable, OutboxShape, Gone
<1>5. ASSUME NEW o \in Logs, RetryDue(o) \/ PurgeLog(o)
      PROVE  mail'[n] = "cancel"
  BY <1>1, <1>5 DEF RetryDue, PurgeLog, Purgeable, OutboxShape, Gone
<1>6. CASE ReconcileOutbox
  BY <1>1, <1>6, CronHandles DEF Requeued, Requeueable
<1>7. CASE UNCHANGED vars
  BY <1>7 DEF vars
<1>8. QED
  BY <1>2, <1>3, <1>4, <1>5, <1>6, <1>7 DEF Next

(* No retry of a manager, an operator or the cron brings a cancelled mail back. *)
THEOREM CancelledAlwaysStays == Spec => CancelledStays
<1>1. OutboxInv /\ [Next]_vars => [\A n \in Logs : mail[n] = "cancel" => mail'[n] = "cancel"]_vars
  BY CancelledStaysStep
<1>2. QED
  BY <1>1, OutboxInvInit, NextKeepsOutbox, PTL DEF Spec, CancelledStays
=============================================================================
