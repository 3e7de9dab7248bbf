------------------------- MODULE ParticipantDelivery -------------------------
(***************************************************************************)
(* What a participant is told by sports_federation_notifications: inbox    *)
(* receipts of events, and the email deliveries that carry them, one per   *)
(* event or one digest a day, as the participant's preference of the       *)
(* moment has it.  The preference is read again when a delivery is queued  *)
(* and when its mail is sent; a receipt leaves the delivery of its event   *)
(* when the participant has turned to digests.                             *)
(***************************************************************************)
EXTENDS Naturals, FiniteSets, Functions

CONSTANTS
    Receipts,          \* federation.communication.receipt records of one user
    Days,              \* days with a digest
    MaxAttempts,       \* attempts before a failed delivery is escalated (3)
    MaxManagerSteps,   \* bound: retries by managers
    MaxChanges,        \* bound: changes of preference, access and address
    MaxDeaths          \* bound: workers that die

ASSUME DeliveryAssumption ==
    /\ IsFiniteSet(Receipts) /\ IsFiniteSet(Days) /\ Receipts \cap Days = {}
    /\ MaxAttempts \in Nat \ {0}
    /\ {MaxManagerSteps, MaxChanges, MaxDeaths} \subseteq Nat

(* delivery_key: the event and its user, or the day of a digest. *)
Keys == Receipts \cup Days
Modes == {"immediate", "digest", "inbox"}

VARIABLES
    mode,          \* the preference of the participant
    authorised,    \* the source may still be shown to the participant
    address,       \* the participant has an email address
    receipt,       \* the receipts, and whether their task is complete
    state,         \* state of the delivery of a key
    receiptIds,    \* receipt_ids of the delivery
    mail, attempts, due, escalated,
    transport,     \* what the mail queue is doing with the mail
    content,       \* the receipts the mail lists
    emailed,       \* history: how often the server took a mail that lists it
    lost, asked, changes   \* history, for the bounds

userVars == <<mode, authorised, address>>
deliveryVars == <<state, receiptIds, mail, attempts, due, escalated>>
history == <<emailed, lost, asked, changes>>
vars == <<userVars, receipt, deliveryVars, transport, content, history>>

TypeOK ==
    /\ mode \in Modes /\ {authorised, address} \subseteq BOOLEAN
    /\ receipt \in [Receipts -> {"none", "open", "acknowledged", "complete"}]
    /\ state \in [Keys -> {"none", "pending", "queued", "sent", "failed", "cancelled", "suppressed"}]
    /\ receiptIds \in [Keys -> SUBSET Receipts]
    /\ mail \in [Keys -> {"none", "outgoing", "sent", "exception", "cancel"}]
    /\ attempts \in [Keys -> 0..MaxAttempts + MaxManagerSteps]
    /\ {due, escalated} \subseteq [Keys -> BOOLEAN]
    /\ transport \in [Keys -> {"idle", "sending", "reporting"}]
    /\ content \in [Keys -> SUBSET Receipts]
    /\ emailed \in [Receipts -> Nat]
    /\ lost \in 0..MaxDeaths /\ asked \in 0..MaxManagerSteps /\ changes \in 0..MaxChanges

Init ==
    /\ mode \in Modes /\ authorised = TRUE /\ address \in BOOLEAN
    /\ receipt = [r \in Receipts |-> "none"]
    /\ state = [k \in Keys |-> "none"] /\ mail = [k \in Keys |-> "none"]
    /\ receiptIds = [k \in Keys |-> {}] /\ content = [k \in Keys |-> {}]
    /\ attempts = [k \in Keys |-> 0] /\ emailed = [r \in Receipts |-> 0]
    /\ due = [k \in Keys |-> FALSE] /\ escalated = [k \in Keys |-> FALSE]
    /\ transport = [k \in Keys |-> "idle"]
    /\ lost = 0 /\ asked = 0 /\ changes = 0

UnlinkedMutant(r) == \A d \in Days : r \notin receiptIds[d]
Unlinked(r) == \A k \in Keys : r \notin receiptIds[k]

-----------------------------------------------------------------------------
(* Events, tasks and what the participant changes. *)

Deliver(keys, as, of) ==
    /\ state' = [k \in Keys |-> IF k \in keys THEN as ELSE state[k]]
    /\ receiptIds' = [k \in Keys |-> IF k \in keys THEN of[k] ELSE receiptIds[k]]
Own == [k \in Keys |-> {k} \cap Receipts]

PublishAction(r) ==
    /\ receipt[r] = "none" /\ authorised
    /\ receipt' = [receipt EXCEPT ![r] = "open"]
    /\ CASE mode = "immediate" -> Deliver({r}, "pending", Own)
         [] mode = "inbox" -> Deliver({r}, "suppressed", Own)
         [] OTHER -> UNCHANGED <<state, receiptIds>>
    /\ UNCHANGED <<userVars, mail, attempts, due, escalated, transport, content, history>>

Progress(r, as) ==
    /\ <<receipt[r], as>> \in {<<"open", "acknowledged">>, <<"open", "complete">>,
                               <<"acknowledged", "complete">>}
    /\ receipt' = [receipt EXCEPT ![r] = as]
    /\ UNCHANGED <<userVars, deliveryVars, transport, content, history>>

(* Turning to prompt email queues what no delivery carries yet, unless the   *)
(* delivery of that event exists already.                                    *)
SavePreference(m) ==
    LET waiting == {r \in Receipts : /\ receipt[r] \in {"open", "acknowledged"} /\ authorised
                                     /\ Unlinked(r) /\ state[r] = "none"}
    IN
    /\ changes < MaxChanges /\ m # mode
    /\ changes' = changes + 1
    /\ mode' = m
    /\ IF m = "immediate" THEN Deliver(waiting, "pending", Own)
                          ELSE UNCHANGED <<state, receiptIds>>
    /\ UNCHANGED <<authorised, address, receipt, mail, attempts, due, escalated, transport,
                   content, emailed, lost, asked>>

ChangeUser(allowed, reachable) ==
    /\ changes < MaxChanges /\ <<allowed, reachable>> # <<authorised, address>>
    /\ changes' = changes + 1
    /\ authorised' = allowed /\ address' = reachable
    /\ UNCHANGED <<mode, receipt, deliveryVars, transport, content, emailed, lost, asked>>

(* The hourly run sends one digest a day, of what no delivery carries.       *)
SendDigest(d) ==
    LET selected == {r \in Receipts : receipt[r] = "open" /\ Unlinked(r)} IN
    /\ state[d] = "none" /\ authorised /\ mode = "digest"
    /\ selected # {}
    /\ Deliver({d}, "pending", [k \in Keys |-> selected])
    /\ UNCHANGED <<userVars, receipt, mail, attempts, due, escalated, transport, content, history>>

-----------------------------------------------------------------------------
(* Queueing. *)

Turned(k) == mode = "digest" /\ k \in Receipts
Valid(k) ==
    IF ~authorised \/ mode = "inbox" \/ Turned(k) THEN {}
    ELSE {r \in receiptIds[k] : receipt[r] # "complete"}

(* The receipts a delivery loses when its participant turned to digests; the *)
(* send drops complete ones too.                                             *)
Dropped(k) == IF Turned(k) /\ authorised THEN receiptIds[k] ELSE {}
DroppedQueueing(k) == {r \in Dropped(k) : receipt[r] # "complete"}

Requeued == {"none", "exception", "cancel"}
(* _queue_email of a delivery that is pending, or failed and retried. *)
QueueEmail(k) ==
    /\ receiptIds' = [receiptIds EXCEPT ![k] = @ \ DroppedQueueing(k)]
    /\ \/ /\ Valid(k) = {}
          /\ state' = [state EXCEPT ![k] = "cancelled"]
          /\ mail' = [mail EXCEPT ![k] = IF @ \in {"outgoing", "exception"} THEN "cancel" ELSE @]
          /\ UNCHANGED <<attempts, due, content>>
       \/ /\ Valid(k) # {} /\ ~address
          /\ state' = [state EXCEPT ![k] = "failed"]
          /\ due' = [due EXCEPT ![k] = FALSE]
          /\ UNCHANGED <<mail, attempts, content>>
       \/ /\ Valid(k) # {} /\ address /\ mail[k] \in {"sent", "outgoing"} \ Requeued
          /\ state' = [state EXCEPT ![k] = IF mail[k] = "sent" THEN "sent" ELSE "queued"]
          /\ UNCHANGED <<mail, attempts, due, content>>
       \/ /\ Valid(k) # {} /\ address /\ mail[k] \in Requeued
          /\ state' = [state EXCEPT ![k] = "queued"]
          /\ mail' = [mail EXCEPT ![k] = "outgoing"]
          /\ content' = [content EXCEPT ![k] = Valid(k)]
          /\ attempts' = [attempts EXCEPT ![k] = @ + 1]
          /\ due' = [due EXCEPT ![k] = FALSE]
    /\ UNCHANGED escalated

AddressMutant(k) == attempts[k] >= MaxAttempts
Exhausted(k) == attempts[k] >= MaxAttempts \/ ~address

Seen(k) ==
    CASE state[k] = "queued" /\ mail[k] = "sent" -> "sent"
      [] state[k] = "queued" /\ mail[k] = "exception" -> "failed"
      [] OTHER -> state[k]

(* The dispatch cron on one delivery; the transport holds its lock.          *)
Dispatch(k) ==
    LET seen == Seen(k) IN
    /\ state[k] \in {"pending", "queued", "failed"} /\ transport[k] # "sending"
    /\ \/ /\ state[k] = "pending" \/ (state[k] = "failed" /\ ~Exhausted(k) /\ due[k])
          /\ QueueEmail(k)
       \/ /\ seen = "failed" /\ Exhausted(k) /\ state[k] # "pending"
          /\ state' = [state EXCEPT ![k] = seen]
          /\ due' = [due EXCEPT ![k] = @ /\ state[k] = "failed"]
          /\ escalated' = [escalated EXCEPT ![k] = TRUE]
          /\ UNCHANGED <<receiptIds, mail, attempts, content>>
       \/ /\ state[k] = "queued" /\ ~(seen = "failed" /\ Exhausted(k))
          /\ state' = [state EXCEPT ![k] = seen]
          /\ due' = [due EXCEPT ![k] = @ /\ seen # "failed"]
          /\ UNCHANGED <<receiptIds, mail, attempts, content, escalated>>
    /\ UNCHANGED <<userVars, receipt, transport, history>>

RetryDelivery(k) ==
    /\ state[k] = "failed" /\ transport[k] # "sending"
    /\ asked < MaxManagerSteps /\ asked' = asked + 1
    /\ QueueEmail(k)
    /\ UNCHANGED <<userVars, receipt, transport, emailed, lost, changes>>

RetryDue(k) ==
    /\ state[k] = "failed" /\ ~due[k]
    /\ due' = [due EXCEPT ![k] = TRUE]
    /\ UNCHANGED <<userVars, receipt, state, receiptIds, mail, attempts, escalated,
                   transport, content, history>>

-----------------------------------------------------------------------------
(* The mail queue: send looks at preference and access once more. *)

StartSend(k) ==
    /\ mail[k] = "outgoing" /\ transport[k] = "idle"
    /\ receiptIds' = [receiptIds EXCEPT ![k] = @ \ Dropped(k)]
    /\ \/ /\ Valid(k) = {} \/ ~address
          /\ mail' = [mail EXCEPT ![k] = "cancel"]
          /\ state' = [state EXCEPT ![k] = "cancelled"]
          /\ UNCHANGED <<transport, content>>
       \/ /\ Valid(k) # {} /\ address
          /\ transport' = [transport EXCEPT ![k] = "sending"]
          /\ content' = [content EXCEPT ![k] = Valid(k)]
          /\ UNCHANGED <<mail, state>>
    /\ UNCHANGED <<userVars, receipt, attempts, due, escalated, history>>

Took(k) == [r \in Receipts |-> IF r \in content[k] THEN emailed[r] + 1 ELSE emailed[r]]

Transmit(k, as) ==
    /\ transport[k] = "sending"
    /\ transport' = [transport EXCEPT ![k] = "reporting"]
    /\ mail' = [mail EXCEPT ![k] = as]
    /\ emailed' = IF as = "sent" THEN Took(k) ELSE emailed
    /\ UNCHANGED <<userVars, receipt, state, receiptIds, attempts, due, escalated, content,
                   lost, asked, changes>>

Report(k) ==
    /\ transport[k] = "reporting"
    /\ transport' = [transport EXCEPT ![k] = "idle"]
    /\ state' = [state EXCEPT ![k] = CASE mail[k] = "sent" -> "sent"
                                       [] mail[k] = "exception" -> "failed"
                                       [] OTHER -> @]
    /\ due' = [due EXCEPT ![k] = @ /\ mail[k] # "exception"]
    /\ UNCHANGED <<userVars, receipt, receiptIds, mail, attempts, escalated, content, history>>

Die(k, took) ==
    /\ transport[k] \in {"sending", "reporting"} /\ lost < MaxDeaths
    /\ took => transport[k] = "sending"
    /\ transport' = [transport EXCEPT ![k] = "idle"]
    /\ lost' = lost + 1
    /\ emailed' = IF took THEN Took(k) ELSE emailed
    /\ UNCHANGED <<userVars, receipt, deliveryVars, content, asked, changes>>

-----------------------------------------------------------------------------
MailQueue(k) ==
    \/ StartSend(k) \/ Report(k)
    \/ \E as \in {"sent", "exception"} : Transmit(k, as)
    \/ \E took \in BOOLEAN : Die(k, took)

Next ==
    \/ \E r \in Receipts : PublishAction(r) \/ \E as \in {"acknowledged", "complete"} : Progress(r, as)
    \/ \E m \in Modes : SavePreference(m)
    \/ \E allowed, reachable \in BOOLEAN : ChangeUser(allowed, reachable)
    \/ \E d \in Days : SendDigest(d)
    \/ \E k \in Keys : Dispatch(k) \/ RetryDelivery(k) \/ RetryDue(k) \/ MailQueue(k)

Fairness ==
    \A k \in Keys : WF_vars(Dispatch(k)) /\ WF_vars(RetryDue(k)) /\ WF_vars(MailQueue(k))

Spec == Init /\ [][Next]_vars /\ Fairness

-----------------------------------------------------------------------------
(* No participant gets two emails of one event, in its own mail, a retry of  *)
(* it, or a digest, except for a worker that died while sending; and a        *)
(* delivery says sent only of a mail the server took.                        *)
EmailedOnce ==
    /\ \A r \in Receipts : emailed[r] <= 1 + lost
    /\ \A k \in Keys : state[k] = "sent" => mail[k] = "sent"

(* Every delivery is sent, cancelled or brought before the managers some     *)
(* day, whatever fails on the way.                                           *)
DeliverySettles ==
    \A k \in Keys :
        (state[k] \in {"pending", "queued", "failed"}) ~>
            (state[k] \in {"sent", "cancelled"} \/ escalated[k])
=============================================================================
