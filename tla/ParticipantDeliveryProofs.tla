---------------------- MODULE ParticipantDeliveryProofs ----------------------
(***************************************************************************)
(* ParticipantDelivery: the receipts of two deliveries are disjoint, and a *)
(* mail lists only receipts its delivery still has when it is handed over; *)
(* so a second mail of an event needs a worker that died while sending.    *)
(***************************************************************************)
EXTENDS ParticipantDelivery, TLAPS

(* What is known of one delivery: the mails its state can have, and what     *)
(* the mail lists while it is sent and after.                               *)
Carried(k) == transport[k] = "sending" \/ mail[k] = "sent"
Consistent(k) ==
    /\ state[k] = "none" => receiptIds[k] = {}
    /\ state[k] \in {"none", "pending", "suppressed"} => mail[k] = "none"
    /\ state[k] \in {"none", "pending"} => attempts[k] = 0
    /\ state[k] = "queued" => mail[k] \in {"outgoing", "sent", "exception"}
    /\ state[k] = "sent" => mail[k] = "sent"
    /\ state[k] = "failed" => mail[k] \in {"none", "exception"}
    /\ state[k] = "cancelled" => mail[k] \in {"none", "cancel"}
    /\ transport[k] = "sending" => mail[k] = "outgoing"
    /\ Carried(k) => content[k] \subseteq receiptIds[k]
    /\ attempts[k] <= MaxAttempts + asked

(* An event is carried by one delivery at most, by none before it happens.  *)
OneCarrier ==
    /\ \A j, k \in Keys : j # k => receiptIds[j] \cap receiptIds[k] = {}
    /\ \A r \in Receipts : receipt[r] = "none" => state[r] = "none" /\ Unlinked(r)

(* The mails of an event the server took: those lost with a worker, and one  *)
(* more if a delivery shows it as sent.                                     *)
Shown(r) == \E k \in Keys : mail[k] = "sent" /\ r \in content[k]
Counted ==
    \A r \in Receipts : /\ emailed[r] <= 1 + lost
                        /\ emailed[r] <= lost \/ Shown(r)

WellCarried ==
    /\ state \in [Keys -> {"none", "pending", "queued", "sent", "failed", "cancelled", "suppressed"}]
    /\ receiptIds \in [Keys -> SUBSET Receipts]
    /\ (\A k \in Keys : Consistent(k)) /\ OneCarrier

IInv == TypeOK /\ (\A k \in Keys : Consistent(k)) /\ OneCarrier /\ Counted

(* The type invariant, conjunct by conjunct. *)
LEMMA Types ==
    ASSUME TypeOK
    PROVE  /\ mode \in Modes /\ authorised \in BOOLEAN /\ address \in BOOLEAN
           /\ due \in [Keys -> BOOLEAN] /\ escalated \in [Keys -> BOOLEAN]
           /\ attempts \in [Keys -> Nat] /\ lost \in Nat /\ asked \in Nat /\ changes \in Nat
  BY DeliveryAssumption DEF TypeOK

(* Keys are receipts or days, not both. *)
LEMMA KeysApart ==
    /\ Receipts \subseteq Keys /\ Days \subseteq Keys
    /\ \A d \in Days : d \notin Receipts
    /\ MaxAttempts \in Nat /\ MaxAttempts > 0
    /\ MaxManagerSteps \in Nat /\ MaxChanges \in Nat /\ MaxDeaths \in Nat
  BY DeliveryAssumption DEF Keys

LEMMA InvInit == Init => IInv
<1> SUFFICES ASSUME Init PROVE IInv
  OBVIOUS
<1> USE KeysApart
<1>1. TypeOK
  BY DEF Init, TypeOK
<1>2. \A k \in Keys : Consistent(k)
  BY DEF Init, Consistent, Carried
<1>3. OneCarrier
  BY DEF Init, OneCarrier, Unlinked
<1>4. Counted
  BY DEF Init, Counted
<1>5. QED
  BY <1>1, <1>2, <1>3, <1>4 DEF IInv

(* A step on one delivery that exists, which may only lose receipts. *)
LEMMA OneDelivery ==
    ASSUME IInv, NEW k \in Keys,
           \A j \in Keys \ {k} :
              /\ state'[j] = state[j] /\ receiptIds'[j] = receiptIds[j]
              /\ mail'[j] = mail[j] /\ attempts'[j] = attempts[j]
              /\ transport'[j] = transport[j] /\ content'[j] = content[j],
           receipt' = receipt, asked' \in Nat, asked' >= asked,
           state[k] # "none", receiptIds'[k] \subseteq receiptIds[k], Consistent(k)'
    PROVE  (\A j \in Keys : Consistent(j)') /\ OneCarrier'
<1> USE KeysApart
<1>1. TypeOK /\ (\A j \in Keys : Consistent(j)) /\ OneCarrier
  BY DEF IInv
<1>2. attempts \in [Keys -> Nat] /\ asked \in Nat
  BY <1>1, Types
<1>3. ASSUME NEW j \in Keys \ {k}  PROVE Consistent(j)'
  <2>1. attempts[j] \in Nat /\ attempts[j] <= MaxAttempts + asked
    BY <1>1, <1>2 DEF Consistent
  <2>2. attempts'[j] <= MaxAttempts + asked'
    BY <1>2, <2>1
  <2>3. QED
    BY <1>1, <2>2 DEF Consistent, Carried
<1>4. \A j \in Keys : Consistent(j)'
  BY <1>3
<1>5. \A j \in Keys : receiptIds'[j] \subseteq receiptIds[j]
  OBVIOUS
<1>6. \A i, j \in Keys : i # j => receiptIds'[i] \cap receiptIds'[j] = {}
  BY <1>1, <1>5 DEF OneCarrier
<1>7. \A r \in Receipts : receipt[r] = "none" => state'[r] = "none" /\ Unlinked(r)'
  BY <1>1, <1>5 DEF OneCarrier, Unlinked
<1>8. QED
  BY <1>4, <1>6, <1>7 DEF OneCarrier

(* A step after which no mail is taken back counts as before. *)
LEMMA QuietStep ==
    ASSUME IInv, emailed' = emailed, lost' \in Nat, lost' >= lost,
           \A k \in Keys : mail[k] = "sent" => mail'[k] = "sent" /\ content'[k] = content[k]
    PROVE  Counted'
<1>1. TypeOK /\ Counted
  BY DEF IInv
<1>2. lost \in Nat /\ emailed \in [Receipts -> Nat]
  BY <1>1, Types DEF TypeOK
<1>3. ASSUME NEW r \in Receipts
      PROVE  emailed'[r] <= 1 + lost' /\ (emailed'[r] <= lost' \/ Shown(r)')
  <2>1. emailed[r] \in Nat /\ emailed[r] <= 1 + lost /\ (emailed[r] <= lost \/ Shown(r))
    BY <1>1, <1>2 DEF Counted
  <2>2. Shown(r) => Shown(r)'
    BY DEF Shown
  <2>3. emailed'[r] = emailed[r]
    OBVIOUS
  <2>4. QED
    BY <1>2, <2>1, <2>2, <2>3
<1>4. QED
  BY <1>3 DEF Counted

(* A step that only makes deliveries, of receipts that no other carries. *)
LEMMA DeliverKeeps ==
    ASSUME IInv, NEW keys \in SUBSET Keys, NEW as \in {"pending", "suppressed"},
           NEW of \in [Keys -> SUBSET Receipts], Deliver(keys, as, of),
           \A k \in keys : state[k] = "none" /\ (\A r \in of[k] : Unlinked(r)),
           \A j, k \in keys : j # k => of[j] \cap of[k] = {},
           UNCHANGED <<mail, attempts, transport, content, asked>>,
           receipt' \in [Receipts -> {"none", "open", "acknowledged", "complete"}],
           \A r \in Receipts : receipt'[r] = "none" =>
               receipt[r] = "none" /\ r \notin keys /\ (\A k \in keys : r \notin of[k])
    PROVE  WellCarried'
<1> USE KeysApart
<1>1. TypeOK /\ (\A j \in Keys : Consistent(j)) /\ OneCarrier
  BY DEF IInv
<1>2. \A k \in Keys : /\ state'[k] = (IF k \in keys THEN as ELSE state[k])
                      /\ receiptIds'[k] = (IF k \in keys THEN of[k] ELSE receiptIds[k])
  BY DEF Deliver
<1>3. /\ state' \in [Keys -> {"none", "pending", "queued", "sent", "failed", "cancelled", "suppressed"}]
      /\ receiptIds' \in [Keys -> SUBSET Receipts]
  BY <1>1 DEF Deliver, TypeOK
<1>4. ASSUME NEW k \in Keys  PROVE Consistent(k)'
  <2>1. CASE k \in keys
    <3>1. state[k] = "none" /\ Consistent(k)
      BY <1>1, <2>1
    <3>2. mail[k] = "none" /\ attempts[k] = 0 /\ transport[k] # "sending"
          /\ attempts[k] <= MaxAttempts + asked
      BY <3>1 DEF Consistent
    <3>3. state'[k] \in {"pending", "suppressed"}
      BY <1>2, <2>1
    <3>4. QED
      BY <3>2, <3>3 DEF Consistent, Carried
  <2>2. CASE k \notin keys
    <3>1. state'[k] = state[k] /\ receiptIds'[k] = receiptIds[k]
      BY <1>2, <2>2
    <3>2. QED
      BY <1>1, <3>1 DEF Consistent, Carried
  <2>3. QED
    BY <2>1, <2>2
<1>5. ASSUME NEW j \in Keys, NEW k \in Keys, j # k
      PROVE  receiptIds'[j] \cap receiptIds'[k] = {}
  <2>1. \A i \in keys, l \in Keys : of[i] \cap receiptIds[l] = {}
    BY DEF Unlinked
  <2>2. receiptIds[j] \cap receiptIds[k] = {}
    BY <1>1, <1>5 DEF OneCarrier
  <2>3. CASE j \in keys /\ k \in keys
    BY <1>2, <1>5, <2>3
  <2>4. CASE j \in keys /\ k \notin keys
    <3>1. of[j] \cap receiptIds[k] = {}
      BY <2>1, <2>4
    <3>2. QED
      BY <1>2, <2>4, <3>1
  <2>5. CASE j \notin keys /\ k \in keys
    <3>1. of[k] \cap receiptIds[j] = {}
      BY <2>1, <2>5
    <3>2. QED
      BY <1>2, <2>5, <3>1
  <2>6. CASE j \notin keys /\ k \notin keys
    BY <1>2, <2>2, <2>6
  <2>7. QED
    BY <2>3, <2>4, <2>5, <2>6
<1>6. ASSUME NEW r \in Receipts, receipt'[r] = "none"
      PROVE  state'[r] = "none" /\ Unlinked(r)'
  <2>1. receipt[r] = "none" /\ r \notin keys /\ (\A k \in keys : r \notin of[k])
    BY <1>6
  <2>2. state[r] = "none" /\ (\A k \in Keys : r \notin receiptIds[k])
    BY <1>1, <2>1 DEF OneCarrier, Unlinked
  <2>3. \A k \in Keys : r \notin receiptIds'[k]
    BY <1>2, <2>1, <2>2
  <2>4. QED
    BY <1>2, <2>1, <2>2, <2>3 DEF Unlinked
<1>7. QED
  BY <1>3, <1>4, <1>5, <1>6 DEF OneCarrier, WellCarried
(* An event happens, and the participant's preference has it delivered. *)
LEMMA PublishKeeps ==
    ASSUME IInv, NEW r \in Receipts, PublishAction(r)
    PROVE  IInv'
<1> USE KeysApart
<1>1. TypeOK /\ OneCarrier /\ (\A k \in Keys : Consistent(k)) /\ Counted
  BY DEF IInv
<1>2. state[r] = "none" /\ Unlinked(r)
  BY <1>1 DEF PublishAction, OneCarrier
<1>3. /\ receipt' \in [Receipts -> {"none", "open", "acknowledged", "complete"}]
      /\ receipt'[r] = "open" /\ \A s \in Receipts \ {r} : receipt'[s] = receipt[s]
  BY <1>1 DEF PublishAction, TypeOK
<1>4. UNCHANGED <<mail, attempts, transport, content, asked, emailed, lost>>
  BY DEF PublishAction, history
<1>5. Own \in [Keys -> SUBSET Receipts] /\ Own[r] = {r}
  BY DEF Own
<1>6. ASSUME NEW as \in {"pending", "suppressed"}, Deliver({r}, as, Own)
      PROVE  WellCarried'
  <2> DEFINE keys == {r}
  <2>1. \A s \in Receipts : receipt'[s] = "none" =>
            receipt[s] = "none" /\ s \notin keys /\ (\A k \in keys : s \notin Own[k])
    BY <1>3, <1>5
  <2>2. \A k \in keys : state[k] = "none" /\ (\A s \in Own[k] : Unlinked(s))
    BY <1>2, <1>5
  <2>3. \A j, k \in keys : j # k => Own[j] \cap Own[k] = {}
    OBVIOUS
  <2>4. keys \in SUBSET Keys /\ Deliver(keys, as, Own)
    BY <1>6
  <2>5. UNCHANGED <<mail, attempts, transport, content, asked>>
    BY <1>4
  <2>6. receipt' \in [Receipts -> {"none", "open", "acknowledged", "complete"}]
    BY <1>3
  <2> HIDE DEF keys
  <2>7. as = "pending" \/ as = "suppressed"
    OBVIOUS
  <2>8. CASE as = "pending"
    BY <1>5, <2>1, <2>2, <2>3, <2>4, <2>5, <2>6, <2>8, DeliverKeeps
  <2>9. CASE as = "suppressed"
    BY <1>5, <2>1, <2>2, <2>3, <2>4, <2>5, <2>6, <2>9, DeliverKeeps
  <2>10. QED
    BY <2>7, <2>8, <2>9
<1>7. WellCarried'
  <2>1. CASE mode = "immediate"
    BY <1>6, <2>1 DEF PublishAction
  <2>2. CASE mode = "inbox"
    BY <1>6, <2>2 DEF PublishAction
  <2>3. CASE mode \notin {"immediate", "inbox"}
    <3>1. UNCHANGED <<state, receiptIds>>
      BY <2>3 DEF PublishAction
    <3>2. \A k \in Keys : Consistent(k)'
      BY <1>1, <1>4, <3>1 DEF Consistent, Carried
    <3>3. OneCarrier'
      BY <1>1, <1>3, <3>1 DEF OneCarrier, Unlinked
    <3>4. QED
      BY <1>1, <3>1, <3>2, <3>3 DEF TypeOK, WellCarried
  <2>4. QED
    BY <2>1, <2>2, <2>3
<1>8. TypeOK'
  BY <1>1, <1>3, <1>7 DEF PublishAction, TypeOK, WellCarried, userVars, history
<1>9. Counted'
  BY <1>1, <1>4 DEF Counted, Shown
<1>10. QED
  BY <1>7, <1>8, <1>9 DEF IInv, WellCarried

(* The participant works on the task, or the participant's account changes. *)
LEMMA ReaderKeeps ==
    ASSUME IInv,
           \/ \E r \in Receipts, as \in {"acknowledged", "complete"} : Progress(r, as)
           \/ \E allowed, reachable \in BOOLEAN : ChangeUser(allowed, reachable)
    PROVE  IInv'
<1> USE KeysApart
<1>1. TypeOK /\ OneCarrier /\ (\A k \in Keys : Consistent(k)) /\ Counted
  BY DEF IInv
<1>2. UNCHANGED <<deliveryVars, transport, content, emailed, lost, asked>>
  BY DEF Progress, ChangeUser, history
<1>3. /\ receipt' \in [Receipts -> {"none", "open", "acknowledged", "complete"}]
      /\ \A r \in Receipts : receipt'[r] = "none" => receipt[r] = "none"
  BY <1>1 DEF Progress, ChangeUser, TypeOK
<1>4. TypeOK'
  <2>1. CASE \E r \in Receipts, as \in {"acknowledged", "complete"} : Progress(r, as)
    <3>1. UNCHANGED <<mode, authorised, address, state, receiptIds, mail, attempts, due, escalated,
                      transport, content, emailed, lost, asked, changes>>
      BY <2>1 DEF Progress, userVars, deliveryVars, history
    <3>2. QED
      BY <1>1, <1>3, <3>1 DEF TypeOK
  <2>2. CASE \E allowed, reachable \in BOOLEAN : ChangeUser(allowed, reachable)
    <3>1. changes' \in 0..MaxChanges
      BY <1>1, <2>2 DEF ChangeUser, TypeOK
    <3>2. mode' = mode /\ authorised' \in BOOLEAN /\ address' \in BOOLEAN
      BY <2>2 DEF ChangeUser
    <3>3. QED
      BY <1>1, <1>2, <1>3, <3>1, <3>2 DEF TypeOK, deliveryVars
  <2>3. QED
    BY <2>1, <2>2
<1>5. \A k \in Keys : Consistent(k)'
  BY <1>1, <1>2 DEF Consistent, Carried, deliveryVars
<1>6. OneCarrier'
  BY <1>1, <1>2, <1>3 DEF OneCarrier, Unlinked, deliveryVars
<1>7. Counted'
  BY <1>1, <1>2 DEF Counted, Shown, deliveryVars
<1>8. QED
  BY <1>4, <1>5, <1>6, <1>7 DEF IInv

(* A new preference queues what no delivery carries. *)
LEMMA PreferenceKeeps ==
    ASSUME IInv, NEW m \in Modes, SavePreference(m)
    PROVE  IInv'
<1> USE KeysApart
<1>1. TypeOK /\ OneCarrier /\ (\A k \in Keys : Consistent(k)) /\ Counted
  BY DEF IInv
<1>2. UNCHANGED <<authorised, address, receipt, mail, attempts, due, escalated, transport,
                  content, emailed, lost, asked>>
  BY DEF SavePreference
<1> DEFINE waiting == {r \in Receipts : /\ receipt[r] \in {"open", "acknowledged"} /\ authorised
                                        /\ Unlinked(r) /\ state[r] = "none"}
<1>3. ASSUME m = "immediate"  PROVE WellCarried'
  <2>1. Deliver(waiting, "pending", Own)
    BY <1>3 DEF SavePreference
  <2>2. Own \in [Keys -> SUBSET Receipts] /\ \A r \in Receipts : Own[r] = {r}
    BY DEF Own
  <2>3. \A k \in waiting : state[k] = "none" /\ (\A r \in Own[k] : Unlinked(r))
    BY <2>2
  <2>4. \A j, k \in waiting : j # k => Own[j] \cap Own[k] = {}
    BY <2>2
  <2>5. \A r \in Receipts : receipt'[r] = "none" =>
            receipt[r] = "none" /\ r \notin waiting /\ (\A k \in waiting : r \notin Own[k])
    BY <1>2, <2>2
  <2>6. waiting \in SUBSET Keys
    OBVIOUS
  <2>7. receipt' \in [Receipts -> {"none", "open", "acknowledged", "complete"}]
    BY <1>1, <1>2 DEF TypeOK
  <2> HIDE DEF waiting
  <2>8. QED
    BY <1>2, <2>1, <2>2, <2>3, <2>4, <2>5, <2>6, <2>7, DeliverKeeps
<1>4. ASSUME m # "immediate"  PROVE WellCarried'
  <2>1. UNCHANGED <<state, receiptIds>>
    BY <1>4 DEF SavePreference
  <2>2. \A k \in Keys : Consistent(k)'
    BY <1>1, <1>2, <2>1 DEF Consistent, Carried
  <2>3. OneCarrier'
    BY <1>1, <1>2, <2>1 DEF OneCarrier, Unlinked
  <2>4. QED
    BY <1>1, <2>1, <2>2, <2>3 DEF TypeOK, WellCarried
<1>5. WellCarried'
  BY <1>3, <1>4
<1>6. mode' \in Modes /\ changes' \in 0..MaxChanges
  BY <1>1 DEF SavePreference, TypeOK
<1>7. TypeOK'
  BY <1>1, <1>2, <1>5, <1>6 DEF TypeOK, WellCarried
<1>8. Counted'
  BY <1>1, <1>2 DEF Counted, Shown
<1>9. QED
  BY <1>5, <1>7, <1>8 DEF IInv, WellCarried

(* A digest carries what no delivery carries. *)
LEMMA DigestKeeps ==
    ASSUME IInv, NEW d \in Days, SendDigest(d)
    PROVE  IInv'
<1> USE KeysApart
<1>1. TypeOK /\ OneCarrier /\ (\A k \in Keys : Consistent(k)) /\ Counted
  BY DEF IInv
<1>2. UNCHANGED <<userVars, receipt, mail, attempts, due, escalated, transport, content, history>>
  BY DEF SendDigest
<1> DEFINE selected == {r \in Receipts : receipt[r] = "open" /\ Unlinked(r)}
           of == [k \in Keys |-> selected]
<1>3. Deliver({d}, "pending", of)
  BY DEF SendDigest
<1>4. of \in [Keys -> SUBSET Receipts] /\ of[d] = selected
  OBVIOUS
<1>5. \A k \in {d} : state[k] = "none" /\ (\A r \in of[k] : Unlinked(r))
  BY <1>4 DEF SendDigest
<1>6. \A j, k \in {d} : j # k => of[j] \cap of[k] = {}
  OBVIOUS
<1>7. \A r \in Receipts : receipt'[r] = "none" =>
          receipt[r] = "none" /\ r \notin {d} /\ (\A k \in {d} : r \notin of[k])
  BY <1>2, <1>4
<1>8. {d} \in SUBSET Keys /\ receipt' \in [Receipts -> {"none", "open", "acknowledged", "complete"}]
      /\ UNCHANGED <<mail, attempts, transport, content, asked, emailed, lost>>
  BY <1>1, <1>2 DEF TypeOK, history
<1>9. WellCarried'
  <2> HIDE DEF of
  <2>1. QED
    BY <1>3, <1>4, <1>5, <1>6, <1>7, <1>8, DeliverKeeps
<1>10. TypeOK'
  BY <1>1, <1>2, <1>9 DEF TypeOK, WellCarried, userVars, history
<1>11. Counted'
  BY <1>1, <1>8 DEF Counted, Shown
<1>12. QED
  BY <1>9, <1>10, <1>11 DEF IInv, WellCarried
(* Queueing a delivery that waits, or failed and is retried. *)
LEMMA QueueKeeps ==
    ASSUME IInv, NEW k \in Keys, state[k] \in {"pending", "failed"}, QueueEmail(k),
           UNCHANGED <<mode, authorised, address, receipt, transport, emailed, lost, changes>>,
           asked' \in 0..MaxManagerSteps, asked' >= asked,
           attempts[k] + 1 <= MaxAttempts + asked'
    PROVE  IInv'
<1> USE KeysApart
<1>1. TypeOK /\ OneCarrier /\ Consistent(k) /\ Counted
  BY DEF IInv
<1>2. /\ attempts \in [Keys -> Nat] /\ asked \in Nat /\ lost \in Nat /\ asked' \in Nat
      /\ due \in [Keys -> BOOLEAN] /\ escalated \in [Keys -> BOOLEAN]
  BY <1>1, Types
<1>3. /\ mail[k] \in {"none", "exception"} /\ transport[k] # "sending"
      /\ attempts[k] <= MaxAttempts + asked
  BY <1>1 DEF Consistent
<1>4. /\ receiptIds' = [receiptIds EXCEPT ![k] = receiptIds[k] \ DroppedQueueing(k)]
      /\ escalated' = escalated
  BY DEF QueueEmail
<1>5. Valid(k) \subseteq receiptIds[k] /\ Valid(k) \in SUBSET Receipts
  BY <1>1 DEF Valid, TypeOK
<1>6. /\ receiptIds' \in [Keys -> SUBSET Receipts] /\ receiptIds'[k] \subseteq receiptIds[k]
      /\ \A j \in Keys \ {k} : receiptIds'[j] = receiptIds[j]
  BY <1>1, <1>4 DEF TypeOK
<1> DEFINE Result ==
      /\ state' \in [Keys -> {"none", "pending", "queued", "sent", "failed", "cancelled", "suppressed"}]
      /\ mail' \in [Keys -> {"none", "outgoing", "sent", "exception", "cancel"}]
      /\ attempts' \in [Keys -> 0..MaxAttempts + MaxManagerSteps]
      /\ due' \in [Keys -> BOOLEAN] /\ content' \in [Keys -> SUBSET Receipts]
      /\ \A j \in Keys \ {k} : /\ state'[j] = state[j] /\ mail'[j] = mail[j]
                               /\ attempts'[j] = attempts[j] /\ content'[j] = content[j]
      /\ attempts'[k] <= MaxAttempts + asked'
      /\ \/ state'[k] = "cancelled" /\ mail'[k] \in {"none", "cancel"}
         \/ state'[k] = "failed" /\ mail'[k] = mail[k]
         \/ state'[k] = "queued" /\ mail'[k] = "outgoing"
<1>7. Result
  <2>1. CASE /\ Valid(k) = {}
             /\ state' = [state EXCEPT ![k] = "cancelled"]
             /\ mail' = [mail EXCEPT ![k] = IF @ \in {"outgoing", "exception"} THEN "cancel" ELSE @]
             /\ UNCHANGED <<attempts, due, content>>
    BY <1>1, <1>2, <1>3, <2>1 DEF TypeOK
  <2>2. CASE /\ state' = [state EXCEPT ![k] = "failed"]
             /\ due' = [due EXCEPT ![k] = FALSE]
             /\ UNCHANGED <<mail, attempts, content>>
    BY <1>1, <1>2, <1>3, <2>2 DEF TypeOK
  <2>3. CASE /\ state' = [state EXCEPT ![k] = "queued"]
             /\ mail' = [mail EXCEPT ![k] = "outgoing"]
             /\ content' = [content EXCEPT ![k] = Valid(k)]
             /\ attempts' = [attempts EXCEPT ![k] = @ + 1]
             /\ due' = [due EXCEPT ![k] = FALSE]
    <3>1. attempts[k] + 1 \in 0..MaxAttempts + MaxManagerSteps
      BY <1>2
    <3>2. attempts' \in [Keys -> 0..MaxAttempts + MaxManagerSteps] /\ attempts'[k] = attempts[k] + 1
      BY <1>1, <1>2, <2>3, <3>1 DEF TypeOK
    <3>3. content' \in [Keys -> SUBSET Receipts]
      BY <1>1, <1>5, <2>3 DEF TypeOK
    <3>4. QED
      BY <1>1, <1>2, <2>3, <3>2, <3>3 DEF TypeOK
  <2>4. QED
    BY <1>3, <2>1, <2>2, <2>3 DEF QueueEmail
<1> HIDE DEF Result
<1>8. Consistent(k)'
  <2>1. transport'[k] # "sending"
    BY <1>3
  <2>2. QED
    BY <1>3, <1>7, <2>1 DEF Result, Consistent, Carried
<1>9. (\A j \in Keys : Consistent(j)') /\ OneCarrier'
  <2>1. \A j \in Keys \ {k} :
              /\ state'[j] = state[j] /\ receiptIds'[j] = receiptIds[j]
              /\ mail'[j] = mail[j] /\ attempts'[j] = attempts[j]
              /\ transport'[j] = transport[j] /\ content'[j] = content[j]
    BY <1>6, <1>7 DEF Result
  <2>2. state[k] # "none"
    OBVIOUS
  <2>3. QED
    BY <1>2, <1>6, <1>8, <2>1, <2>2, OneDelivery
<1>10. Counted'
  <2>1. \A j \in Keys : mail[j] = "sent" => mail'[j] = "sent" /\ content'[j] = content[j]
    BY <1>3, <1>7 DEF Result
  <2>2. lost' \in Nat /\ lost' >= lost
    BY <1>2
  <2>3. QED
    BY <2>1, <2>2, QuietStep
<1>11. TypeOK'
  BY <1>1, <1>2, <1>4, <1>6, <1>7 DEF TypeOK, Result
<1>12. QED
  BY <1>9, <1>10, <1>11 DEF IInv

(* The dispatch run on one delivery. *)
LEMMA DispatchKeeps ==
    ASSUME IInv, NEW k \in Keys, Dispatch(k)
    PROVE  IInv'
<1> USE KeysApart
<1>1. TypeOK /\ OneCarrier /\ Consistent(k) /\ Counted
  BY DEF IInv
<1>2. /\ attempts \in [Keys -> Nat] /\ asked \in Nat /\ lost \in Nat
      /\ due \in [Keys -> BOOLEAN] /\ escalated \in [Keys -> BOOLEAN]
  BY <1>1, Types
<1>3. /\ UNCHANGED <<mode, authorised, address, receipt, transport, emailed, lost, asked, changes>>
      /\ state[k] \in {"pending", "queued", "failed"}
  BY DEF Dispatch, userVars, history
<1>4. CASE /\ state[k] = "pending" \/ (state[k] = "failed" /\ ~Exhausted(k) /\ due[k])
           /\ QueueEmail(k)
  <2>1. attempts[k] + 1 <= MaxAttempts
    <3>1. CASE state[k] = "pending"
      BY <1>1, <3>1 DEF Consistent
    <3>2. CASE ~Exhausted(k)
      BY <1>2, <3>2 DEF Exhausted
    <3>3. QED
      BY <1>4, <3>1, <3>2
  <2>2. /\ attempts[k] + 1 <= MaxAttempts + asked' /\ asked' >= asked
        /\ asked' \in 0..MaxManagerSteps
    BY <1>1, <1>2, <1>3, <2>1 DEF TypeOK
  <2>3. state[k] \in {"pending", "failed"}
    BY <1>4
  <2>4. QED
    BY <1>3, <1>4, <2>2, <2>3, QueueKeeps
<1>5. CASE /\ state' = [state EXCEPT ![k] = Seen(k)]
           /\ due' \in [Keys -> BOOLEAN] /\ escalated' \in [Keys -> BOOLEAN]
           /\ UNCHANGED <<receiptIds, mail, attempts, content>>
  <2>1. /\ Seen(k) = state[k]
           \/ (state[k] = "queued" /\ mail[k] = "sent" /\ Seen(k) = "sent")
           \/ (state[k] = "queued" /\ mail[k] = "exception" /\ Seen(k) = "failed")
    BY DEF Seen
  <2>2. /\ state' \in [Keys -> {"none", "pending", "queued", "sent", "failed", "cancelled", "suppressed"}]
        /\ state'[k] = Seen(k) /\ \A j \in Keys \ {k} : state'[j] = state[j]
    BY <1>1, <1>3, <1>5, <2>1 DEF TypeOK
  <2>3. Consistent(k)'
    BY <1>1, <1>3, <1>5, <2>1, <2>2 DEF Consistent, Carried
  <2>4. (\A j \in Keys : Consistent(j)') /\ OneCarrier'
    <3>1. \A j \in Keys \ {k} :
              /\ state'[j] = state[j] /\ receiptIds'[j] = receiptIds[j]
              /\ mail'[j] = mail[j] /\ attempts'[j] = attempts[j]
              /\ transport'[j] = transport[j] /\ content'[j] = content[j]
      BY <1>3, <1>5, <2>2
    <3>2. asked' \in Nat /\ asked' >= asked /\ receipt' = receipt
      BY <1>2, <1>3
    <3>3. state[k] # "none" /\ receiptIds'[k] \subseteq receiptIds[k]
      BY <1>3, <1>5
    <3>4. QED
      BY <2>3, <3>1, <3>2, <3>3, OneDelivery
  <2>5. Counted'
    <3>1. lost' \in Nat /\ lost' >= lost /\ emailed' = emailed
      BY <1>2, <1>3
    <3>2. \A j \in Keys : mail[j] = "sent" => mail'[j] = "sent" /\ content'[j] = content[j]
      BY <1>5
    <3>3. QED
      BY <3>1, <3>2, QuietStep
  <2>6. TypeOK'
    BY <1>1, <1>3, <1>5, <2>2 DEF TypeOK
  <2>7. QED
    BY <2>4, <2>5, <2>6 DEF IInv
<1>6. QED
  <2>1. ASSUME NEW waits \in BOOLEAN, due' = [due EXCEPT ![k] = @ /\ waits]
        PROVE  due' \in [Keys -> BOOLEAN]
    BY <1>2, <2>1
  <2>2. CASE /\ state' = [state EXCEPT ![k] = Seen(k)]
             /\ due' = [due EXCEPT ![k] = @ /\ state[k] = "failed"]
             /\ escalated' = [escalated EXCEPT ![k] = TRUE]
             /\ UNCHANGED <<receiptIds, mail, attempts, content>>
    <3>1. due' \in [Keys -> BOOLEAN]
      BY <1>2, <2>2
    <3>2. escalated' \in [Keys -> BOOLEAN]
      BY <1>2, <2>2
    <3>3. QED
      BY <1>5, <2>2, <3>1, <3>2
  <2>3. CASE /\ state' = [state EXCEPT ![k] = Seen(k)]
             /\ due' = [due EXCEPT ![k] = @ /\ Seen(k) # "failed"]
             /\ UNCHANGED <<receiptIds, mail, attempts, content, escalated>>
    <3>1. due' \in [Keys -> BOOLEAN]
      BY <1>2, <2>3
    <3>2. QED
      BY <1>2, <1>5, <2>3, <3>1
  <2>4. QED
    BY <1>4, <2>2, <2>3 DEF Dispatch
(* A manager's retry, and a retry that becomes due. *)
LEMMA RetryKeeps ==
    ASSUME IInv, NEW k \in Keys, RetryDelivery(k) \/ RetryDue(k)
    PROVE  IInv'
<1> USE KeysApart
<1>1. TypeOK /\ OneCarrier /\ (\A j \in Keys : Consistent(j)) /\ Counted
  BY DEF IInv
<1>2. /\ attempts \in [Keys -> Nat] /\ asked \in Nat
      /\ due \in [Keys -> BOOLEAN] /\ escalated \in [Keys -> BOOLEAN]
  BY <1>1, Types
<1>3. CASE RetryDelivery(k)
  <2>1. /\ state[k] \in {"pending", "failed"} /\ QueueEmail(k)
        /\ asked < MaxManagerSteps /\ asked' = asked + 1
        /\ UNCHANGED <<mode, authorised, address, receipt, transport, emailed, lost, changes>>
    BY <1>3 DEF RetryDelivery, userVars
  <2>2. attempts[k] \in Nat /\ attempts[k] <= MaxAttempts + asked
    BY <1>1, <1>2 DEF Consistent
  <2>3. /\ asked' \in 0..MaxManagerSteps /\ asked' >= asked
        /\ attempts[k] + 1 <= MaxAttempts + asked'
    BY <1>2, <2>1, <2>2
  <2>4. QED
    BY <2>1, <2>3, QueueKeeps
<1>4. CASE RetryDue(k)
  <2>1. UNCHANGED <<mode, authorised, address, receipt, state, receiptIds, mail, attempts, escalated,
                    transport, content, emailed, lost, asked, changes>>
    BY <1>4 DEF RetryDue, userVars, history
  <2>2. due' \in [Keys -> BOOLEAN]
    BY <1>2, <1>4 DEF RetryDue
  <2>3. TypeOK'
    BY <1>1, <1>2, <2>1, <2>2 DEF TypeOK
  <2>4. \A j \in Keys : Consistent(j)'
    BY <1>1, <2>1 DEF Consistent, Carried
  <2>5. OneCarrier' /\ Counted'
    BY <1>1, <2>1 DEF OneCarrier, Unlinked, Counted, Shown
  <2>6. QED
    BY <2>3, <2>4, <2>5 DEF IInv
<1>5. QED
  BY <1>3, <1>4

(* The mail queue takes up a mail: what it will list is what the delivery    *)
(* still has, for a delivery that just lost its receipts is not sent.        *)
LEMMA StartKeeps ==
    ASSUME IInv, NEW k \in Keys, StartSend(k)
    PROVE  IInv'
<1> USE KeysApart
<1>1. TypeOK /\ OneCarrier /\ Consistent(k) /\ Counted
  BY DEF IInv
<1>2. /\ lost \in Nat /\ asked \in Nat
      /\ due \in [Keys -> BOOLEAN] /\ escalated \in [Keys -> BOOLEAN]
  BY <1>1, Types
<1>3. /\ UNCHANGED <<mode, authorised, address, receipt, attempts, due, escalated,
                     emailed, lost, asked, changes>>
      /\ mail[k] = "outgoing"
  BY DEF StartSend, userVars, history
<1>4. state[k] \in {"queued"}
  BY <1>1, <1>3 DEF Consistent, TypeOK
<1>5. Dropped(k) \in {{}, receiptIds[k]} /\ (Valid(k) # {} => Dropped(k) = {})
  BY DEF Dropped, Valid
<1>6. Valid(k) \subseteq receiptIds[k] /\ Valid(k) \in SUBSET Receipts
  BY <1>1 DEF Valid, TypeOK
<1>7. /\ receiptIds' \in [Keys -> SUBSET Receipts]
      /\ receiptIds'[k] = receiptIds[k] \ Dropped(k)
      /\ \A j \in Keys \ {k} : receiptIds'[j] = receiptIds[j]
  BY <1>1 DEF StartSend, TypeOK
<1> DEFINE Result ==
      /\ state' \in [Keys -> {"none", "pending", "queued", "sent", "failed", "cancelled", "suppressed"}]
      /\ mail' \in [Keys -> {"none", "outgoing", "sent", "exception", "cancel"}]
      /\ transport' \in [Keys -> {"idle", "sending", "reporting"}]
      /\ content' \in [Keys -> SUBSET Receipts]
      /\ \A j \in Keys \ {k} : /\ state'[j] = state[j] /\ mail'[j] = mail[j]
                               /\ transport'[j] = transport[j] /\ content'[j] = content[j]
      /\ \/ state'[k] = "cancelled" /\ mail'[k] = "cancel" /\ transport'[k] = "idle"
         \/ /\ state'[k] = "queued" /\ mail'[k] = "outgoing" /\ transport'[k] = "sending"
            /\ content'[k] = receiptIds'[k] \cap content'[k]
<1>8. Result
  <2>1. CASE /\ mail' = [mail EXCEPT ![k] = "cancel"]
             /\ state' = [state EXCEPT ![k] = "cancelled"]
             /\ UNCHANGED <<transport, content>>
    <3>1. transport[k] = "idle"
      BY DEF StartSend
    <3>2. QED
      BY <1>1, <2>1, <3>1 DEF TypeOK
  <2>2. CASE /\ Valid(k) # {}
             /\ transport' = [transport EXCEPT ![k] = "sending"]
             /\ content' = [content EXCEPT ![k] = Valid(k)]
             /\ UNCHANGED <<mail, state>>
    <3>1. receiptIds'[k] = receiptIds[k]
      BY <1>5, <1>7, <2>2
    <3>2. content' \in [Keys -> SUBSET Receipts] /\ content'[k] = Valid(k)
      BY <1>1, <1>6, <2>2 DEF TypeOK
    <3>3. content'[k] = receiptIds'[k] \cap content'[k]
      BY <1>6, <3>1, <3>2
    <3>4. transport' \in [Keys -> {"idle", "sending", "reporting"}] /\ transport'[k] = "sending"
      BY <1>1, <2>2 DEF TypeOK
    <3>5. QED
      BY <1>1, <1>3, <1>4, <2>2, <3>2, <3>3, <3>4 DEF TypeOK
  <2>3. QED
    BY <2>1, <2>2 DEF StartSend
<1> HIDE DEF Result
<1>9. Consistent(k)'
  <2>1. attempts'[k] <= MaxAttempts + asked'
    BY <1>1, <1>3 DEF Consistent
  <2>2. CASE state'[k] = "cancelled" /\ mail'[k] = "cancel" /\ transport'[k] = "idle"
    BY <2>1, <2>2 DEF Consistent, Carried
  <2>3. CASE /\ state'[k] = "queued" /\ mail'[k] = "outgoing"
             /\ content'[k] = receiptIds'[k] \cap content'[k]
    <3>1. content'[k] \subseteq receiptIds'[k]
      BY <2>3
    <3>2. QED
      BY <2>1, <2>3, <3>1 DEF Consistent, Carried
  <2>4. QED
    BY <1>8, <2>2, <2>3 DEF Result
<1>10. (\A j \in Keys : Consistent(j)') /\ OneCarrier'
  <2>1. \A j \in Keys \ {k} :
              /\ state'[j] = state[j] /\ receiptIds'[j] = receiptIds[j]
              /\ mail'[j] = mail[j] /\ attempts'[j] = attempts[j]
              /\ transport'[j] = transport[j] /\ content'[j] = content[j]
    BY <1>3, <1>7, <1>8 DEF Result
  <2>2. state[k] # "none" /\ receiptIds'[k] \subseteq receiptIds[k]
    BY <1>4, <1>7
  <2>3. asked' \in Nat /\ asked' >= asked /\ receipt' = receipt
    BY <1>2, <1>3
  <2>4. QED
    BY <1>9, <2>1, <2>2, <2>3, OneDelivery
<1>11. Counted'
  <2>1. \A j \in Keys : mail[j] = "sent" => mail'[j] = "sent" /\ content'[j] = content[j]
    BY <1>3, <1>8 DEF Result
  <2>2. lost' \in Nat /\ lost' >= lost /\ emailed' = emailed
    BY <1>2, <1>3
  <2>3. QED
    BY <2>1, <2>2, QuietStep
<1>12. TypeOK'
  BY <1>1, <1>3, <1>7, <1>8 DEF TypeOK, Result
<1>13. QED
  BY <1>10, <1>11, <1>12 DEF IInv

(* The mail server answers. *)
LEMMA TransmitKeeps ==
    ASSUME IInv, NEW k \in Keys, NEW as \in {"sent", "exception"}, Transmit(k, as)
    PROVE  IInv'
<1> USE KeysApart
<1>1. /\ TypeOK /\ OneCarrier /\ Consistent(k) /\ Counted
      /\ \A j \in Keys : Consistent(j)
  BY DEF IInv
<1>2. /\ lost \in Nat /\ asked \in Nat /\ emailed \in [Receipts -> Nat]
      /\ due \in [Keys -> BOOLEAN] /\ escalated \in [Keys -> BOOLEAN]
  BY <1>1, Types DEF TypeOK
<1>3. /\ UNCHANGED <<mode, authorised, address, receipt, state, receiptIds, attempts, due, escalated,
                     content, lost, asked, changes>>
      /\ transport[k] = "sending"
  BY DEF Transmit, userVars
<1>4. mail[k] = "outgoing" /\ state[k] = "queued" /\ content[k] \subseteq receiptIds[k]
  BY <1>1, <1>3 DEF Consistent, Carried, TypeOK
<1>5. /\ mail' \in [Keys -> {"none", "outgoing", "sent", "exception", "cancel"}] /\ mail'[k] = as
      /\ transport' \in [Keys -> {"idle", "sending", "reporting"}] /\ transport'[k] = "reporting"
      /\ \A j \in Keys \ {k} : mail'[j] = mail[j] /\ transport'[j] = transport[j]
  BY <1>1 DEF Transmit, TypeOK
<1>6. Consistent(k)'
  <2>1. attempts'[k] <= MaxAttempts + asked'
    BY <1>1, <1>3 DEF Consistent
  <2>2. QED
    BY <1>3, <1>4, <1>5, <2>1 DEF Consistent, Carried
<1>7. (\A j \in Keys : Consistent(j)') /\ OneCarrier'
  <2>1. \A j \in Keys \ {k} :
              /\ state'[j] = state[j] /\ receiptIds'[j] = receiptIds[j]
              /\ mail'[j] = mail[j] /\ attempts'[j] = attempts[j]
              /\ transport'[j] = transport[j] /\ content'[j] = content[j]
    BY <1>3, <1>5
  <2>2. state[k] # "none" /\ receiptIds'[k] \subseteq receiptIds[k]
    BY <1>3, <1>4
  <2>3. asked' \in Nat /\ asked' >= asked /\ receipt' = receipt
    BY <1>2, <1>3
  <2>4. QED
    BY <1>6, <2>1, <2>2, <2>3, OneDelivery
<1>8. emailed' \in [Receipts -> Nat]
      /\ \A r \in Receipts : emailed'[r] = IF as = "sent" /\ r \in content[k]
                                           THEN emailed[r] + 1 ELSE emailed[r]
  <2>1. CASE as = "sent"
    <3>1. emailed' = [r \in Receipts |-> IF r \in content[k] THEN emailed[r] + 1 ELSE emailed[r]]
      BY <2>1 DEF Transmit, Took
    <3>2. QED
      BY <1>2, <2>1, <3>1
  <2>2. CASE as # "sent"
    BY <1>2, <2>2 DEF Transmit
  <2>3. QED
    BY <2>1, <2>2
<1>9. ASSUME NEW r \in Receipts
      PROVE  emailed'[r] <= 1 + lost' /\ (emailed'[r] <= lost' \/ Shown(r)')
  <2>1. emailed[r] \in Nat /\ emailed[r] <= 1 + lost /\ (emailed[r] <= lost \/ Shown(r))
    BY <1>1, <1>2 DEF Counted
  <2>2. CASE as = "sent" /\ r \in content[k]
    <3>1. ASSUME Shown(r)  PROVE FALSE
      <4>1. PICK j \in Keys : mail[j] = "sent" /\ r \in content[j]
        BY <3>1 DEF Shown
      <4>2. j # k /\ content[j] \subseteq receiptIds[j]
        BY <1>1, <1>4, <4>1 DEF Consistent, Carried
      <4>3. receiptIds[j] \cap receiptIds[k] = {}
        BY <1>1, <4>2 DEF OneCarrier
      <4>4. QED
        BY <1>4, <2>2, <4>1, <4>2, <4>3
    <3>2. emailed[r] <= lost /\ emailed'[r] = emailed[r] + 1
      BY <1>8, <2>1, <2>2, <3>1
    <3>3. Shown(r)'
      BY <1>3, <1>5, <2>2 DEF Shown
    <3>4. QED
      BY <1>2, <1>3, <2>1, <3>2, <3>3
  <2>3. CASE ~(as = "sent" /\ r \in content[k])
    <3>1. Shown(r) => Shown(r)'
      <4>1. \A j \in Keys : mail[j] = "sent" => mail'[j] = "sent"
        BY <1>4, <1>5
      <4>2. QED
        BY <1>3, <4>1 DEF Shown
    <3>2. emailed'[r] = emailed[r] /\ lost' = lost
      BY <1>3, <1>8, <2>3
    <3>3. QED
      BY <2>1, <3>1, <3>2
  <2>4. QED
    BY <2>2, <2>3
<1>10. Counted'
  BY <1>9 DEF Counted
<1>11. TypeOK'
  BY <1>1, <1>3, <1>5, <1>8 DEF TypeOK
<1>12. QED
  BY <1>7, <1>10, <1>11 DEF IInv

(* The mail queue writes down what the server answered. *)
LEMMA ReportKeeps ==
    ASSUME IInv, NEW k \in Keys, Report(k)
    PROVE  IInv'
<1> USE KeysApart
<1>1. TypeOK /\ OneCarrier /\ Consistent(k) /\ Counted
  BY DEF IInv
<1>2. /\ lost \in Nat /\ asked \in Nat
      /\ due \in [Keys -> BOOLEAN] /\ escalated \in [Keys -> BOOLEAN]
  BY <1>1, Types
<1>3. UNCHANGED <<mode, authorised, address, receipt, receiptIds, mail, attempts, escalated,
                  content, emailed, lost, asked, changes>>
  BY DEF Report, userVars, history
<1>4. /\ state' \in [Keys -> {"none", "pending", "queued", "sent", "failed", "cancelled", "suppressed"}]
      /\ state'[k] = (CASE mail[k] = "sent" -> "sent"
                        [] mail[k] = "exception" -> "failed"
                        [] OTHER -> state[k])
      /\ \A j \in Keys \ {k} : state'[j] = state[j]
  BY <1>1 DEF Report, TypeOK
<1>5. /\ transport' \in [Keys -> {"idle", "sending", "reporting"}] /\ transport'[k] = "idle"
      /\ \A j \in Keys \ {k} : transport'[j] = transport[j]
  BY <1>1 DEF Report, TypeOK
<1>6. due' \in [Keys -> BOOLEAN]
  <2>1. due' = [due EXCEPT ![k] = @ /\ mail[k] # "exception"]
    BY DEF Report
  <2>2. QED
    BY <1>2, <2>1
<1>7. CASE state[k] = "none"
  <2>1. mail[k] = "none"
    BY <1>1, <1>7 DEF Consistent
  <2>2. state' = state
    BY <1>1, <2>1 DEF Report, TypeOK
  <2>3. \A j \in Keys : transport'[j] = "sending" => transport[j] = "sending"
    BY <1>5
  <2>4. \A j \in Keys : Consistent(j)'
    BY <1>3, <2>2, <2>3 DEF IInv, Consistent, Carried
  <2>5. OneCarrier' /\ Counted'
    BY <1>1, <1>3, <2>2 DEF OneCarrier, Unlinked, Counted, Shown
  <2>6. TypeOK'
    BY <1>1, <1>3, <1>4, <1>5, <1>6 DEF TypeOK
  <2>7. QED
    BY <2>4, <2>5, <2>6 DEF IInv
<1>8. CASE state[k] # "none"
  <2>1. Consistent(k)'
    <3>1. attempts'[k] <= MaxAttempts + asked' /\ (Carried(k)' => Carried(k))
      BY <1>1, <1>3, <1>5 DEF Consistent, Carried
    <3>2. mail[k] = "sent" => state'[k] = "sent"
      BY <1>4
    <3>3. mail[k] = "exception" => state'[k] = "failed"
      BY <1>4
    <3>4. mail[k] \notin {"sent", "exception"} => state'[k] = state[k]
      BY <1>4
    <3>5. QED
      BY <1>1, <1>3, <1>5, <3>1, <3>2, <3>3, <3>4 DEF Consistent, Carried
  <2>2. (\A j \in Keys : Consistent(j)') /\ OneCarrier'
    <3>1. \A j \in Keys \ {k} :
              /\ state'[j] = state[j] /\ receiptIds'[j] = receiptIds[j]
              /\ mail'[j] = mail[j] /\ attempts'[j] = attempts[j]
              /\ transport'[j] = transport[j] /\ content'[j] = content[j]
      BY <1>3, <1>4, <1>5
    <3>2. asked' \in Nat /\ asked' >= asked /\ receipt' = receipt
          /\ receiptIds'[k] \subseteq receiptIds[k]
      BY <1>2, <1>3
    <3>3. QED
      BY <1>8, <2>1, <3>1, <3>2, OneDelivery
  <2>3. Counted'
    BY <1>1, <1>3 DEF Counted, Shown
  <2>4. TypeOK'
    BY <1>1, <1>3, <1>4, <1>5, <1>6 DEF TypeOK
  <2>5. QED
    BY <2>2, <2>3, <2>4 DEF IInv
<1>9. QED
  BY <1>7, <1>8

(* A worker that dies may lose one mail that the server took. *)
LEMMA DieKeeps ==
    ASSUME IInv, NEW k \in Keys, NEW took \in BOOLEAN, Die(k, took)
    PROVE  IInv'
<1> USE KeysApart
<1>1. TypeOK /\ OneCarrier /\ (\A j \in Keys : Consistent(j)) /\ Counted
  BY DEF IInv
<1>2. lost \in Nat /\ lost' = lost + 1 /\ emailed \in [Receipts -> Nat]
      /\ lost' \in 0..MaxDeaths
      /\ due \in [Keys -> BOOLEAN] /\ escalated \in [Keys -> BOOLEAN]
  BY <1>1, Types DEF Die, TypeOK
<1>3. UNCHANGED <<mode, authorised, address, receipt, state, receiptIds, mail, attempts, due,
                  escalated, content, asked, changes>>
  BY DEF Die, userVars, deliveryVars
<1>4. /\ transport' \in [Keys -> {"idle", "sending", "reporting"}]
      /\ \A j \in Keys : transport'[j] = "sending" => transport[j] = "sending"
  BY <1>1 DEF Die, TypeOK
<1>5. /\ emailed' \in [Receipts -> Nat]
      /\ \A r \in Receipts : emailed'[r] <= emailed[r] + 1
  BY <1>2 DEF Die, Took
<1>6. Counted'
  <2>1. ASSUME NEW r \in Receipts
        PROVE  emailed'[r] <= 1 + lost' /\ (emailed'[r] <= lost' \/ Shown(r)')
    <3>1. emailed[r] <= 1 + lost /\ (emailed[r] <= lost \/ Shown(r))
      BY <1>1 DEF Counted
    <3>2. Shown(r)' = Shown(r)
      BY <1>3 DEF Shown
    <3>3. emailed[r] \in Nat /\ emailed'[r] \in Nat /\ emailed'[r] <= emailed[r] + 1
      BY <1>2, <1>5
    <3>4. QED
      BY <1>2, <3>1, <3>2, <3>3
  <2>2. QED
    BY <2>1 DEF Counted
<1>7. \A j \in Keys : Consistent(j)'
  BY <1>1, <1>3, <1>4 DEF Consistent, Carried
<1>8. OneCarrier'
  BY <1>1, <1>3 DEF OneCarrier, Unlinked
<1>9. TypeOK'
  <2>1. {authorised', address'} \subseteq BOOLEAN /\ {due', escalated'} \subseteq [Keys -> BOOLEAN]
    BY <1>1, <1>2, <1>3, Types
  <2>2. QED
    BY <1>1, <1>2, <1>3, <1>4, <1>5, <2>1 DEF TypeOK
<1>10. QED
  BY <1>6, <1>7, <1>8, <1>9 DEF IInv

(* Every step keeps the invariant. *)
LEMMA InvNext == IInv /\ [Next]_vars => IInv'
<1> SUFFICES ASSUME IInv, [Next]_vars PROVE IInv'
  OBVIOUS
<1>1. CASE Next
  <2>1. ASSUME NEW r \in Receipts, PublishAction(r) PROVE IInv'
    BY <2>1, PublishKeeps
  <2>2. CASE \/ \E r \in Receipts, as \in {"acknowledged", "complete"} : Progress(r, as)
             \/ \E allowed, reachable \in BOOLEAN : ChangeUser(allowed, reachable)
    BY <2>2, ReaderKeeps
  <2>3. ASSUME NEW m \in Modes, SavePreference(m) PROVE IInv'
    BY <2>3, PreferenceKeeps
  <2>4. ASSUME NEW d \in Days, SendDigest(d) PROVE IInv'
    BY <2>4, DigestKeeps
  <2>5. ASSUME NEW k \in Keys, Dispatch(k) PROVE IInv'
    BY <2>5, DispatchKeeps
  <2>6. ASSUME NEW k \in Keys, RetryDelivery(k) \/ RetryDue(k) PROVE IInv'
    BY <2>6, RetryKeeps
  <2>7. ASSUME NEW k \in Keys, MailQueue(k) PROVE IInv'
    BY <2>7, StartKeeps, TransmitKeeps, ReportKeeps, DieKeeps DEF MailQueue
  <2>8. QED
    BY <1>1, <2>1, <2>2, <2>3, <2>4, <2>5, <2>6, <2>7 DEF Next
<1>2. CASE UNCHANGED vars
  <2>1. UNCHANGED <<mode, authorised, address, receipt, state, receiptIds, mail, attempts, due,
                    escalated, transport, content, emailed, lost, asked, changes>>
    BY <1>2 DEF vars, userVars, deliveryVars, history
  <2>2. TypeOK' /\ Counted' /\ OneCarrier'
    BY <2>1 DEF IInv, TypeOK, Counted, Shown, OneCarrier, Unlinked
  <2>3. \A k \in Keys : Consistent(k)'
    BY <2>1 DEF IInv, Consistent, Carried
  <2>4. QED
    BY <2>2, <2>3 DEF IInv
<1>3. QED
  BY <1>1, <1>2

LEMMA InvEmailed == IInv => EmailedOnce
  BY DEF IInv, Counted, Consistent, EmailedOnce

(* No event reaches a participant in two emails, in a mail of its own, its   *)
(* retries and any digest, unless a worker died while sending; and no        *)
(* delivery claims a mail the server did not take.  For any number of events *)
(* and days, and any retries, changes of preference and deaths.              *)
THEOREM EventsAlwaysEmailedOnce == Spec => []EmailedOnce
  BY InvInit, InvNext, InvEmailed, PTL DEF Spec
=============================================================================
