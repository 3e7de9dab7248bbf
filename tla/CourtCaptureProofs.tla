------------------------- MODULE CourtCaptureProofs -------------------------
(***************************************************************************)
(* For any devices, scores, policies and limits: no confirmed command      *)
(* vanishes, none is applied twice, nothing follows a submission, a hold   *)
(* is decided by a coordinator before the match is submitted, and a command*)
(* changes only the draft that its operator saw.                           *)
(***************************************************************************)
EXTENDS CourtCapture, TLAPS

(* Whatever its elements are. *)
Listed(s) == s \in Seq({s[i] : i \in DOMAIN s})

(* What Append and Tail do to a list and its keys. *)
LEMMA ListFacts ==
    ASSUME NEW s, Listed(s)
    PROVE  /\ DOMAIN s = 1..Len(s) /\ Len(s) \in Nat
           /\ \A c : /\ Listed(Append(s, c))
                     /\ KeysOf(Append(s, c)) = KeysOf(s) \cup {c.key}
           /\ s # <<>> => /\ Listed(Tail(s))
                          /\ KeysOf(s) = {Head(s).key} \cup KeysOf(Tail(s))
<1> DEFINE S == {s[i] : i \in DOMAIN s}
<1>1. s \in Seq(S) /\ DOMAIN s = 1..Len(s) /\ Len(s) \in Nat
  BY DEF Listed
<1> HIDE DEF S
<1>2. ASSUME NEW c
      PROVE  /\ Listed(Append(s, c))
             /\ KeysOf(Append(s, c)) = KeysOf(s) \cup {c.key}
  <2> DEFINE t == Append(s, c)
  <2>1. /\ t \in Seq(S \cup {c}) /\ DOMAIN t = 1..(Len(s) + 1)
        /\ \A i \in 1..Len(s) : t[i] = s[i]
        /\ t[Len(s) + 1] = c
    BY <1>1
  <2> HIDE DEF t
  <2>2. t \in Seq({t[i] : i \in DOMAIN t})
    BY <1>1, <2>1
  <2>3. KeysOf(t) = KeysOf(s) \cup {c.key}
    BY <1>1, <2>1 DEF KeysOf
  <2>4. QED
    BY <2>2, <2>3 DEF Listed, t
<1>3. ASSUME s # <<>>
      PROVE  /\ Listed(Tail(s))
             /\ KeysOf(s) = {Head(s).key} \cup KeysOf(Tail(s))
  <2> DEFINE t == Tail(s)
  <2>1. /\ t \in Seq(S) /\ DOMAIN t = 1..(Len(s) - 1)
        /\ \A i \in 1..(Len(s) - 1) : t[i] = s[i + 1]
        /\ Head(s) = s[1] /\ Len(s) > 0
    BY <1>1, <1>3
  <2> HIDE DEF t
  <2>3. Listed(t)
    BY <1>1, <2>1 DEF Listed
  <2>4. \A i \in 1..Len(s) : i = 1 \/ (i - 1 \in DOMAIN t /\ s[i] = t[i - 1])
    BY <1>1, <2>1
  <2>5. KeysOf(s) \subseteq {s[1].key} \cup KeysOf(t)
    BY <1>1, <2>4 DEF KeysOf
  <2>6. {s[1].key} \cup KeysOf(t) \subseteq KeysOf(s)
    BY <1>1, <2>1 DEF KeysOf
  <2>7. QED
    BY <2>1, <2>3, <2>5, <2>6 DEF t
<1>4. QED
  BY <1>1, <1>2, <1>3

(* Commands in the order in which they were given. *)
Queue(s) == Listed(s) /\ \A k \in KeysOf(s) : k[1] = "command"

(* Queues grow by a command at their end and shrink by the one at their head. *)
LEMMA QueueFacts ==
    /\ Queue(<<>>) /\ KeysOf(<<>>) = {}
    /\ \A s : Queue(s) =>
          /\ \A c : c.key[1] = "command" => Queue(Append(s, c))
          /\ s # <<>> => Queue(Tail(s)) /\ Head(s).key[1] = "command"
<1>1. Queue(<<>>) /\ KeysOf(<<>>) = {}
  BY DEF Queue, Listed, KeysOf
<1>2. ASSUME NEW s, Queue(s)
      PROVE  /\ \A c : c.key[1] = "command" => Queue(Append(s, c))
             /\ s # <<>> => Queue(Tail(s)) /\ Head(s).key[1] = "command"
  <2>1. /\ \A c : /\ Listed(Append(s, c))
                  /\ KeysOf(Append(s, c)) = KeysOf(s) \cup {c.key}
        /\ s # <<>> => /\ Listed(Tail(s))
                       /\ KeysOf(s) = {Head(s).key} \cup KeysOf(Tail(s))
    BY <1>2, ListFacts DEF Queue
  <2>2. QED
    BY <1>2, <2>1 DEF Queue
<1>3. QED
  BY <1>1, <1>2

-----------------------------------------------------------------------------
(* The shape of pages, journals, batches and the transaction.               *)

Page(a) ==
    /\ a \in [open : {TRUE}, view : {a.view}, draft : {a.draft}, pending : {a.pending},
              dirty : {a.dirty}, conflict : {a.conflict}]
    /\ Queue(a.pending)

Batch(m) == m.dev \in Devices /\ Queue(m.cmds)

Running(t) ==
    /\ t \in [running : {TRUE}, batch : {t.batch}, left : {t.left},
              capture : {t.capture}, receipts : {t.receipts}, match : {t.match},
              incident : {t.incident}]
    /\ Batch(t.batch) /\ Queue(t.left) /\ Listed(t.receipts)

Shape ==
    /\ app = [d \in Devices |-> app[d]]
    /\ \A d \in Devices : app[d] = Closed \/ Page(app[d])
    /\ journal = [d \in Devices |-> journal[d]]
    /\ \A d \in Devices :
          journal[d] = NoJournal \/ (journal[d].exists = TRUE /\ Queue(journal[d].pending))
    /\ waiting \subseteq Devices /\ \A d \in waiting : Page(app[d])
    /\ \A m \in net : Batch(m)
    /\ txn = NoTxn \/ Running(txn)
    /\ Listed(receipts)

(* What the server keeps if the running transaction fails. *)
Durable == IF txn.running THEN KeysOf(txn.receipts) ELSE Receipted

(* A transaction adds receipts, and has one for each command behind it.     *)
BatchOnItsWay ==
    txn.running => /\ KeysOf(txn.receipts) \subseteq Receipted
                   /\ KeysOf(txn.batch.cmds) \subseteq Receipted \cup KeysOf(txn.left)

(* A page may forget only commands that the server has or that the operator  *)
(* exported.                                                                *)
PagesRemember ==
    \A d \in Devices :
        app[d].open /\ journal[d].exists
        => KeysOf(journal[d].pending)
              \subseteq KeysOf(app[d].pending) \cup exported \cup Durable

NothingLost == Shape /\ BatchOnItsWay /\ PagesRemember /\ NoCommandVanishes

(* The commands a device still answers for: those of its page, or of its     *)
(* journal while no page is open.                                           *)
Kept(d) ==
    IF app[d].open THEN KeysOf(app[d].pending)
    ELSE IF journal[d].exists THEN KeysOf(journal[d].pending) ELSE {}

(* A page may change, with or without its journal, as long as what the       *)
(* device kept is kept, exported or at the server.                          *)
LEMMA PageKeepsCommands ==
    ASSUME NothingLost, NEW d \in Devices, NEW b, Page(b),
           app' = [app EXCEPT ![d] = b],
           Saved(d, b) \/ UNCHANGED <<journal, stored>>,
           exported \subseteq exported', Durable \subseteq Durable',
           Kept(d) \subseteq KeysOf(b.pending) \cup exported' \cup Durable'
    PROVE  PagesRemember' /\ NoCommandVanishes'
<1>1. /\ app'[d] = b /\ b.open
      /\ \A e \in Devices \ {d} : app'[e] = app[e] /\ journal'[e] = journal[e]
  BY DEF NothingLost, Shape, Page, Saved
<1>2. journal[d].exists
         => KeysOf(journal[d].pending) \subseteq KeysOf(b.pending) \cup exported' \cup Durable'
  BY DEF NothingLost, PagesRemember, Kept
<1>3. \/ journal'[d] = JournalOf(b) /\ stored' = stored \cup KeysOf(b.pending)
      \/ journal'[d] = journal[d] /\ stored' = stored
  BY DEF NothingLost, Shape, Saved
<1>4. JournalOf(b).exists /\ JournalOf(b).pending = b.pending
  BY DEF JournalOf
<1>5. PagesRemember'
  BY <1>1, <1>2, <1>3, <1>4 DEF NothingLost, PagesRemember
<1>6. ASSUME NEW k \in stored'
      PROVE  \/ k \in exported' \/ k \in Durable'
             \/ \E e \in Devices : journal'[e].exists /\ k \in KeysOf(journal'[e].pending)
  <2>1. \/ k \in KeysOf(b.pending) /\ journal'[d] = JournalOf(b)
        \/ k \in stored
    BY <1>3, <1>6
  <2>2. CASE k \in KeysOf(b.pending) /\ journal'[d] = JournalOf(b)
    BY <2>2, <1>4
  <2>3. CASE k \in stored
    <3>1. \/ k \in exported \/ k \in Durable
          \/ \E e \in Devices : journal[e].exists /\ k \in KeysOf(journal[e].pending)
      BY <2>3 DEF NothingLost, NoCommandVanishes, Durable
    <3>2. QED
      BY <3>1, <1>1, <1>2, <1>3, <1>4
  <2>4. QED
    BY <2>1, <2>2, <2>3
<1>7. NoCommandVanishes'
  BY <1>6 DEF NoCommandVanishes, Durable
<1>8. QED
  BY <1>5, <1>7

(* Such a step keeps the shape. *)
LEMMA PageKeepsShape ==
    ASSUME Shape, NEW d \in Devices, NEW b, Page(b),
           app' = [app EXCEPT ![d] = b],
           Saved(d, b) \/ UNCHANGED <<journal, stored>>,
           waiting' \subseteq waiting \cup {d},
           \A m \in net' : Batch(m),
           txn' = NoTxn \/ Running(txn'), Listed(receipts')
    PROVE  Shape'
<1>1. /\ app' = [e \in Devices |-> app'[e]]
      /\ \A e \in Devices : app'[e] = IF e = d THEN b ELSE app[e]
  BY DEF Shape
<1>2. /\ journal' = [e \in Devices |-> journal'[e]]
      /\ \A e \in Devices : journal'[e] = journal[e] \/ journal'[e] = JournalOf(b)
  BY DEF Shape, Saved
<1>3. JournalOf(b).exists = TRUE /\ Queue(JournalOf(b).pending)
  BY DEF JournalOf, Page
<1>4. \A e \in Devices : app'[e] = Closed \/ Page(app'[e])
  BY <1>1 DEF Shape
<1>5. \A e \in Devices :
         journal'[e] = NoJournal \/ (journal'[e].exists = TRUE /\ Queue(journal'[e].pending))
  BY <1>2, <1>3 DEF Shape
<1>6. waiting' \subseteq Devices /\ \A e \in waiting' : Page(app'[e])
  BY <1>1 DEF Shape
<1>7. QED
  BY <1>1, <1>2, <1>4, <1>5, <1>6 DEF Shape

(* Steps that no page takes part in lose nothing while the server forgets    *)
(* nothing.                                                                 *)
LEMMA PagesUntouched ==
    ASSUME NothingLost, UNCHANGED <<journal, stored, exported>>,
           \A d \in Devices :
              app'[d].open => app[d].open /\ app'[d].pending = app[d].pending,
           Durable \subseteq Durable'
    PROVE  PagesRemember' /\ NoCommandVanishes'
<1>1. PagesRemember'
  BY DEF NothingLost, PagesRemember
<1>2. NoCommandVanishes'
  BY DEF NothingLost, NoCommandVanishes, Durable
<1>3. QED
  BY <1>1, <1>2

(* What a page shows when it is opened: the commands of its journal.         *)
LEMMA RestoreKeeps ==
    ASSUME Shape, NEW d \in Devices, NEW server
    PROVE  LET b == Restore(server, journal[d]) IN
           /\ Page(b)
           /\ journal[d].exists => KeysOf(journal[d].pending) = KeysOf(b.pending)
<1>1. Queue(<<>>) /\ KeysOf(<<>>) = {}
  BY QueueFacts
<1>2. journal[d] = NoJournal \/ (journal[d].exists = TRUE /\ Queue(journal[d].pending))
  BY DEF Shape
<1>3. CASE ~Unsent(journal[d])
  BY <1>1, <1>2, <1>3 DEF Restore, Page, Unsent
<1>4. CASE Unsent(journal[d])
  BY <1>2, <1>4 DEF Restore, Page, Unsent, NoJournal
<1>5. QED
  BY <1>3, <1>4

(* No transaction: what the server keeps is what it has. *)
LEMMA DurableIdle ==
    ASSUME txn' = txn, receipts' = receipts
    PROVE  Durable' = Durable
  BY DEF Durable, Receipted

(* Opening and closing a page. *)
LEMMA OpenKeepsCommands ==
    ASSUME NothingLost, NEW d \in Devices,
           OpenMatch(d) \/ OpenOffline(d) \/ ClosePage(d)
    PROVE  NothingLost'
<1>1. BatchOnItsWay' /\ Durable' = Durable
  BY DurableIdle DEF OpenMatch, OpenOffline, ClosePage, NothingLost, BatchOnItsWay,
     serverVars, Receipted
<1>2. CASE OpenMatch(d)
  <2> DEFINE b == Restore(Response(Capture, match), journal[d])
  <2>1. /\ Page(b) /\ ~app[d].open
        /\ journal[d].exists => KeysOf(journal[d].pending) = KeysOf(b.pending)
    BY <1>2, RestoreKeeps DEF OpenMatch, NothingLost
  <2>2. /\ app' = [app EXCEPT ![d] = b]
        /\ Saved(d, b) \/ UNCHANGED <<journal, stored>>
        /\ UNCHANGED <<receipts, exported, waiting, net, txn>>
    BY <1>2 DEF OpenMatch, Show, Persist
  <2> HIDE DEF b
  <2>3. Kept(d) \subseteq KeysOf(b.pending)
    BY <2>1 DEF Kept
  <2>4. PagesRemember' /\ NoCommandVanishes'
    BY <1>1, <2>1, <2>2, <2>3, PageKeepsCommands
  <2>5. Shape'
    BY <2>1, <2>2, PageKeepsShape DEF NothingLost, Shape
  <2>6. QED
    BY <1>1, <2>4, <2>5 DEF NothingLost
<1>3. CASE OpenOffline(d)
  <2> DEFINE b == Restore(journal[d].view, journal[d])
  <2>1. /\ Page(b) /\ ~app[d].open
        /\ journal[d].exists => KeysOf(journal[d].pending) = KeysOf(b.pending)
    BY <1>3, RestoreKeeps DEF OpenOffline, NothingLost
  <2>2. /\ app' = [app EXCEPT ![d] = b]
        /\ UNCHANGED <<receipts, journal, stored, exported, waiting, net, txn>>
    BY <1>3 DEF OpenOffline, Show, serverVars
  <2> HIDE DEF b
  <2>3. Kept(d) \subseteq KeysOf(b.pending)
    BY <2>1 DEF Kept
  <2>4. PagesRemember' /\ NoCommandVanishes'
    BY <1>1, <2>1, <2>2, <2>3, PageKeepsCommands
  <2>5. Shape'
    BY <2>1, <2>2, PageKeepsShape DEF NothingLost, Shape
  <2>6. QED
    BY <1>1, <2>4, <2>5 DEF NothingLost
<1>4. CASE ClosePage(d)
  <2>1. /\ app' = [app EXCEPT ![d] = Closed] /\ waiting' = waiting \ {d}
        /\ UNCHANGED <<receipts, journal, stored, exported, net, txn>>
    BY <1>4 DEF ClosePage, Show, serverVars
  <2>2. Shape'
    BY <2>1 DEF NothingLost, Shape
  <2>3. \A e \in Devices :
           app'[e].open => app[e].open /\ app'[e].pending = app[e].pending
    BY <2>1 DEF NothingLost, Shape, Closed
  <2>4. PagesRemember' /\ NoCommandVanishes'
    BY <1>1, <2>1, <2>3, PagesUntouched
  <2>5. QED
    BY <1>1, <2>2, <2>4 DEF NothingLost
<1>5. QED
  BY <1>2, <1>3, <1>4

(* Editing and queueing: the page keeps its commands, and may add one. *)
LEMMA EditKeepsCommands ==
    ASSUME NothingLost, NEW d \in Devices,
           \/ \E p \in Payloads : EditDraft(d, p)
           \/ \E op \in {"save", "undo", "submit"} : QueueCommand(d, op)
    PROVE  NothingLost'
<1>1. PICK b : /\ app' = [app EXCEPT ![d] = b] /\ Persist(d, b)
               /\ Page(b) /\ KeysOf(app[d].pending) \subseteq KeysOf(b.pending)
  <2>1. Page(app[d])
    <3>1. app[d].open
      BY DEF EditDraft, QueueCommand, Usable
    <3>2. QED
      BY <3>1 DEF NothingLost, Shape, Closed
  <2>2. ASSUME NEW p \in Payloads, EditDraft(d, p)
        PROVE  \E b : /\ app' = [app EXCEPT ![d] = b] /\ Persist(d, b)
                      /\ Page(b) /\ KeysOf(app[d].pending) \subseteq KeysOf(b.pending)
    <3> DEFINE b == [app[d] EXCEPT !.draft = p, !.dirty = TRUE]
    <3>1. app' = [app EXCEPT ![d] = b] /\ Persist(d, b)
      BY <2>2 DEF EditDraft, Show
    <3>2. Page(b) /\ b.pending = app[d].pending
      BY <2>1 DEF Page
    <3>3. QED
      BY <3>1, <3>2
  <2>3. ASSUME NEW op, QueueCommand(d, op)
        PROVE  \E b : /\ app' = [app EXCEPT ![d] = b] /\ Persist(d, b)
                      /\ Page(b) /\ KeysOf(app[d].pending) \subseteq KeysOf(b.pending)
    <3>1. PICK c : /\ c.key[1] = "command"
                   /\ app' = [app EXCEPT ![d] = [app[d] EXCEPT !.pending = Append(@, c),
                                                            !.dirty = FALSE]]
                   /\ Persist(d, [app[d] EXCEPT !.pending = Append(@, c), !.dirty = FALSE])
      BY <2>3 DEF QueueCommand, Show
    <3> DEFINE b == [app[d] EXCEPT !.pending = Append(@, c), !.dirty = FALSE]
    <3>2. Queue(app[d].pending) /\ Queue(Append(app[d].pending, c))
      BY <2>1, <3>1, QueueFacts DEF Page
    <3>3. Page(b) /\ b.pending = Append(app[d].pending, c)
      BY <2>1, <3>2 DEF Page
    <3>4. KeysOf(app[d].pending) \subseteq KeysOf(b.pending)
      BY <3>2, <3>3, ListFacts DEF Queue
    <3>5. QED
      BY <3>1, <3>3, <3>4
  <2>4. QED
    BY <2>2, <2>3
<1>2. app[d].open /\ UNCHANGED <<receipts, exported, waiting, net, txn>>
  BY DEF EditDraft, QueueCommand, Usable, serverVars
<1>3. Saved(d, b) \/ UNCHANGED <<journal, stored>>
  BY <1>1 DEF Persist
<1>4. Durable' = Durable /\ BatchOnItsWay'
  BY <1>2, DurableIdle DEF NothingLost, BatchOnItsWay, Receipted
<1>5. PagesRemember' /\ NoCommandVanishes'
  BY <1>1, <1>2, <1>3, <1>4, PageKeepsCommands DEF Kept
<1>6. Shape'
  BY <1>1, <1>2, <1>3, PageKeepsShape DEF NothingLost, Shape
<1>7. QED
  BY <1>4, <1>5, <1>6 DEF NothingLost

(* Sending a batch and giving it up. *)
LEMMA SendKeepsCommands ==
    ASSUME NothingLost, NEW d \in Devices, SendBatch(d) \/ GiveUp(d)
    PROVE  NothingLost'
<1>1. /\ Page(app[d]) /\ app' = [app EXCEPT ![d] = app[d]] /\ app[d].open
      /\ Saved(d, app[d]) \/ UNCHANGED <<journal, stored>>
      /\ waiting' \subseteq waiting \cup {d}
      /\ UNCHANGED <<receipts, exported, txn>>
  <2>1. app[d].open \/ d \in waiting
    BY DEF SendBatch, GiveUp
  <2>2. Page(app[d])
    BY <2>1 DEF NothingLost, Shape, Closed
  <2>3. app[d].open
    BY <2>2 DEF Page
  <2>4. app' = app /\ app = [app EXCEPT ![d] = app[d]]
    BY DEF SendBatch, GiveUp, deviceVars, NothingLost, Shape
  <2>5. QED
    BY <2>2, <2>3, <2>4 DEF SendBatch, GiveUp, serverVars, deviceVars
<1>2. \A m \in net' : Batch(m)
  <2>1. CASE SendBatch(d)
    BY <1>1, <2>1 DEF SendBatch, NothingLost, Shape, Batch, Page
  <2>2. CASE GiveUp(d)
    BY <2>2 DEF GiveUp, NothingLost, Shape
  <2>3. QED
    BY <2>1, <2>2
<1>3. Durable' = Durable /\ BatchOnItsWay'
  BY <1>1, DurableIdle DEF NothingLost, BatchOnItsWay, Receipted
<1>4. PagesRemember' /\ NoCommandVanishes'
  BY <1>1, <1>3, PageKeepsCommands DEF Kept
<1>5. Shape'
  BY <1>1, <1>2, PageKeepsShape DEF NothingLost, Shape
<1>6. QED
  BY <1>3, <1>4, <1>5 DEF NothingLost

(* Reading the server again: only a page without commands takes its draft,  *)
(* unless the operator exported them.                                       *)
LEMMA ReadKeepsCommands ==
    ASSUME NothingLost, NEW d \in Devices,
           RefreshStatus(d) \/ DiscardLocal(d) \/ Reconcile(d)
    PROVE  NothingLost'
<1>1. /\ Page(app[d]) /\ app[d].open /\ ~txn.running
      /\ UNCHANGED <<waiting, net, txn>>
      /\ exported \subseteq exported'
  BY DEF RefreshStatus, DiscardLocal, Reconcile, Idle, NothingLost, Shape, Closed
<1>2. Listed(receipts') /\ Durable \subseteq Durable' /\ BatchOnItsWay'
  <2>1. receipts' = receipts \/ \E r : receipts' = Append(receipts, r)
    BY DEF RefreshStatus, DiscardLocal, Reconcile, serverVars
  <2>2. Listed(receipts') /\ Receipted \subseteq Receipted'
    <3>1. Listed(receipts)
      BY DEF NothingLost, Shape
    <3>2. \A r : /\ Listed(Append(receipts, r))
                 /\ KeysOf(receipts) \subseteq KeysOf(Append(receipts, r))
      BY <3>1, ListFacts
    <3>3. QED
      BY <2>1, <3>1, <3>2 DEF Receipted
  <2>3. QED
    BY <1>1, <2>2 DEF Durable, BatchOnItsWay
<1>3. PICK b : /\ app' = [app EXCEPT ![d] = b] /\ Page(b)
               /\ Saved(d, b) \/ UNCHANGED <<journal, stored>>
               /\ KeysOf(app[d].pending) \subseteq KeysOf(b.pending) \cup exported'
  <2>1. CASE RefreshStatus(d)
    <3> DEFINE b == [app[d] EXCEPT !.conflict = TRUE]
               c == [app[d] EXCEPT !.view = Response(capture, match),
                                   !.draft = Response(capture, match).payload]
    <3>1. \/ app' = [app EXCEPT ![d] = b] /\ UNCHANGED <<journal, stored>>
          \/ app' = [app EXCEPT ![d] = c] /\ Persist(d, c)
      BY <2>1 DEF RefreshStatus, Show
    <3>2. /\ Page(b) /\ b.pending = app[d].pending
          /\ Page(c) /\ c.pending = app[d].pending
      BY <1>1 DEF Page
    <3>3. Persist(d, c) => Saved(d, c) \/ UNCHANGED <<journal, stored>>
      BY DEF Persist
    <3> HIDE DEF b, c
    <3>4. QED
      BY <3>1, <3>2, <3>3
  <2>2. CASE DiscardLocal(d)
    <3> DEFINE now == Response(capture, match)
               b == [open |-> TRUE, view |-> now, draft |-> now.payload, pending |-> <<>>,
                     dirty |-> FALSE, conflict |-> now.drifted]
    <3>1. /\ app' = [app EXCEPT ![d] = b]
          /\ Saved(d, b) \/ UNCHANGED <<journal, stored>>
          /\ KeysOf(app[d].pending) \subseteq exported'
      BY <2>2 DEF DiscardLocal, Show, Persist
    <3>2. Page(b)
      BY QueueFacts DEF Page
    <3>3. QED
      BY <3>1, <3>2
  <2>3. CASE Reconcile(d)
    <3>1. PICK now : LET b == [app[d] EXCEPT !.view = now, !.draft = now.payload,
                                          !.conflict = FALSE, !.dirty = FALSE]
                     IN \/ app' = [app EXCEPT ![d] = b] /\ Persist(d, b)
                        \/ UNCHANGED <<app, journal, stored>>
      BY <2>3 DEF Reconcile, Show
    <3> DEFINE b == [app[d] EXCEPT !.view = now, !.draft = now.payload,
                                   !.conflict = FALSE, !.dirty = FALSE]
    <3>2. Page(b) /\ b.pending = app[d].pending
      BY <1>1 DEF Page
    <3>3. Persist(d, b) => Saved(d, b) \/ UNCHANGED <<journal, stored>>
      BY DEF Persist
    <3>4. app' = app => app' = [app EXCEPT ![d] = app[d]]
      BY DEF NothingLost, Shape
    <3>5. \/ app' = [app EXCEPT ![d] = b] /\ (Saved(d, b) \/ UNCHANGED <<journal, stored>>)
          \/ app' = [app EXCEPT ![d] = app[d]] /\ UNCHANGED <<journal, stored>>
      BY <3>1, <3>3, <3>4
    <3> HIDE DEF b
    <3>6. QED
      BY <1>1, <3>2, <3>5
  <2>4. QED
    BY <2>1, <2>2, <2>3
<1>4. PagesRemember' /\ NoCommandVanishes'
  BY <1>1, <1>2, <1>3, PageKeepsCommands DEF Kept
<1>5. Shape'
  BY <1>1, <1>2, <1>3, PageKeepsShape DEF NothingLost, Shape
<1>6. QED
  BY <1>2, <1>4, <1>5 DEF NothingLost

(* The server's steps on a batch. *)
LEMMA BatchKeepsCommands ==
    ASSUME NothingLost, BatchStep
    PROVE  NothingLost'
<1>1. ASSUME NEW m \in net, BeginBatch(m)
      PROVE  NothingLost'
  <2>1. /\ UNCHANGED <<app, journal, stored, exported, waiting, receipts>>
        /\ net' \subseteq net /\ ~txn.running /\ Batch(m)
        /\ txn' = [running |-> TRUE, batch |-> m, left |-> m.cmds,
                   capture |-> capture, receipts |-> receipts, match |-> match,
                   incident |-> incident]
    BY <1>1 DEF BeginBatch, serverVars, deviceVars, NothingLost, Shape
  <2>2. Running(txn')
    BY <2>1 DEF Running, Batch, NothingLost, Shape
  <2>3. Shape'
    BY <2>1, <2>2 DEF NothingLost, Shape
  <2>4. Durable' = Durable /\ BatchOnItsWay'
    BY <2>1 DEF Durable, BatchOnItsWay, Receipted
  <2>5. QED
    BY <2>1, <2>3, <2>4, PagesUntouched DEF NothingLost
<1>2. ASSUME NEW m, Refused(m), m.dev \in Devices,
             UNCHANGED <<journal, stored, exported>>
      PROVE  /\ app' = app \/ \E b : /\ Page(b) /\ app' = [app EXCEPT ![m.dev] = b]
                                    /\ b.pending = app[m.dev].pending
             /\ waiting' \subseteq waiting
             /\ \A d \in Devices :
                   app'[d].open => app[d].open /\ app'[d].pending = app[d].pending
  <2>1. CASE ~Answered(m)
    BY <1>2, <2>1 DEF Refused
  <2>2. CASE Answered(m)
    <3> DEFINE b == [app[m.dev] EXCEPT !.conflict = TRUE]
    <3>1. app' = [app EXCEPT ![m.dev] = b] /\ waiting' = waiting \ {m.dev}
      BY <1>2, <2>2 DEF Refused
    <3>2. Page(app[m.dev])
      BY <2>2 DEF Answered, NothingLost, Shape
    <3>3. Page(b) /\ b.pending = app[m.dev].pending /\ app[m.dev].open
      BY <3>2 DEF Page
    <3> HIDE DEF b
    <3>4. \A d \in Devices : app'[d] = IF d = m.dev THEN b ELSE app[d]
      BY <3>1 DEF NothingLost, Shape
    <3>5. QED
      BY <3>1, <3>3, <3>4
  <2>3. QED
    BY <2>1, <2>2
<1>3. ASSUME NEW m \in net, DenyBatch(m)
      PROVE  NothingLost'
  <2>1. /\ UNCHANGED <<journal, stored, exported, receipts, txn>>
        /\ net' \subseteq net /\ Refused(m) /\ m.dev \in Devices
    BY <1>3 DEF DenyBatch, serverVars, NothingLost, Shape, Batch
  <2>2. Shape'
    BY <1>2, <2>1, PageKeepsShape DEF NothingLost, Shape
  <2>3. Durable' = Durable /\ BatchOnItsWay'
    BY <2>1, DurableIdle DEF NothingLost, BatchOnItsWay, Receipted
  <2>4. QED
    BY <1>2, <2>1, <2>2, <2>3, PagesUntouched DEF NothingLost
<1>4. ASSUME ReplayCommand \/ ApplyCommand
      PROVE  NothingLost'
  <2>1. /\ UNCHANGED <<app, journal, stored, exported, waiting, net>>
        /\ txn' = [txn EXCEPT !.left = Tail(@)]
        /\ txn.running /\ txn.left # <<>>
        /\ \/ receipts' = receipts /\ Current.key \in Receipted
           \/ \E r : receipts' = Append(receipts, r) /\ r.key = Current.key
    <3>1. CASE ReplayCommand
      BY <3>1 DEF ReplayCommand, AtCommand, serverVars, deviceVars
    <3>2. CASE ApplyCommand
      <4>1. \E r : receipts' = Append(receipts, r) /\ r.key = Current.key
        <5> DEFINE r == Receipt(Current.key, Current.op, NewPayload(Current))
        <5>1. receipts' = Append(receipts, r)
          BY <3>2 DEF ApplyCommand
        <5>2. r.key = Current.key
          BY DEF Receipt
        <5> HIDE DEF r
        <5>3. QED
          BY <5>1, <5>2
      <4>2. QED
        BY <3>2, <4>1 DEF ApplyCommand, AtCommand, deviceVars
    <3>3. QED
      BY <1>4, <3>1, <3>2
  <2>2. Running(txn) /\ Listed(receipts)
    BY <2>1 DEF NothingLost, Shape, NoTxn
  <2>3. /\ Queue(Tail(txn.left))
        /\ KeysOf(txn.left) = {Current.key} \cup KeysOf(Tail(txn.left))
    BY <2>1, <2>2, ListFacts, QueueFacts DEF Running, Current, Queue
  <2>4. /\ txn'.running /\ txn'.left = Tail(txn.left)
        /\ txn'.receipts = txn.receipts /\ txn'.batch = txn.batch
        /\ Running(txn')
    BY <2>1, <2>2, <2>3 DEF Running
  <2>5. /\ Listed(receipts') /\ Receipted \subseteq Receipted'
        /\ Current.key \in Receipted'
    <3>1. CASE receipts' = receipts /\ Current.key \in Receipted
      BY <2>2, <3>1 DEF Receipted
    <3>2. ASSUME NEW r, receipts' = Append(receipts, r), r.key = Current.key
          PROVE  /\ Listed(receipts') /\ Receipted \subseteq Receipted'
                 /\ Current.key \in Receipted'
      <4>1. /\ Listed(Append(receipts, r))
            /\ KeysOf(Append(receipts, r)) = KeysOf(receipts) \cup {r.key}
        BY <2>2, ListFacts
      <4>2. QED
        BY <3>2, <4>1 DEF Receipted
    <3>3. QED
      BY <2>1, <3>1, <3>2
  <2>6. Shape'
    BY <2>1, <2>4, <2>5 DEF NothingLost, Shape
  <2>7. Durable' = Durable /\ BatchOnItsWay'
    <3>1. /\ KeysOf(txn.receipts) \subseteq Receipted
          /\ KeysOf(txn.batch.cmds) \subseteq Receipted \cup KeysOf(txn.left)
      BY <2>1 DEF NothingLost, BatchOnItsWay
    <3>2. QED
      BY <2>1, <2>3, <2>4, <2>5, <3>1 DEF Durable, BatchOnItsWay
  <2>8. QED
    BY <2>1, <2>6, <2>7, PagesUntouched DEF NothingLost
<1>5. ASSUME RefuseBatch
      PROVE  NothingLost'
  <2>1. /\ UNCHANGED <<journal, stored, exported, net>>
        /\ txn.running /\ txn' = NoTxn /\ receipts' = txn.receipts
        /\ Refused(txn.batch)
    BY <1>5 DEF RefuseBatch, AtCommand
  <2>2. Running(txn) /\ ~txn'.running
    BY <2>1 DEF NothingLost, Shape, NoTxn
  <2>3. txn.batch.dev \in Devices /\ Listed(receipts')
    BY <2>1, <2>2 DEF Running, Batch
  <2>4. Shape'
    BY <1>2, <2>1, <2>3, PageKeepsShape DEF NothingLost, Shape
  <2>5. Durable' = Durable /\ BatchOnItsWay'
    BY <2>1, <2>2 DEF Durable, BatchOnItsWay, Receipted
  <2>6. QED
    BY <1>2, <2>1, <2>3, <2>4, <2>5, PagesUntouched DEF NothingLost
<1>6. ASSUME CommitBatch
      PROVE  NothingLost'
  <2> DEFINE m == txn.batch
             d == m.dev
  <2>1. /\ UNCHANGED <<receipts, exported, net>>
        /\ txn.running /\ txn' = NoTxn /\ txn.left = <<>>
    BY <1>6 DEF CommitBatch, serverVars
  <2>2. /\ d \in Devices /\ ~txn'.running
        /\ KeysOf(txn.receipts) \subseteq Receipted /\ KeysOf(m.cmds) \subseteq Receipted
    <3>1. Running(txn) /\ KeysOf(<<>>) = {}
      BY <2>1 DEF NothingLost, Shape, NoTxn, KeysOf
    <3>2. d \in Devices
      BY <3>1 DEF Running, Batch
    <3>3. QED
      BY <2>1, <3>1, <3>2 DEF NothingLost, BatchOnItsWay, NoTxn
  <2>3. Durable \subseteq Durable' /\ Durable' = Receipted /\ BatchOnItsWay'
    BY <2>1, <2>2 DEF Durable, BatchOnItsWay, Receipted
  <2>4. CASE ~Answered(m)
    <3>1. UNCHANGED <<app, journal, stored, waiting>>
      BY <1>6, <2>4 DEF CommitBatch
    <3>2. Shape'
      BY <2>1, <3>1 DEF NothingLost, Shape
    <3>3. QED
      BY <2>1, <2>3, <3>1, <3>2, PagesUntouched DEF NothingLost
  <2>5. CASE Answered(m)
    <3> DEFINE now == Response(capture, match)
               a == app[d]
               w == IF a.dirty THEN a.draft ELSE now.payload
               c == /\ a.dirty
                    /\ \/ now.signature # a.view.signature
                       \/ now.revision # m.cmds[Len(m.cmds)].revision + 1
               b == [a EXCEPT !.view = now, !.pending = <<>>, !.draft = w, !.conflict = c]
    <3>1. /\ app' = [app EXCEPT ![d] = b] /\ waiting' = waiting \ {d}
          /\ Saved(d, b) \/ UNCHANGED <<journal, stored>>
      BY <1>6, <2>5 DEF CommitBatch, Show, Persist
    <3>2. Page(a) /\ a.pending = m.cmds
      BY <2>5 DEF Answered, NothingLost, Shape
    <3>3. Queue(<<>>)
      BY QueueFacts
    <3> HIDE DEF now, w, c
    <3>4. Page(b) /\ a.open
      BY <3>2, <3>3 DEF Page
    <3> HIDE DEF b, a, d, m
    <3>5. Shape'
      BY <2>1, <2>2, <3>1, <3>4, PageKeepsShape DEF NothingLost, Shape
    <3>6. Kept(d) \subseteq Durable'
      BY <2>2, <2>3, <3>2, <3>4 DEF Kept, a
    <3>7. PagesRemember' /\ NoCommandVanishes'
      BY <2>1, <2>2, <2>3, <3>1, <3>4, <3>6, PageKeepsCommands
    <3>8. QED
      BY <2>3, <3>5, <3>7 DEF NothingLost
  <2>6. QED
    BY <2>4, <2>5
<1>7. QED
  BY <1>1, <1>3, <1>4, <1>5, <1>6 DEF BatchStep

(* The coordinator and the office touch no page and remove no receipt. *)
LEMMA OfficeKeepsCommands ==
    ASSUME NothingLost, OfficeStep
    PROVE  NothingLost'
<1>1. /\ UNCHANGED <<app, journal, stored, exported, waiting, net, txn>>
      /\ receipts' = receipts \/ (~txn.running /\ \E r : receipts' = Append(receipts, r))
  BY DEF OfficeStep, Decide, ResolveIncident, ChangeContext, CloseSession, OfficeResult,
         SetAccess, Elsewhere, serverVars, officeVars, deviceVars
<1>2. Listed(receipts') /\ Receipted \subseteq Receipted'
  <2>1. Listed(receipts)
    BY DEF NothingLost, Shape
  <2>2. \A r : /\ Listed(Append(receipts, r))
               /\ KeysOf(receipts) \subseteq KeysOf(Append(receipts, r))
    BY <2>1, ListFacts
  <2>3. QED
    BY <1>1, <2>1, <2>2 DEF Receipted
<1>3. Shape'
  BY <1>1, <1>2 DEF NothingLost, Shape
<1>4. Durable \subseteq Durable' /\ BatchOnItsWay'
  BY <1>1, <1>2 DEF NothingLost, Durable, BatchOnItsWay
<1>5. QED
  BY <1>1, <1>3, <1>4, PagesUntouched DEF NothingLost

(* The invariant holds at the beginning. *)
LEMMA InitKeepsCommands == Init => NothingLost
<1> SUFFICES ASSUME Init PROVE NothingLost
  OBVIOUS
<1>1. Shape
  BY DEF Init, Shape, Listed
<1>2. BatchOnItsWay /\ PagesRemember /\ NoCommandVanishes
  BY DEF Init, BatchOnItsWay, PagesRemember, NoCommandVanishes, NoTxn, Closed
<1>3. QED
  BY <1>1, <1>2 DEF NothingLost

(* Every step keeps it. *)
LEMMA NextKeepsCommands == NothingLost /\ [Next]_vars => NothingLost'
<1> SUFFICES ASSUME NothingLost, [Next]_vars PROVE NothingLost'
  OBVIOUS
<1>1. ASSUME NEW d \in Devices, PageStep(d) \/ SendBatch(d) \/ GiveUp(d)
      PROVE  NothingLost'
  BY <1>1, OpenKeepsCommands, EditKeepsCommands, ReadKeepsCommands, SendKeepsCommands
  DEF PageStep
<1>2. CASE UNCHANGED vars
  BY <1>2 DEF vars, serverVars, officeVars, deviceVars, NothingLost, Shape,
     BatchOnItsWay, PagesRemember, NoCommandVanishes, Durable, Receipted
<1>3. QED
  BY <1>1, <1>2, BatchKeepsCommands, OfficeKeepsCommands DEF Next

(* A command that a device confirmed as saved is never lost: it stays in the *)
(* device's journal until the server has its receipt or the operator has     *)
(* exported it.                                                             *)
THEOREM CommandsNeverVanish == Spec => []NoCommandVanishes
<1>1. NothingLost => NoCommandVanishes
  BY DEF NothingLost
<1>2. QED
  BY <1>1, InitKeepsCommands, NextKeepsCommands, PTL DEF Spec

-----------------------------------------------------------------------------
(* The receipts of a match, as the ledger of its draft.                     *)

Draft(c) ==
    c \in [exists : {c.exists}, revision : {c.revision}, signature : {c.signature},
           payload : {c.payload}, previous : {c.previous}, undo : {c.undo},
           submitted : {c.submitted}, review : {c.review}, closed : {c.closed}]

Hold(r) == r.op \in {"save", "undo"} /\ r.payload.outcome \in Holding

(* What the draft remembers of its receipts: how many they are, that it is   *)
(* submitted, and that a hold is not decided.  Receipts that no command      *)
(* made are named by their number.                                          *)
Ledger(c, r) ==
    /\ Draft(c) /\ Listed(r) /\ c.revision = Len(r)
    /\ \A i \in DOMAIN r : r[i].key[1] = "command" \/ r[i].key[2] = i
    /\ \A i, j \in DOMAIN r : r[i].key = r[j].key => i = j
    /\ \A i \in DOMAIN r : r[i].op = "submit" => i = Len(r) /\ c.submitted
    /\ \A i \in DOMAIN r :
          Hold(r[i]) => c.review \/ \E k \in i..Len(r) : r[k].op = "decision"
    /\ \A i, j \in DOMAIN r :
          i < j /\ Hold(r[i]) /\ r[j].op = "submit" => \E k \in i..j : r[k].op = "decision"

(* One more receipt. *)
LEMMA LedgerGrows ==
    ASSUME NEW c, NEW r, Ledger(c, r), NEW b, Draft(b), NEW x,
           b.revision = c.revision + 1, ~c.submitted,
           \/ x.key[1] = "command" /\ x.key \notin KeysOf(r)
           \/ x.key[1] # "command" /\ x.key[2] = c.revision + 1,
           x.op = "submit" => b.submitted /\ ~c.review,
           (c.review => b.review) \/ x.op = "decision",
           Hold(x) => b.review
    PROVE  Ledger(b, Append(r, x))
<1> DEFINE n == Len(r)
           t == Append(r, x)
<1>1. /\ n \in Nat /\ DOMAIN r = 1..n /\ Len(t) = n + 1 /\ DOMAIN t = 1..(n + 1)
      /\ \A i \in 1..n : t[i] = r[i]
      /\ t[n + 1] = x /\ Listed(t)
  <2>1. Listed(r)
    BY DEF Ledger
  <2>2. n \in Nat /\ DOMAIN r = 1..n /\ Listed(t)
    BY <2>1, ListFacts
  <2>3. r \in Seq({r[i] : i \in DOMAIN r})
    BY <2>1 DEF Listed
  <2> HIDE DEF t
  <2>4. /\ Len(t) = n + 1 /\ DOMAIN t = 1..(n + 1)
        /\ \A i \in 1..n : t[i] = r[i]
        /\ t[n + 1] = x
    <3> DEFINE S == {r[i] : i \in DOMAIN r}
    <3> HIDE DEF S
    <3>1. r \in Seq(S)
      BY <2>3 DEF S
    <3>2. QED
      BY <3>1 DEF t
  <2>5. QED
    BY <2>2, <2>4
<1> HIDE DEF n, t
<1>2. /\ c.revision = n
      /\ \A i \in 1..n : r[i].key[1] = "command" \/ r[i].key[2] = i
      /\ \A i, j \in 1..n : r[i].key = r[j].key => i = j
      /\ \A i \in 1..n : r[i].op # "submit"
      /\ \A i \in 1..n : Hold(r[i]) => c.review \/ \E k \in i..n : r[k].op = "decision"
  BY <1>1 DEF Ledger, n
<1>3. \A i \in 1..(n + 1) : t[i].key[1] = "command" \/ t[i].key[2] = i
  BY <1>1, <1>2
<1>4. \A i \in 1..n : r[i].key # x.key
  <2>1. CASE x.key[1] = "command" /\ x.key \notin KeysOf(r)
    BY <2>1, <1>1 DEF KeysOf
  <2>2. CASE x.key[1] # "command" /\ x.key[2] = c.revision + 1
    BY <2>2, <1>1, <1>2
  <2>3. QED
    BY <2>1, <2>2
<1>5. \A i, j \in 1..(n + 1) : t[i].key = t[j].key => i = j
  BY <1>1, <1>2, <1>4
<1>6. \A i \in 1..(n + 1) : t[i].op = "submit" => i = n + 1 /\ b.submitted
  BY <1>1, <1>2
<1>7. ASSUME NEW i \in 1..(n + 1), Hold(t[i])
      PROVE  b.review \/ \E k \in i..(n + 1) : t[k].op = "decision"
  <2>1. CASE i = n + 1
    BY <1>1, <1>7, <2>1
  <2>2. CASE i \in 1..n
    <3>1. c.review \/ \E k \in i..n : r[k].op = "decision"
      BY <1>1, <1>2, <1>7, <2>2
    <3>2. CASE c.review
      BY <1>1, <2>2, <3>2
    <3>3. CASE \E k \in i..n : r[k].op = "decision"
      BY <1>1, <2>2, <3>3
    <3>4. QED
      BY <3>1, <3>2, <3>3
  <2>3. QED
    BY <1>1, <2>1, <2>2
<1>8. ASSUME NEW i \in 1..(n + 1), NEW j \in 1..(n + 1),
             i < j, Hold(t[i]), t[j].op = "submit"
      PROVE  \E k \in i..j : t[k].op = "decision"
  <2>1. j = n + 1 /\ i \in 1..n /\ x.op = "submit" /\ Hold(r[i])
    BY <1>1, <1>6, <1>8
  <2>2. \E k \in i..n : r[k].op = "decision"
    BY <1>2, <2>1
  <2>3. QED
    BY <1>1, <2>1, <2>2
<1>9. b.revision = Len(t)
  BY <1>1, <1>2
<1>10. Ledger(b, t)
  BY <1>1, <1>3, <1>5, <1>6, <1>7, <1>8, <1>9 DEF Ledger
<1>11. QED
  BY <1>10 DEF t

(* Pages, journals and batches exist only once the draft does. *)
Started ==
    /\ capture.exists \/ receipts = <<>>
    /\ \/ \E d \in Devices : app[d].open \/ journal[d].exists
       \/ net # {} \/ txn.running
       => capture.exists
    /\ txn.running => txn.capture.exists

LedgersKept ==
    /\ Ledger(capture, receipts)
    /\ txn.running => Ledger(txn.capture, txn.receipts)
    /\ Started

(* Steps that touch neither the draft nor the receipts. *)
LEMMA LedgerUntouched ==
    ASSUME NothingLost, LedgersKept, UNCHANGED <<capture, receipts>>,
           \/ txn' = txn
           \/ ~txn'.running
           \/ txn'.capture = capture /\ txn'.receipts = receipts /\ capture.exists,
           \A d \in Devices : app'[d].open \/ journal'[d].exists => capture.exists,
           net' # {} => capture.exists
    PROVE  LedgersKept'
<1>1. Ledger(capture, receipts)' /\ (txn'.running => Ledger(txn'.capture, txn'.receipts))
  BY DEF LedgersKept
<1>2. Started'
  BY DEF LedgersKept, Started
<1>3. QED
  BY <1>1, <1>2 DEF LedgersKept

(* The pages' own steps, but for those that the server answers with a new    *)
(* draft.                                                                   *)
LEMMA PageStepKeepsLedger ==
    ASSUME NothingLost, LedgersKept, NEW d \in Devices,
           \/ OpenOffline(d) \/ ClosePage(d)
           \/ \E p \in Payloads : EditDraft(d, p)
           \/ \E op \in {"save", "undo", "submit"} : QueueCommand(d, op)
           \/ RefreshStatus(d) \/ DiscardLocal(d) \/ SendBatch(d) \/ GiveUp(d)
    PROVE  LedgersKept'
<1>1. app[d].open \/ journal[d].exists
  <2>1. d \in waiting => Page(app[d])
    BY DEF NothingLost, Shape
  <2>2. QED
    BY <2>1 DEF OpenOffline, ClosePage, EditDraft, QueueCommand, Usable, RefreshStatus,
       DiscardLocal, Idle, SendBatch, GiveUp, Page
<1>2. UNCHANGED <<capture, receipts, txn>>
  BY DEF OpenOffline, ClosePage, EditDraft, QueueCommand, RefreshStatus, DiscardLocal,
     SendBatch, GiveUp, serverVars
<1>3. capture.exists
  BY <1>1 DEF LedgersKept, Started
<1>4. QED
  BY <1>2, <1>3, LedgerUntouched

(* Opening a match makes its draft. *)
LEMMA OpenKeepsLedger ==
    ASSUME LedgersKept, NEW d \in Devices, OpenMatch(d)
    PROVE  LedgersKept'
<1>1. capture' = Capture /\ UNCHANGED <<receipts, net, txn>> /\ ~txn.running
  BY DEF OpenMatch
<1>2. Ledger(Capture, receipts) /\ Capture.exists
  <2>1. CASE capture.exists
    BY <2>1 DEF Capture, LedgersKept
  <2>2. CASE ~capture.exists
    <3>1. receipts = <<>> /\ Capture = NewCapture(TRUE)
      BY <2>2 DEF LedgersKept, Started, Capture
    <3>2. Draft(NewCapture(TRUE)) /\ NewCapture(TRUE).revision = 0 /\ NewCapture(TRUE).exists
      BY DEF Draft, NewCapture
    <3>3. Listed(<<>>) /\ Len(<<>>) = 0 /\ DOMAIN <<>> = {}
      BY DEF Listed
    <3>4. QED
      BY <3>1, <3>2, <3>3 DEF Ledger
  <2>3. QED
    BY <2>1, <2>2
<1>3. QED
  BY <1>1, <1>2 DEF LedgersKept, Started

(* The operator confirms the draft in a new context, or the coordinator      *)
(* decides.                                                                 *)
LEMMA OtherReceiptsKeepLedger ==
    ASSUME NothingLost, LedgersKept,
           \/ \E d \in Devices : Reconcile(d)
           \/ \E outcome \in {"normal", "abandoned"} : Decide(outcome)
    PROVE  LedgersKept'
<1>1. Draft(capture) /\ Ledger(capture, receipts)
  BY DEF LedgersKept, Ledger
<1>2. PICK x : /\ receipts' = Append(receipts, x)
               /\ Ledger(capture', receipts')
               /\ capture'.exists = capture.exists
  <2>1. ASSUME NEW d \in Devices, Reconcile(d)
        PROVE  \E x : /\ receipts' = Append(receipts, x)
                      /\ Ledger(capture', receipts')
                      /\ capture'.exists = capture.exists
    <3> DEFINE c == [capture EXCEPT !.signature = Signature, !.revision = @ + 1]
               x == Receipt(<<"reconcile", c.revision>>, "reconcile", c.payload)
    <3>1. capture' = c /\ receipts' = Append(receipts, x) /\ ~capture.submitted
      BY <2>1 DEF Reconcile
    <3>2. /\ Draft(c) /\ c.revision = capture.revision + 1
          /\ c.exists = capture.exists /\ c.review = capture.review
      BY <1>1 DEF Draft
    <3>3. /\ x.key[1] # "command" /\ x.key[2] = capture.revision + 1
          /\ x.op # "submit" /\ ~Hold(x)
      BY <3>2 DEF Receipt, Hold
    <3> HIDE DEF c, x
    <3>4. Ledger(c, Append(receipts, x))
      BY <1>1, <3>1, <3>2, <3>3, LedgerGrows
    <3>5. QED
      BY <3>1, <3>2, <3>4
  <2>2. ASSUME NEW outcome, Decide(outcome)
        PROVE  \E x : /\ receipts' = Append(receipts, x)
                      /\ Ledger(capture', receipts')
                      /\ capture'.exists = capture.exists
    <3> DEFINE payload == [capture.payload EXCEPT !.outcome = outcome]
               c == [capture EXCEPT !.payload = payload, !.previous = capture.payload,
                                    !.revision = @ + 1, !.review = FALSE,
                                    !.closed = outcome = "abandoned", !.undo = FALSE]
               x == Receipt(<<"decision", c.revision>>, "decision", payload)
    <3>1. capture' = c /\ receipts' = Append(receipts, x) /\ ~capture.submitted
      BY <2>2 DEF Decide, Undecided
    <3> HIDE DEF payload
    <3>2. /\ Draft(c) /\ c.revision = capture.revision + 1
          /\ c.exists = capture.exists
      BY <1>1 DEF Draft
    <3>3. /\ x.key[1] # "command" /\ x.key[2] = capture.revision + 1
          /\ x.op = "decision" /\ ~Hold(x)
      BY <3>2 DEF Receipt, Hold
    <3> HIDE DEF c, x
    <3>4. Ledger(c, Append(receipts, x))
      BY <1>1, <3>1, <3>2, <3>3, LedgerGrows
    <3>5. QED
      BY <3>1, <3>2, <3>4
  <2>3. QED
    BY <2>1, <2>2
<1>3. capture.exists /\ ~txn.running /\ UNCHANGED <<net, txn>>
  BY DEF Reconcile, Idle, Decide, Undecided, LedgersKept, Started
<1>4. QED
  BY <1>2, <1>3 DEF LedgersKept, Started

(* An accepted command adds the next receipt. *)
LEMMA ApplyKeepsLedger ==
    ASSUME NothingLost, LedgersKept, ApplyCommand
    PROVE  LedgersKept'
<1> DEFINE payload == NewPayload(Current)
           x == Receipt(Current.key, Current.op, payload)
           c == [capture EXCEPT
                    !.payload = payload, !.previous = capture.payload,
                    !.undo = Current.op = "save",
                    !.revision = @ + 1, !.signature = match',
                    !.review = ReviewAfter(payload),
                    !.submitted = Current.op = "submit"]
<1>1. /\ capture' = c /\ receipts' = Append(receipts, x)
      /\ Acceptable(Current) /\ Current.key \notin Receipted
      /\ txn' = [txn EXCEPT !.left = Tail(@)]
      /\ txn.running /\ txn.left # <<>>
      /\ UNCHANGED <<app, journal, net>>
  BY DEF ApplyCommand, AtCommand, deviceVars
<1>2. Draft(capture) /\ Ledger(capture, receipts) /\ capture.exists
  BY <1>1 DEF LedgersKept, Ledger, Started
<1>3. Running(txn)
  BY <1>1 DEF NothingLost, Shape, NoTxn
<1>4. Current.key[1] = "command"
  BY <1>1, <1>3, QueueFacts DEF Running, Current
<1> HIDE DEF payload
<1>5. /\ Draft(c) /\ c.revision = capture.revision + 1
      /\ c.exists = capture.exists
      /\ c.review = ReviewAfter(payload)
      /\ c.submitted = (Current.op = "submit")
  BY <1>2 DEF Draft
<1>6. /\ x.key = Current.key /\ x.op = Current.op
      /\ Hold(x) => payload.outcome \in Holding
  BY DEF Receipt, Hold
<1>7. ~capture.submitted /\ (Current.op = "submit" => ~capture.review)
  BY <1>1 DEF Acceptable, Open
<1> HIDE DEF c, x
<1>8. Ledger(c, Append(receipts, x))
  BY <1>1, <1>2, <1>4, <1>5, <1>6, <1>7, LedgerGrows DEF ReviewAfter, Receipted
<1>9. /\ txn'.running /\ txn'.capture = txn.capture /\ txn'.receipts = txn.receipts
  BY <1>1, <1>3 DEF Running
<1>10. QED
  BY <1>1, <1>2, <1>5, <1>8, <1>9 DEF LedgersKept, Started

(* The other steps of a batch; a refused one puts the ledger back. *)
LEMMA BatchKeepsLedger ==
    ASSUME NothingLost, LedgersKept, BatchStep
    PROVE  LedgersKept'
<1>1. ASSUME NEW m \in net, BeginBatch(m)
      PROVE  LedgersKept'
  BY <1>1, LedgerUntouched DEF BeginBatch, serverVars, deviceVars, LedgersKept, Started
<1>2. ASSUME NEW m \in net, DenyBatch(m)
      PROVE  LedgersKept'
  <2>1. capture.exists /\ UNCHANGED <<capture, receipts, txn>>
    BY <1>2 DEF DenyBatch, serverVars, LedgersKept, Started
  <2>2. QED
    BY <2>1, LedgerUntouched
<1>3. CASE ReplayCommand
  <2>1. /\ UNCHANGED <<capture, receipts, app, journal, net>>
        /\ txn' = [txn EXCEPT !.left = Tail(@)] /\ txn.running
    BY <1>3 DEF ReplayCommand, AtCommand, serverVars, deviceVars
  <2>2. Running(txn)
    BY <2>1 DEF NothingLost, Shape, NoTxn
  <2>3. txn'.running /\ txn'.capture = txn.capture /\ txn'.receipts = txn.receipts
    BY <2>1, <2>2 DEF Running
  <2>4. QED
    BY <2>1, <2>3 DEF LedgersKept, Started
<1>4. CASE RefuseBatch
  <2>1. /\ capture' = txn.capture /\ receipts' = txn.receipts
        /\ txn' = NoTxn /\ txn.running
    BY <1>4 DEF RefuseBatch, AtCommand
  <2>2. Ledger(txn.capture, txn.receipts) /\ txn.capture.exists /\ ~txn'.running
    BY <2>1 DEF LedgersKept, Started, NoTxn
  <2>3. QED
    BY <2>1, <2>2 DEF LedgersKept, Started
<1>5. CASE CommitBatch
  <2>1. /\ UNCHANGED <<capture, receipts, net>> /\ txn' = NoTxn /\ txn.running
    BY <1>5 DEF CommitBatch, serverVars
  <2>2. capture.exists /\ ~txn'.running
    BY <2>1 DEF LedgersKept, Started, NoTxn
  <2>3. QED
    BY <2>1, <2>2, LedgerUntouched
<1>6. QED
  BY <1>1, <1>2, <1>3, <1>4, <1>5, ApplyKeepsLedger DEF BatchStep

(* The rest of the office. *)
LEMMA OfficeKeepsLedger ==
    ASSUME NothingLost, LedgersKept, OfficeStep
    PROVE  LedgersKept'
<1>1. ASSUME UNCHANGED <<capture, receipts, app, journal, net, txn>>
      PROVE  LedgersKept'
  BY <1>1 DEF LedgersKept, Started
<1>2. CASE ResolveIncident
  BY <1>1, <1>2 DEF ResolveIncident, deviceVars
<1>3. CASE ChangeContext \/ CloseSession \/ \E d \in Devices : SetAccess(d)
  BY <1>1, <1>3 DEF ChangeContext, CloseSession, SetAccess, serverVars, deviceVars
<1>4. CASE OfficeResult
  BY <1>1, <1>4 DEF OfficeResult, deviceVars
<1>5. QED
  BY <1>2, <1>3, <1>4, OtherReceiptsKeepLedger DEF OfficeStep

(* The ledgers at the start. *)
LEMMA LedgersKeptInit == Init => NothingLost /\ LedgersKept
<1> SUFFICES ASSUME Init PROVE LedgersKept
  BY InitKeepsCommands
<1>1. /\ Draft(capture) /\ capture.revision = 0
      /\ receipts = <<>> /\ Len(receipts) = 0 /\ DOMAIN receipts = {}
      /\ Listed(receipts)
  BY DEF Init, NewCapture, Draft, Listed
<1>2. Started /\ ~txn.running
  BY DEF Init, Started, Closed, NoJournal, NoTxn
<1>3. QED
  BY <1>1, <1>2 DEF LedgersKept, Ledger

(* Every step keeps the ledgers. *)
LEMMA LedgersKeptNext ==
    NothingLost /\ LedgersKept /\ [Next]_vars => (NothingLost /\ LedgersKept)'
<1> SUFFICES ASSUME NothingLost, LedgersKept, [Next]_vars PROVE LedgersKept'
  BY NextKeepsCommands
<1>1. ASSUME NEW d \in Devices, PageStep(d) \/ SendBatch(d) \/ GiveUp(d)
      PROVE  LedgersKept'
  BY <1>1, OpenKeepsLedger, PageStepKeepsLedger, OtherReceiptsKeepLedger DEF PageStep
<1>2. CASE UNCHANGED vars
  BY <1>2 DEF vars, serverVars, officeVars, deviceVars, LedgersKept, Started
<1>3. QED
  BY <1>1, <1>2, BatchKeepsLedger, OfficeKeepsLedger DEF Next

(* Whatever is retried, late or repeated: no command is applied twice,       *)
(* nothing follows a submission, and a dispute or an abandonment is decided  *)
(* by a coordinator before the match is submitted.                          *)
THEOREM ReceiptsAlwaysSound == Spec => [](AppliedOnce /\ HoldNeedsDecision)
<1>1. LedgersKept => AppliedOnce /\ HoldNeedsDecision
  <2> SUFFICES ASSUME LedgersKept PROVE AppliedOnce /\ HoldNeedsDecision
    OBVIOUS
  <2>1. Ledger(capture, receipts)
    BY DEF LedgersKept
  <2>2. AppliedOnce
    BY <2>1 DEF Ledger, AppliedOnce
  <2>3. HoldNeedsDecision
    BY <2>1 DEF Ledger, HoldNeedsDecision, Hold
  <2>4. QED
    BY <2>2, <2>3
<1>2. QED
  BY <1>1, LedgersKeptInit, LedgersKeptNext, PTL DEF Spec
-----------------------------------------------------------------------------
(* What operators saw when they confirmed their commands.                   *)

(* The commands of all pages, journals and batches. *)
Lists ==
    {app[d].pending : d \in {d \in Devices : app[d].open}}
    \cup {journal[d].pending : d \in {d \in Devices : journal[d].exists}}
    \cup {m.cmds : m \in net}
    \cup IF txn.running THEN {txn.batch.cmds} ELSE {}

(* The draft that others see. *)
Committed == IF txn.running THEN txn.capture ELSE capture

(* Each command was confirmed on the draft that the one before it leaves.    *)
After(c) == IF c.op = "undo" THEN Anything ELSE c.payload
Chained(cmds) ==
    /\ \A i \in DOMAIN cmds : cmds[i].revision \in Nat
    /\ \A i, j \in DOMAIN cmds :
          j = i + 1 => cmds[j].revision = cmds[i].revision + 1 /\ cmds[j].seen = After(cmds[i])

(* Keys are numbers that were issued. *)
Numbered(cmds, n) == \A i \in DOMAIN cmds : cmds[i].key[1] = "command" /\ cmds[i].key[2] \in 1..n

(* A command changed the revision that it named. *)
Answers(r, cmds) ==
    \A i \in DOMAIN cmds, j \in DOMAIN r :
        r[j].key = cmds[i].key =>
            /\ j = cmds[i].revision + 1
            /\ cmds[i].op # "undo" => r[j].payload = cmds[i].payload

(* A revision that is still the draft's shows its draft. *)
Saw(c, cap) ==
    c.revision <= cap.revision
    /\ (c.revision = cap.revision => c.seen \in {Anything, cap.payload})

ListOK(cmds, cap, r, n) ==
    /\ Chained(cmds) /\ Numbered(cmds, n) /\ Answers(r, cmds)
    /\ cmds # <<>> => Saw(cmds[1], cap)

View(v) ==
    v \in [revision : Nat, signature : {v.signature}, payload : {v.payload},
           drifted : {v.drifted}, undo : {v.undo}, review : {v.review}, locked : {v.locked}]

(* What is kept on a device, with or without commands on top of it. *)
DeviceOK(a, cap) ==
    /\ View(a.view) /\ a.view.revision <= cap.revision
    /\ \A i \in DOMAIN a.pending : a.pending[i].revision = a.view.revision + i - 1
Shows(a, cap) ==
    a.pending = <<>> /\ a.view.revision = cap.revision => a.view.payload = cap.payload

(* The last receipt is the draft. *)
Latest(c, r) == r # <<>> => c.payload = r[Len(r)].payload

Known(r, n) == \A j \in DOMAIN r : r[j].key[1] = "command" => r[j].key[2] \in 1..n

(* The later of two drafts: a revision has one payload. *)
Later(c, e) ==
    /\ c.revision \in Nat /\ e.revision \in Nat /\ c.revision <= e.revision
    /\ c.revision = e.revision => c.payload = e.payload

(* The commands of a batch that are not left have receipts. *)
Behind(cmds, left, r) ==
    \E k \in 0..Len(cmds) :
        /\ Len(left) = Len(cmds) - k
        /\ \A i \in 1..Len(left) : left[i] = cmds[k + i]
        /\ \A i \in 1..k : cmds[i].key \in r

(* A transaction adds to what it found. *)
TxnOK ==
    txn.running =>
        /\ Later(txn.capture, capture)
        /\ Latest(txn.capture, txn.receipts)
        /\ \A j \in DOMAIN txn.receipts :
              j \in DOMAIN receipts /\ receipts[j] = txn.receipts[j]
        /\ Behind(txn.batch.cmds, txn.left, Receipted)

Informed ==
    /\ issued \in Nat
    /\ \A cmds \in Lists : ListOK(cmds, Committed, receipts, issued)
    /\ \A x, y \in Lists :
          \A i \in DOMAIN x, j \in DOMAIN y : x[i].key = y[j].key => x[i] = y[j]
    /\ Known(receipts, issued) /\ Latest(capture, receipts)
    /\ \A d \in Devices :
          /\ app[d].open => /\ DeviceOK(app[d], Committed)
                            /\ ~app[d].conflict => Shows(app[d], Committed)
          /\ journal[d].exists => DeviceOK(journal[d], Committed) /\ Shows(journal[d], Committed)
    /\ TxnOK

(* What is handed on. *)
LEMMA LaterList ==
    ASSUME NEW cmds, Listed(cmds), NEW c, NEW e, Later(c, e), NEW r, NEW n, ListOK(cmds, c, r, n)
    PROVE  ListOK(cmds, e, r, n)
<1>1. cmds # <<>> => 1 \in DOMAIN cmds
  BY ListFacts
<1>2. cmds # <<>> => Saw(cmds[1], e)
  BY <1>1 DEF ListOK, Chained, Saw, Later
<1>3. QED
  BY <1>2 DEF ListOK

(* A device that was not behind is not ahead later. *)
LEMMA LaterDevice ==
    ASSUME NEW c, NEW e, Later(c, e), NEW a, DeviceOK(a, c)
    PROVE  DeviceOK(a, e) /\ (Shows(a, c) => Shows(a, e))
  BY DEF Later, DeviceOK, View, Shows

(* What an answer of the server shows. *)
LEMMA ResponseShows ==
    ASSUME NEW c, c.revision \in Nat, NEW m
    PROVE  /\ View(Response(c, m))
           /\ Response(c, m).revision = c.revision /\ Response(c, m).payload = c.payload
  BY DEF Response, View

(* Revisions count receipts. *)
LEMMA Revisions ==
    ASSUME NothingLost, LedgersKept
    PROVE  /\ capture.revision \in Nat /\ Committed.revision \in Nat
           /\ capture.revision = Len(receipts) /\ Listed(receipts)
           /\ DOMAIN receipts = 1..Len(receipts)
           /\ \A cmds \in Lists : Queue(cmds)
<1>1. \A r : Listed(r) => Len(r) \in Nat /\ DOMAIN r = 1..Len(r)
  BY ListFacts
<1>2. /\ capture.revision = Len(receipts) /\ Listed(receipts)
      /\ txn.running => txn.capture.revision = Len(txn.receipts) /\ Listed(txn.receipts)
  BY DEF LedgersKept, Ledger
<1>3. \A cmds \in Lists : Queue(cmds)
  <2>1. \A d \in Devices : app[d].open => Queue(app[d].pending)
    <3>1. \A a : Page(a) => Queue(a.pending)
      BY DEF Page
    <3>2. QED
      BY <3>1 DEF NothingLost, Shape, Closed
  <2>2. \A d \in Devices : journal[d].exists => Queue(journal[d].pending)
    BY DEF NothingLost, Shape, NoJournal
  <2>3. \A m \in net : Queue(m.cmds)
    BY DEF NothingLost, Shape, Batch
  <2>4. txn.running => Queue(txn.batch.cmds)
    <3>1. \A t : Running(t) => Queue(t.batch.cmds)
      BY DEF Running, Batch
    <3>2. QED
      BY <3>1 DEF NothingLost, Shape, NoTxn
  <2>5. QED
    BY <2>1, <2>2, <2>3, <2>4 DEF Lists
<1>4. QED
  BY <1>1, <1>2, <1>3 DEF Committed

(* The command at the server replaces what its operator saw: either it is the *)
(* first of its batch and nothing was applied since, or the last receipt is  *)
(* that of the command before it.                                           *)
LEMMA InformedHolds ==
    ASSUME NothingLost, LedgersKept, Informed
    PROVE  InformedChange
<1> SUFFICES ASSUME AtCommand, Current.key \notin Receipted, Acceptable(Current)
             PROVE  Current.seen \in {Anything, capture.payload}
  BY DEF InformedChange
<1> DEFINE cmds == txn.batch.cmds
<1>1. txn.running /\ txn.left # <<>> /\ Running(txn)
  BY DEF AtCommand, NothingLost, Shape, NoTxn
<1>2. cmds \in Lists /\ Listed(cmds) /\ Listed(txn.left)
  BY <1>1 DEF Lists, Running, Batch, Queue
<1>3. ListOK(cmds, txn.capture, receipts, issued)
  BY <1>1, <1>2 DEF Informed, Committed
<1>4. PICK k \in 0..Len(cmds) :
         /\ Len(txn.left) = Len(cmds) - k
         /\ \A i \in 1..Len(txn.left) : txn.left[i] = cmds[k + i]
         /\ \A i \in 1..k : cmds[i].key \in Receipted
  BY <1>1 DEF Informed, TxnOK, Behind
<1>5. Later(txn.capture, capture) /\ Latest(capture, receipts)
  BY <1>1 DEF Informed, TxnOK
<1> HIDE DEF cmds
<1>6. /\ Len(cmds) \in Nat /\ DOMAIN cmds = 1..Len(cmds)
      /\ Len(txn.left) \in Nat /\ Len(txn.left) > 0
      /\ Current = txn.left[1]
  BY <1>1, <1>2, ListFacts DEF Listed, Current
<1>7. Current = cmds[k + 1] /\ k + 1 \in DOMAIN cmds
  BY <1>4, <1>6
<1>8. Current.revision = capture.revision
  BY DEF Acceptable, Fresh
<1>9. capture.revision \in Nat /\ capture.revision = Len(receipts)
      /\ DOMAIN receipts = 1..Len(receipts) /\ txn.capture.revision \in Nat
  BY <1>1, Revisions DEF Committed
<1>10. CASE k = 0
  <2>1. cmds # <<>> /\ Current = cmds[1] /\ Saw(cmds[1], txn.capture)
    BY <1>3, <1>7, <1>10 DEF ListOK
  <2>2. QED
    BY <1>5, <1>8, <1>9, <2>1 DEF Saw, Later
<1>11. CASE k > 0
  <2>1. k \in DOMAIN cmds /\ cmds[k].revision \in Nat
    BY <1>3, <1>6, <1>11 DEF ListOK, Chained
  <2>2. Current.revision = cmds[k].revision + 1 /\ Current.seen = After(cmds[k])
    BY <1>3, <1>7, <2>1 DEF ListOK, Chained
  <2>3. PICK j \in DOMAIN receipts : receipts[j].key = cmds[k].key
    <3>1. cmds[k].key \in Receipted
      BY <1>4, <1>6, <2>1
    <3>2. QED
      BY <3>1 DEF Receipted, KeysOf
  <2>4. j = cmds[k].revision + 1 /\ (cmds[k].op # "undo" => receipts[j].payload = cmds[k].payload)
    BY <1>3, <2>1, <2>3 DEF ListOK, Answers
  <2>5. j = Len(receipts) /\ receipts # <<>>
    BY <1>8, <1>9, <2>2, <2>3, <2>4
  <2>6. QED
    BY <1>5, <2>2, <2>4, <2>5 DEF Latest, After
<1>12. QED
  BY <1>10, <1>11

(* A step in which the draft only advances, commands only move, and what is   *)
(* new on a device shows the draft.                                         *)
LEMMA KeepInformed ==
    ASSUME NothingLost, LedgersKept, Informed, NothingLost', LedgersKept',
           issued' = issued, Later(Committed, Committed'),
           Lists' \subseteq Lists \cup {<<>>},
           \A cmds \in Lists : Answers(receipts', cmds),
           Known(receipts', issued), Latest(capture', receipts'), TxnOK',
           \A d \in Devices : app'[d].open =>
              \/ app[d].open /\ app'[d] = app[d]
              \/ /\ DeviceOK(app'[d], Committed')
                 /\ ~app'[d].conflict => Shows(app'[d], Committed'),
           \A d \in Devices : journal'[d].exists =>
              \/ journal[d].exists /\ journal'[d] = journal[d]
              \/ DeviceOK(journal'[d], Committed') /\ Shows(journal'[d], Committed')
    PROVE  Informed'
<1>1. \A cmds \in Lists' : Listed(cmds)
  BY Revisions, QueueFacts DEF Queue
<1>2. ASSUME NEW cmds \in Lists'
      PROVE  ListOK(cmds, Committed', receipts', issued)
  <2>1. CASE cmds = <<>>
    BY <2>1 DEF ListOK, Chained, Numbered, Answers
  <2>2. CASE cmds \in Lists
    <3>1. ListOK(cmds, Committed, receipts, issued)
      BY <2>2 DEF Informed
    <3>2. ListOK(cmds, Committed', receipts, issued)
      BY <1>1, <3>1, LaterList
    <3>3. QED
      BY <2>2, <3>2 DEF ListOK
  <2>3. QED
    BY <2>1, <2>2
<1>3. \A x, y \in Lists' :
         \A i \in DOMAIN x, j \in DOMAIN y : x[i].key = y[j].key => x[i] = y[j]
  <2>1. DOMAIN <<>> = {}
    OBVIOUS
  <2>2. \A x \in Lists' : x \in Lists \/ DOMAIN x = {}
    BY <2>1
  <2>3. QED
    BY <2>2 DEF Informed
<1>4. ASSUME NEW d \in Devices, app'[d].open
      PROVE  DeviceOK(app'[d], Committed') /\ (~app'[d].conflict => Shows(app'[d], Committed'))
  BY <1>4, LaterDevice DEF Informed
<1>5. ASSUME NEW d \in Devices, journal'[d].exists
      PROVE  DeviceOK(journal'[d], Committed') /\ Shows(journal'[d], Committed')
  BY <1>5, LaterDevice DEF Informed
<1>6. issued' \in Nat
  BY DEF Informed
<1>7. QED
  BY <1>2, <1>3, <1>4, <1>5, <1>6 DEF Informed

(* Nothing but the pages changes. *)
LEMMA PageKeepsInformed ==
    ASSUME NothingLost, LedgersKept, Informed, NothingLost', LedgersKept',
           UNCHANGED <<capture, receipts, txn, issued>>,
           NEW d \in Devices, NEW b,
           app' = [app EXCEPT ![d] = b],
           Saved(d, b) \/ UNCHANGED journal,
           Saved(d, b) => Shows(b, Committed),
           b.open => /\ b.pending \in Lists \cup {<<>>}
                     /\ DeviceOK(b, Committed)
                     /\ ~b.conflict => Shows(b, Committed),
           Saved(d, b) => b.open,
           \A m \in net' : m.cmds \in Lists
    PROVE  Informed'
<1>1. \A e \in Devices : app'[e] = IF e = d THEN b ELSE app[e]
  BY DEF NothingLost, Shape
<1>2. \/ journal' = journal
      \/ Saved(d, b) /\ \A e \in Devices : journal'[e] = IF e = d THEN JournalOf(b) ELSE journal[e]
  BY DEF NothingLost, Shape, Saved
<1>3. /\ JournalOf(b).exists /\ JournalOf(b).pending = b.pending
      /\ JournalOf(b).view = b.view
  BY DEF JournalOf
<1>4. Committed' = Committed
  BY DEF Committed
<1>5. Lists' \subseteq Lists \cup {<<>>}
  <2>1. ASSUME NEW e \in Devices, app'[e].open
        PROVE  app'[e].pending \in Lists \cup {<<>>}
    BY <1>1, <2>1 DEF Lists
  <2>2. ASSUME NEW e \in Devices, journal'[e].exists
        PROVE  journal'[e].pending \in Lists \cup {<<>>}
    BY <1>2, <1>3, <2>2 DEF Lists
  <2>3. txn'.running => txn'.batch.cmds \in Lists
    BY DEF Lists
  <2>4. QED
    BY <2>1, <2>2, <2>3 DEF Lists
<1>6. Later(Committed, Committed')
  BY <1>4, Revisions DEF Later
<1>7. TxnOK'
  BY DEF Informed, TxnOK, Receipted
<1>8. /\ \A cmds \in Lists : Answers(receipts', cmds)
      /\ Known(receipts', issued) /\ Latest(capture', receipts')
  BY DEF Informed, ListOK
<1>9. DeviceOK(b, Committed) /\ Shows(b, Committed)
         => DeviceOK(JournalOf(b), Committed) /\ Shows(JournalOf(b), Committed)
  BY <1>3 DEF DeviceOK, Shows
<1>10. \A e \in Devices : app'[e].open =>
          \/ app[e].open /\ app'[e] = app[e]
          \/ /\ DeviceOK(app'[e], Committed')
             /\ ~app'[e].conflict => Shows(app'[e], Committed')
  BY <1>1, <1>4
<1>11. \A e \in Devices : journal'[e].exists =>
          \/ journal[e].exists /\ journal'[e] = journal[e]
          \/ DeviceOK(journal'[e], Committed') /\ Shows(journal'[e], Committed')
  BY <1>2, <1>4, <1>9
<1>12. QED
  BY <1>5, <1>6, <1>7, <1>8, <1>10, <1>11, KeepInformed

(* A page that is opened shows the draft, or commands, or a conflict. *)
LEMMA RestoreShows ==
    ASSUME NothingLost, Informed, NEW d \in Devices, NEW server, View(server),
           server.revision <= Committed.revision, Committed.revision \in Nat,
           (~journal[d].exists \/ journal[d].pending = <<>>)
              => (server.revision = Committed.revision => server.payload = Committed.payload)
    PROVE  LET b == Restore(server, journal[d]) IN
           /\ b.open /\ b.pending \in Lists \cup {<<>>}
           /\ DeviceOK(b, Committed)
           /\ ~b.conflict => Shows(b, Committed)
           /\ b.pending = <<>> /\ ~b.dirty => Shows(b, Committed)
<1> DEFINE b == Restore(server, journal[d])
<1>1. DOMAIN <<>> = {}
  OBVIOUS
<1>2. CASE ~Unsent(journal[d])
  <2>1. /\ b.open /\ b.view = server /\ b.pending = <<>>
    BY <1>2 DEF Restore
  <2>2. ~journal[d].exists \/ journal[d].pending = <<>>
    BY <1>2 DEF Unsent
  <2> HIDE DEF b
  <2>3. DeviceOK(b, Committed) /\ Shows(b, Committed)
    BY <1>1, <2>1, <2>2 DEF DeviceOK, Shows
  <2>4. QED
    BY <2>1, <2>3 DEF b
<1>3. CASE Unsent(journal[d])
  <2> DEFINE old == journal[d].view
             v == [server EXCEPT !.revision = old.revision, !.signature = old.signature]
  <2>1. /\ b.open /\ b.view = v /\ b.pending = journal[d].pending /\ b.dirty = journal[d].dirty
        /\ b.pending = <<>> /\ ~b.conflict => old.revision = server.revision
    BY <1>3 DEF Restore
  <2>2. /\ journal[d].exists /\ b.pending \in Lists
        /\ b.pending = <<>> => b.dirty
    BY <1>3, <2>1 DEF Unsent, Lists
  <2>3. DeviceOK(journal[d], Committed)
    BY <2>2 DEF Informed
  <2>4. View(v) /\ v.revision = old.revision /\ v.payload = server.payload
    BY <2>3 DEF View, DeviceOK
  <2> HIDE DEF b, v
  <2>5. DeviceOK(b, Committed)
    BY <2>1, <2>3, <2>4 DEF DeviceOK
  <2>6. ~b.conflict => Shows(b, Committed)
    BY <2>1, <2>4 DEF Shows
  <2>7. QED
    BY <2>1, <2>2, <2>5, <2>6 DEF b
<1>4. QED
  BY <1>2, <1>3

(* Opening a page. *)
LEMMA OpenStaysInformed ==
    ASSUME NothingLost, LedgersKept, Informed, NothingLost', LedgersKept', NEW d \in Devices,
           OpenMatch(d) \/ OpenOffline(d) \/ ClosePage(d)
    PROVE  Informed'
<1>1. CASE OpenOffline(d)
  <2> DEFINE b == Restore(journal[d].view, journal[d])
  <2>1. /\ app' = [app EXCEPT ![d] = b] /\ journal[d].exists
        /\ UNCHANGED <<capture, receipts, txn, issued, journal, net>>
    BY <1>1 DEF OpenOffline, Show, serverVars
  <2>2. DeviceOK(journal[d], Committed) /\ Shows(journal[d], Committed)
    BY <2>1 DEF Informed
  <2>3. /\ View(journal[d].view) /\ journal[d].view.revision <= Committed.revision
        /\ Committed.revision \in Nat
        /\ journal[d].pending = <<>> /\ journal[d].view.revision = Committed.revision
              => journal[d].view.payload = Committed.payload
    BY <2>2, Revisions DEF DeviceOK, Shows
  <2>4. /\ b.open /\ b.pending \in Lists \cup {<<>>} /\ DeviceOK(b, Committed)
        /\ ~b.conflict => Shows(b, Committed)
    BY <2>1, <2>3, RestoreShows
  <2> HIDE DEF b
  <2>5. \/ ~Saved(d, b)
        \/ journal' = [journal EXCEPT ![d] = JournalOf(b)] /\ journal' = journal
    BY <2>1 DEF Saved
  <2>6. Saved(d, b) => Shows(b, Committed)
    <3>1. SUFFICES ASSUME Saved(d, b) PROVE Shows(b, Committed)
      OBVIOUS
    <3>2. journal[d] = JournalOf(b)
      BY <2>1, <2>5, <3>1 DEF NothingLost, Shape
    <3>3. QED
      BY <2>2, <3>2 DEF Shows, JournalOf
  <2>7. \A m \in net' : m.cmds \in Lists
    BY <2>1 DEF Lists
  <2>8. QED
    BY <2>1, <2>4, <2>6, <2>7, PageKeepsInformed
<1>2. CASE ClosePage(d)
  <2>1. /\ app' = [app EXCEPT ![d] = Closed]
        /\ UNCHANGED <<capture, receipts, txn, issued, journal, net>>
    BY <1>2 DEF ClosePage, Show, serverVars
  <2>2. /\ \A e \in Devices : app'[e].open => app[e].open /\ app'[e] = app[e]
        /\ Committed' = Committed
    BY <2>1 DEF NothingLost, Shape, Closed, Committed
  <2>3. Lists' \subseteq Lists \cup {<<>>}
    BY <2>1, <2>2 DEF Lists
  <2>4. Later(Committed, Committed') /\ TxnOK'
    BY <2>1, <2>2, Revisions DEF Later, Informed, TxnOK, Receipted
  <2>5. QED
    BY <2>1, <2>2, <2>3, <2>4, KeepInformed DEF Informed, ListOK
<1>3. CASE OpenMatch(d)
  <2> DEFINE server == Response(Capture, match)
             b == Restore(server, journal[d])
  <2>1. /\ app' = [app EXCEPT ![d] = b] /\ capture' = Capture /\ ~txn.running
        /\ UNCHANGED <<receipts, txn, issued, net>>
        /\ \/ UNCHANGED journal
           \/ b.pending = <<>> /\ ~b.dirty /\ Saved(d, b)
    BY <1>3 DEF OpenMatch, Show, Persist
  <2>2. CASE capture.exists
    <3>1. capture' = capture /\ Capture = capture /\ Committed = capture
      BY <2>1, <2>2 DEF Capture, Committed
    <3>2. /\ View(server) /\ server.revision = capture.revision
          /\ server.payload = capture.payload /\ capture.revision \in Nat
      BY <3>1, Revisions, ResponseShows
    <3> HIDE DEF server
    <3>3. server.revision <= Committed.revision
      BY <3>1, <3>2
    <3>4. /\ b.open /\ b.pending \in Lists \cup {<<>>} /\ DeviceOK(b, Committed)
          /\ ~b.conflict => Shows(b, Committed)
          /\ b.pending = <<>> /\ ~b.dirty => Shows(b, Committed)
      BY <3>1, <3>2, <3>3, RestoreShows
    <3> HIDE DEF b
    <3>5. \A m \in net' : m.cmds \in Lists
      BY <2>1 DEF Lists
    <3>6. CASE b.pending = <<>> /\ ~b.dirty /\ Saved(d, b)
      BY <2>1, <3>1, <3>4, <3>5, <3>6, PageKeepsInformed
    <3>7. CASE UNCHANGED journal
      <4>1. CASE Saved(d, b)
        <5>1. journal[d] = JournalOf(b) /\ journal[d].exists
          BY <3>7, <4>1 DEF NothingLost, Shape, Saved, JournalOf
        <5>2. Shows(b, Committed)
          BY <5>1 DEF Informed, Shows, JournalOf
        <5>3. QED
          BY <2>1, <3>1, <3>4, <3>5, <3>7, <5>2, PageKeepsInformed
      <4>2. CASE ~Saved(d, b)
        BY <2>1, <3>1, <3>4, <3>5, <3>7, <4>2, PageKeepsInformed
      <4>3. QED
        BY <4>1, <4>2
    <3>8. QED
      BY <2>1, <3>6, <3>7
  <2>3. CASE ~capture.exists
    <3>1. /\ \A e \in Devices : ~app[e].open /\ ~journal[e].exists
          /\ net = {} /\ receipts = <<>>
      BY <2>3 DEF LedgersKept, Started
    <3>2. Capture.revision = 0 /\ Committed' = Capture
      BY <2>1, <2>3 DEF Capture, NewCapture, Committed
    <3>3. /\ View(server) /\ server.revision = Committed'.revision
          /\ server.payload = Committed'.payload /\ Committed'.revision \in Nat
      BY <3>2, ResponseShows
    <3>4. b.open /\ b.view = server /\ b.pending = <<>>
      BY <3>1 DEF Restore, Unsent
    <3> HIDE DEF server, b
    <3>5. DeviceOK(b, Committed') /\ Shows(b, Committed')
      BY <3>3, <3>4 DEF DeviceOK, Shows
    <3>6. /\ \A e \in Devices : app'[e].open => e = d /\ app'[e] = b
          /\ \A e \in Devices : journal'[e].exists => e = d /\ journal'[e] = JournalOf(b)
      BY <2>1, <3>1 DEF NothingLost, Shape, Saved
    <3>7. JournalOf(b).pending = <<>> /\ JournalOf(b).view = b.view
      BY <3>4 DEF JournalOf
    <3>8. /\ \A e \in Devices : app'[e].open => app'[e].pending = <<>>
          /\ \A e \in Devices : journal'[e].exists => journal'[e].pending = <<>>
          /\ net' = {} /\ ~txn'.running
      BY <2>1, <3>1, <3>4, <3>6, <3>7
    <3>9. \A cmds \in Lists' : cmds = <<>>
      BY <3>8 DEF Lists
    <3>10. \A cmds \in Lists' : ListOK(cmds, Committed', receipts', issued') /\ DOMAIN cmds = {}
      BY <3>9 DEF ListOK, Chained, Numbered, Answers
    <3>11. /\ \A e \in Devices : app'[e].open =>
                 DeviceOK(app'[e], Committed') /\ Shows(app'[e], Committed')
           /\ \A e \in Devices : journal'[e].exists =>
                 DeviceOK(journal'[e], Committed') /\ Shows(journal'[e], Committed')
      BY <3>5, <3>6, <3>7, <3>4 DEF DeviceOK, Shows
    <3>12. /\ issued' \in Nat /\ Known(receipts', issued') /\ Latest(capture', receipts')
           /\ TxnOK'
      BY <2>1, <3>1 DEF Informed, Known, Latest, TxnOK
    <3>13. QED
      BY <3>10, <3>11, <3>12 DEF Informed
  <2>4. QED
    BY <2>2, <2>3
<1>4. QED
  BY <1>1, <1>2, <1>3

(* Editing, sending and reading again. *)
LEMMA PageStaysInformed ==
    ASSUME NothingLost, LedgersKept, Informed, NothingLost', LedgersKept', NEW d \in Devices,
           \/ \E p \in Payloads : EditDraft(d, p)
           \/ SendBatch(d) \/ GiveUp(d) \/ RefreshStatus(d) \/ DiscardLocal(d)
    PROVE  Informed'
<1> DEFINE a == app[d]
<1>1. a.open /\ Page(a) /\ a.pending \in Lists /\ DeviceOK(a, Committed)
      /\ (~a.conflict => Shows(a, Committed))
  <2>1. a.open
    BY DEF EditDraft, Usable, SendBatch, GiveUp, RefreshStatus, DiscardLocal, Idle, NothingLost,
       Shape, Page
  <2>2. QED
    BY <2>1 DEF NothingLost, Shape, Closed, Lists, Informed
<1>2. \A m \in net : m.cmds \in Lists
  BY DEF Lists
<1>3. Committed = capture \/ txn.running
  BY DEF Committed
<1>4. UNCHANGED <<capture, receipts, txn, issued>>
  BY DEF EditDraft, SendBatch, GiveUp, RefreshStatus, DiscardLocal, serverVars, deviceVars
<1>5. /\ capture.revision \in Nat
      /\ View(Response(capture, match))
      /\ Response(capture, match).revision = capture.revision
      /\ Response(capture, match).payload = capture.payload
  BY Revisions, ResponseShows
<1>6. app = [app EXCEPT ![d] = a]
  BY DEF NothingLost, Shape
<1>7. ASSUME NEW p \in Payloads, EditDraft(d, p)
      PROVE  Informed'
  <2> DEFINE b == [a EXCEPT !.draft = p, !.dirty = TRUE]
  <2>1. /\ app' = [app EXCEPT ![d] = b] /\ ~a.conflict /\ net' = net
        /\ Saved(d, b) \/ UNCHANGED journal
    BY <1>7 DEF EditDraft, Show, Persist, Usable
  <2>2. b.open /\ b.pending = a.pending /\ b.view = a.view
    BY <1>1 DEF Page
  <2> HIDE DEF b
  <2>3. DeviceOK(b, Committed) /\ Shows(b, Committed)
    BY <1>1, <2>1, <2>2 DEF DeviceOK, Shows
  <2>4. QED
    BY <1>1, <1>2, <1>4, <2>1, <2>2, <2>3, PageKeepsInformed
<1>8. CASE SendBatch(d)
  <2>1. /\ app' = [app EXCEPT ![d] = a] /\ ~a.conflict /\ Saved(d, a)
        /\ \A m \in net' : m \in net \/ m.cmds = a.pending
    BY <1>6, <1>8 DEF SendBatch
  <2>2. QED
    BY <1>1, <1>2, <1>4, <2>1, PageKeepsInformed
<1>9. ASSUME app' = app, journal' = journal, net' = net PROVE Informed'
  BY <1>4, <1>9 DEF Informed, Lists, Committed, TxnOK, Receipted
<1>10. CASE GiveUp(d)
  BY <1>9, <1>10 DEF GiveUp, deviceVars
<1>11. CASE RefreshStatus(d)
  <2> DEFINE b == [a EXCEPT !.conflict = TRUE]
             c == [a EXCEPT !.view = Response(capture, match),
                            !.draft = Response(capture, match).payload]
  <2>1. /\ net' = net /\ a.pending = <<>> /\ Committed = capture
        /\ \/ app' = [app EXCEPT ![d] = b] /\ UNCHANGED journal
           \/ app' = [app EXCEPT ![d] = c] /\ (Saved(d, c) \/ UNCHANGED journal)
    BY <1>11 DEF RefreshStatus, Show, Persist, Idle, Committed
  <2>2. b.open /\ b.pending = a.pending /\ b.view = a.view /\ b.conflict
    BY <1>1 DEF Page
  <2>3. c.open /\ c.pending = <<>> /\ c.view = Response(capture, match)
    BY <1>1, <2>1 DEF Page
  <2> HIDE DEF b, c
  <2>4. DeviceOK(c, Committed) /\ Shows(c, Committed)
    BY <1>5, <2>1, <2>3 DEF DeviceOK, Shows
  <2>5. DeviceOK(b, Committed)
    BY <1>1, <2>2 DEF DeviceOK
  <2>6. CASE app' = [app EXCEPT ![d] = c] /\ (Saved(d, c) \/ UNCHANGED journal)
    BY <1>2, <1>4, <2>1, <2>3, <2>4, <2>6, PageKeepsInformed
  <2>7. CASE app' = [app EXCEPT ![d] = b] /\ UNCHANGED journal
    <3>1. /\ \A e \in Devices : app'[e] = IF e = d THEN b ELSE app[e]
          /\ Committed' = Committed
      BY <1>4, <2>7 DEF NothingLost, Shape, Committed
    <3>2. Lists' \subseteq Lists \cup {<<>>}
      BY <1>1, <1>4, <2>1, <2>2, <2>7, <3>1 DEF Lists
    <3>3. Later(Committed, Committed') /\ TxnOK'
      BY <1>4, <3>1, Revisions DEF Later, Informed, TxnOK, Receipted
    <3>4. \A e \in Devices : app'[e].open =>
             \/ app[e].open /\ app'[e] = app[e]
             \/ /\ DeviceOK(app'[e], Committed')
                /\ ~app'[e].conflict => Shows(app'[e], Committed')
      BY <2>2, <2>5, <3>1
    <3>5. /\ \A cmds \in Lists : Answers(receipts', cmds)
          /\ Known(receipts', issued) /\ Latest(capture', receipts')
      BY <1>4 DEF Informed, ListOK
    <3>6. QED
      BY <1>4, <2>7, <3>2, <3>3, <3>4, <3>5, KeepInformed
  <2>8. QED
    BY <2>1, <2>6, <2>7
<1>12. CASE DiscardLocal(d)
  <2> DEFINE now == Response(capture, match)
             b == [open |-> TRUE, view |-> now, draft |-> now.payload, pending |-> <<>>,
                   dirty |-> FALSE, conflict |-> now.drifted]
  <2>1. /\ app' = [app EXCEPT ![d] = b] /\ net' = net /\ Committed = capture
        /\ Saved(d, b) \/ UNCHANGED journal
    BY <1>12 DEF DiscardLocal, Show, Persist, Idle, Committed
  <2>2. b.open /\ b.pending = <<>> /\ b.view = now
    OBVIOUS
  <2> HIDE DEF b
  <2>3. DeviceOK(b, Committed) /\ Shows(b, Committed)
    BY <1>5, <2>1, <2>2 DEF DeviceOK, Shows
  <2>4. QED
    BY <1>2, <1>4, <2>1, <2>2, <2>3, PageKeepsInformed
<1>13. QED
  BY <1>7, <1>8, <1>10, <1>11, <1>12

(* One more element. *)
LEMMA AppendFacts ==
    ASSUME NEW r, Listed(r), NEW x
    PROVE  /\ Len(r) \in Nat /\ DOMAIN r = 1..Len(r)
           /\ DOMAIN Append(r, x) = 1..(Len(r) + 1) /\ Len(Append(r, x)) = Len(r) + 1
           /\ \A i \in 1..Len(r) : Append(r, x)[i] = r[i]
           /\ Append(r, x)[Len(r) + 1] = x /\ Append(r, x) # <<>>
<1> DEFINE S == {r[i] : i \in DOMAIN r}
<1>1. r \in Seq(S) /\ Len(r) \in Nat /\ DOMAIN r = 1..Len(r)
  BY ListFacts DEF Listed
<1> HIDE DEF S
<1>2. QED
  BY <1>1

(* A confirmed command names the revision that the page shows, or that the    *)
(* command before it leaves, and its number is new.                         *)
LEMMA QueueStaysInformed ==
    ASSUME NothingLost, LedgersKept, Informed, NothingLost', LedgersKept', NEW d \in Devices,
           \E op \in {"save", "undo", "submit"} : QueueCommand(d, op)
    PROVE  Informed'
<1> DEFINE a == app[d]
           x == a.pending
           n == Len(x)
<1>1. PICK op \in {"save", "undo", "submit"} : QueueCommand(d, op)
  OBVIOUS
<1> DEFINE c == [key |-> <<"command", issued + 1>>, op |-> op, payload |-> a.draft,
                 revision |-> a.view.revision + n, signature |-> a.view.signature,
                 seen |-> Seen(a)]
           y == Append(x, c)
           b == [a EXCEPT !.pending = y, !.dirty = FALSE]
<1>2. /\ a.open /\ ~a.conflict /\ issued' = issued + 1
      /\ app' = [app EXCEPT ![d] = b] /\ (Saved(d, b) \/ UNCHANGED journal)
      /\ UNCHANGED <<capture, receipts, txn, net>>
  BY <1>1 DEF QueueCommand, Usable, Show, Persist, serverVars
<1>3. /\ Page(a) /\ x \in Lists /\ DeviceOK(a, Committed) /\ Shows(a, Committed)
      /\ ListOK(x, Committed, receipts, issued) /\ issued \in Nat /\ Listed(x)
  <2>1. Page(a) /\ x \in Lists
    BY <1>2 DEF NothingLost, Shape, Closed, Lists
  <2>2. QED
    BY <1>2, <2>1, Revisions DEF Informed, Queue
<1>4. /\ n \in Nat /\ DOMAIN x = 1..n /\ Listed(y)
      /\ DOMAIN y = 1..(n + 1) /\ Len(y) = n + 1
      /\ \A i \in 1..n : y[i] = x[i]
      /\ y[n + 1] = c
  <2> HIDE DEF c
  <2>1. Listed(y)
    BY <1>3, ListFacts
  <2>2. QED
    BY <1>3, <2>1, AppendFacts
<1>5. /\ c.key[1] = "command" /\ c.key[2] = issued + 1
      /\ c.revision = a.view.revision + n /\ a.view.revision \in Nat
      /\ x = <<>> => c.seen = a.view.payload
      /\ x # <<>> => c.seen = After(x[n])
  BY <1>3 DEF Seen, After, DeviceOK, View
<1>6. b.open /\ b.pending = y /\ b.view = a.view
  BY <1>3 DEF Page
<1>7. /\ \A i \in 1..n : x[i].revision = a.view.revision + i - 1
      /\ x = <<>> /\ a.view.revision = Committed.revision => a.view.payload = Committed.payload
      /\ a.view.revision <= Committed.revision /\ View(a.view)
      /\ n > 0 => x # <<>>
  <2>1. n > 0 => x # <<>>
    OBVIOUS
  <2>2. \A i \in DOMAIN x : x[i].revision = a.view.revision + i - 1
    BY <1>3 DEF DeviceOK
  <2>3. /\ x = <<>> /\ a.view.revision = Committed.revision => a.view.payload = Committed.payload
        /\ a.view.revision <= Committed.revision /\ View(a.view)
    BY <1>3 DEF DeviceOK, Shows
  <2> HIDE DEF a, x, n
  <2>4. QED
    BY <1>4, <2>1, <2>2, <2>3
<1> HIDE DEF b, y, c, n, x, a
<1>8. Chained(y)
  <2>1. ASSUME NEW i \in DOMAIN y, NEW j \in DOMAIN y, j = i + 1
        PROVE  y[j].revision = y[i].revision + 1 /\ y[j].seen = After(y[i])
    <3>1. CASE j = n + 1
      <4>1. i = n /\ n \in 1..n /\ n > 0
        BY <1>4, <2>1, <3>1
      <4>2. y[i] = x[n] /\ y[j] = c /\ x # <<>>
        BY <1>4, <1>7, <3>1, <4>1
      <4>3. x[n].revision = a.view.revision + n - 1
        BY <1>7, <4>1
      <4>4. QED
        BY <1>4, <1>5, <4>2, <4>3
    <3>2. CASE j # n + 1
      BY <1>3, <1>4, <2>1, <3>2 DEF ListOK, Chained
    <3>3. QED
      BY <3>1, <3>2
  <2>2. \A i \in DOMAIN y : y[i].revision \in Nat
    BY <1>3, <1>4, <1>5 DEF ListOK, Chained
  <2>3. QED
    BY <2>1, <2>2 DEF Chained
<1>9. Numbered(y, issued')
  BY <1>2, <1>3, <1>4, <1>5 DEF ListOK, Numbered
<1>10. Answers(receipts, y)
  <2>1. \A j \in DOMAIN receipts : receipts[j].key # c.key
    BY <1>3, <1>5 DEF Informed, Known
  <2>2. QED
    BY <1>3, <1>4, <2>1 DEF ListOK, Answers
<1>11. Saw(y[1], Committed)
  <2>1. CASE n = 0
    <3>1. x = <<>> /\ y[1] = c
      BY <1>3, <1>4, <2>1 DEF Listed
    <3>2. QED
      BY <1>5, <1>7, <2>1, <3>1 DEF Saw
  <2>2. CASE n > 0
    BY <1>3, <1>4, <2>2 DEF ListOK
  <2>3. QED
    BY <1>4, <2>1, <2>2
<1>12. Committed' = Committed
  BY <1>2 DEF Committed
<1>13. /\ \A e \in Devices : app'[e] = IF e = d THEN b ELSE app[e]
       /\ \/ journal' = journal
          \/ \A e \in Devices : journal'[e] = IF e = d THEN JournalOf(b) ELSE journal[e]
  BY <1>2 DEF NothingLost, Shape, Saved
<1>14. /\ JournalOf(b).exists /\ JournalOf(b).pending = b.pending
       /\ JournalOf(b).view = b.view
  BY DEF JournalOf
<1>15. Lists' \subseteq Lists \cup {y}
  <2>1. \A e \in Devices : app'[e].open => app'[e].pending \in Lists \cup {y}
    BY <1>6, <1>13 DEF Lists
  <2>2. \A e \in Devices : journal'[e].exists => journal'[e].pending \in Lists \cup {y}
    BY <1>6, <1>13, <1>14 DEF Lists
  <2>3. QED
    BY <1>2, <2>1, <2>2 DEF Lists
<1>16. \A cmds \in Lists' : ListOK(cmds, Committed', receipts', issued')
  <2>1. ListOK(y, Committed, receipts, issued')
    BY <1>8, <1>9, <1>10, <1>11 DEF ListOK
  <2>2. \A cmds \in Lists : ListOK(cmds, Committed, receipts, issued')
    BY <1>2, <1>3 DEF Informed, ListOK, Numbered
  <2>3. QED
    BY <1>2, <1>12, <1>15, <2>1, <2>2
<1>17. \A u, v \in Lists' :
          \A i \in DOMAIN u, j \in DOMAIN v : u[i].key = v[j].key => u[i] = v[j]
  <2>1. \A u \in Lists : \A i \in DOMAIN u : u[i].key # c.key
    BY <1>3, <1>5 DEF Informed, ListOK, Numbered
  <2>2. \A u \in Lists' : \A i \in DOMAIN u : u[i] = c \/ \E z \in Lists : \E j \in DOMAIN z : u[i] = z[j]
    BY <1>3, <1>4, <1>15
  <2>3. QED
    BY <2>1, <2>2 DEF Informed
<1>18. DeviceOK(b, Committed)
  <2>1. \A i \in DOMAIN y : y[i].revision = a.view.revision + i - 1
    BY <1>4, <1>5, <1>7
  <2>2. QED
    BY <1>6, <1>7, <2>1 DEF DeviceOK
<1>19. Shows(b, Committed) /\ Shows(JournalOf(b), Committed) /\ DeviceOK(JournalOf(b), Committed)
  BY <1>4, <1>6, <1>14, <1>18 DEF Shows, DeviceOK
<1>20. \A e \in Devices :
          /\ app'[e].open => /\ DeviceOK(app'[e], Committed')
                             /\ ~app'[e].conflict => Shows(app'[e], Committed')
          /\ journal'[e].exists =>
                DeviceOK(journal'[e], Committed') /\ Shows(journal'[e], Committed')
  BY <1>12, <1>13, <1>18, <1>19 DEF Informed
<1>21. /\ issued' \in Nat /\ Known(receipts', issued') /\ Latest(capture', receipts') /\ TxnOK'
  BY <1>2, <1>3 DEF Informed, Known, Latest, TxnOK, Receipted
<1>22. QED
  BY <1>16, <1>17, <1>20, <1>21 DEF Informed

(* A receipt that answers for no command moves the draft on. *)
LEMMA OtherReceiptFits ==
    ASSUME NothingLost, LedgersKept, Informed, ~txn.running, ~txn'.running,
           NEW x, x.key[1] # "command",
           receipts' = Append(receipts, x), capture'.revision = capture.revision + 1,
           capture'.payload = x.payload
    PROVE  /\ Later(Committed, Committed')
           /\ \A cmds \in Lists : Answers(receipts', cmds)
           /\ Known(receipts', issued) /\ Latest(capture', receipts') /\ TxnOK'
<1>1. /\ capture.revision \in Nat /\ Listed(receipts)
      /\ Committed = capture /\ Committed' = capture'
  BY Revisions DEF Committed
<1>2. /\ DOMAIN receipts = 1..Len(receipts) /\ Len(receipts) \in Nat
      /\ DOMAIN receipts' = 1..(Len(receipts) + 1)
      /\ Len(receipts') = Len(receipts) + 1
      /\ \A i \in 1..Len(receipts) : receipts'[i] = receipts[i]
      /\ receipts'[Len(receipts) + 1] = x
  BY <1>1, AppendFacts
<1>3. Later(Committed, Committed') /\ TxnOK'
  BY <1>1 DEF Later, TxnOK
<1>4. Known(receipts', issued) /\ Latest(capture', receipts')
  BY <1>2 DEF Informed, Known, Latest
<1>5. ASSUME NEW cmds \in Lists
      PROVE  Answers(receipts', cmds)
  <2>1. Answers(receipts, cmds) /\ Numbered(cmds, issued)
    BY DEF Informed, ListOK
  <2>2. QED
    BY <1>2, <2>1 DEF Answers, Numbered
<1>6. QED
  BY <1>3, <1>4, <1>5

(* The operator confirms the draft in a new context. *)
LEMMA ReconcileStaysInformed ==
    ASSUME NothingLost, LedgersKept, Informed, NothingLost', LedgersKept', NEW d \in Devices,
           Reconcile(d)
    PROVE  Informed'
<1> DEFINE a == app[d]
           c == [capture EXCEPT !.signature = Signature, !.revision = @ + 1]
           now == Response(c, match)
           b == [a EXCEPT !.view = now, !.draft = now.payload,
                          !.conflict = FALSE, !.dirty = FALSE]
           x == Receipt(<<"reconcile", c.revision>>, "reconcile", c.payload)
<1>1. /\ a.open /\ a.pending = <<>> /\ ~txn.running
      /\ capture' = c /\ receipts' = Append(receipts, x)
      /\ \/ app' = [app EXCEPT ![d] = b] /\ (Saved(d, b) \/ UNCHANGED journal)
         \/ UNCHANGED <<app, journal>>
      /\ UNCHANGED <<txn, net, issued>>
  BY DEF Reconcile, Idle, Show, Persist
<1>2. Page(a) /\ Draft(capture) /\ capture.revision \in Nat
  BY <1>1, Revisions DEF NothingLost, Shape, Closed, LedgersKept, Ledger
<1>3. /\ c.revision = capture.revision + 1 /\ c.payload = capture.payload /\ c.revision \in Nat
      /\ x.key[1] # "command" /\ x.payload = c.payload
  BY <1>2 DEF Draft, Receipt
<1>4. View(now) /\ now.revision = c.revision /\ now.payload = c.payload
  BY <1>3, ResponseShows
<1>5. b.open /\ b.pending = <<>> /\ b.view = now
  BY <1>1, <1>2 DEF Page
<1> HIDE DEF b, now, c, x
<1>6. Committed' = c
  BY <1>1 DEF Committed
<1>7. DeviceOK(b, Committed') /\ Shows(b, Committed')
  BY <1>3, <1>4, <1>5, <1>6 DEF DeviceOK, Shows
<1>8. /\ JournalOf(b).pending = b.pending /\ JournalOf(b).view = b.view
      /\ DeviceOK(JournalOf(b), Committed') /\ Shows(JournalOf(b), Committed')
  BY <1>7 DEF JournalOf, DeviceOK, Shows
<1>9. /\ \A e \in Devices : app'[e] = app[e] \/ (e = d /\ app'[e] = b)
      /\ \A e \in Devices : journal'[e] = journal[e] \/ (e = d /\ journal'[e] = JournalOf(b))
  BY <1>1 DEF NothingLost, Shape, Saved
<1>10. Lists' \subseteq Lists \cup {<<>>}
  <2>1. \A e \in Devices : app'[e].open => app'[e].pending \in Lists \cup {<<>>}
    BY <1>5, <1>9 DEF Lists
  <2>2. \A e \in Devices : journal'[e].exists => journal'[e].pending \in Lists \cup {<<>>}
    BY <1>5, <1>8, <1>9 DEF Lists
  <2>3. QED
    BY <1>1, <2>1, <2>2 DEF Lists
<1>11. /\ Later(Committed, Committed')
       /\ \A cmds \in Lists : Answers(receipts', cmds)
       /\ Known(receipts', issued) /\ Latest(capture', receipts') /\ TxnOK'
  BY <1>1, <1>3, OtherReceiptFits
<1>12. QED
  BY <1>1, <1>7, <1>8, <1>9, <1>10, <1>11, KeepInformed

(* The coordinator's and the office's steps touch no page and no command.     *)
LEMMA OfficeStaysInformed ==
    ASSUME NothingLost, LedgersKept, Informed, NothingLost', LedgersKept', OfficeStep
    PROVE  Informed'
<1>1. UNCHANGED <<app, journal, net, txn, issued>>
  BY DEF OfficeStep, Decide, ResolveIncident, ChangeContext, CloseSession, OfficeResult,
         SetAccess, deviceVars
<1>2. Lists' = Lists
  BY <1>1 DEF Lists
<1>3. CASE UNCHANGED <<capture, receipts>>
  BY <1>1, <1>2, <1>3 DEF Informed, Committed, TxnOK, Receipted
<1>4. ASSUME NEW outcome, Decide(outcome)
      PROVE  Informed'
  <2> DEFINE payload == [capture.payload EXCEPT !.outcome = outcome]
             c == [capture EXCEPT !.payload = payload, !.previous = capture.payload,
                                  !.revision = @ + 1, !.review = FALSE,
                                  !.closed = outcome = "abandoned", !.undo = FALSE]
             x == Receipt(<<"decision", c.revision>>, "decision", payload)
  <2>1. capture' = c /\ receipts' = Append(receipts, x) /\ ~txn.running
    BY <1>4 DEF Decide
  <2>2. Draft(capture)
    BY DEF LedgersKept, Ledger
  <2> HIDE DEF payload
  <2>3. c.revision = capture.revision + 1 /\ c.payload = payload
    BY <2>2 DEF Draft
  <2>4. x.key[1] # "command" /\ x.payload = c.payload
    BY <2>3 DEF Receipt
  <2> HIDE DEF c, x
  <2>5. /\ Later(Committed, Committed')
        /\ \A cmds \in Lists : Answers(receipts', cmds)
        /\ Known(receipts', issued) /\ Latest(capture', receipts') /\ TxnOK'
    BY <1>1, <2>1, <2>3, <2>4, OtherReceiptFits
  <2>6. QED
    BY <1>1, <1>2, <2>5, KeepInformed
<1>5. QED
  BY <1>3, <1>4 DEF OfficeStep, ResolveIncident, ChangeContext, CloseSession, OfficeResult,
                    SetAccess, serverVars

-----------------------------------------------------------------------------
(* A batch at the server. *)
LEMMA BeginStaysInformed ==
    ASSUME NothingLost, LedgersKept, Informed, NothingLost', LedgersKept', NEW m \in net,
           BeginBatch(m)
    PROVE  Informed'
<1>1. /\ ~txn.running /\ UNCHANGED <<app, journal, capture, receipts, issued>>
      /\ net' = net \ {m}
      /\ txn' = [running |-> TRUE, batch |-> m, left |-> m.cmds,
                 capture |-> capture, receipts |-> receipts, match |-> match,
                 incident |-> incident]
  BY DEF BeginBatch, serverVars, deviceVars
<1>2. /\ txn'.running /\ txn'.batch = m /\ txn'.left = m.cmds
      /\ txn'.capture = capture /\ txn'.receipts = receipts
  BY <1>1
<1>3. Committed = capture /\ Committed' = Committed /\ capture.revision \in Nat
  BY <1>1, <1>2, Revisions DEF Committed
<1>4. Lists' \subseteq Lists
  BY <1>1, <1>2 DEF Lists
<1>5. m.cmds \in Lists /\ Len(m.cmds) \in Nat
  <2>1. m.cmds \in Lists
    BY DEF Lists
  <2>2. QED
    BY <2>1, Revisions, ListFacts DEF Queue
<1>6. TxnOK'
  <2> DEFINE cmds == m.cmds
  <2>1. /\ 0 \in 0..Len(cmds) /\ Len(cmds) = Len(cmds) - 0
        /\ \A i \in 1..Len(cmds) : cmds[i] = cmds[0 + i]
        /\ \A i \in 1..0 : cmds[i].key \in Receipted'
    BY <1>5
  <2>2. Later(capture, capture) /\ Latest(capture, receipts)
    BY <1>3 DEF Later, Informed
  <2>3. QED
    BY <1>1, <1>2, <2>1, <2>2 DEF TxnOK, Behind
<1>7. Later(Committed, Committed')
  BY <1>3 DEF Later
<1>8. QED
  BY <1>1, <1>4, <1>6, <1>7, KeepInformed DEF Informed, ListOK

(* A refused batch changes a page only to show the conflict. *)
LEMMA RefusedPages ==
    ASSUME Shape, NEW m, m.dev \in Devices, Refused(m)
    PROVE  \A e \in Devices : app'[e].open =>
              \/ app[e].open /\ app'[e] = app[e]
              \/ /\ app[e].open /\ app'[e].view = app[e].view
                 /\ app'[e].pending = app[e].pending /\ app'[e].conflict
<1> DEFINE b == [app[m.dev] EXCEPT !.conflict = TRUE]
<1>1. CASE ~Answered(m)
  BY <1>1 DEF Refused
<1>2. CASE Answered(m)
  <2>1. app' = [app EXCEPT ![m.dev] = b] /\ Page(app[m.dev])
    BY <1>2 DEF Refused, Answered, Shape
  <2>2. app[m.dev].open /\ b.view = app[m.dev].view /\ b.pending = app[m.dev].pending /\ b.conflict
    BY <2>1 DEF Page
  <2> HIDE DEF b
  <2>3. \A e \in Devices : app'[e] = IF e = m.dev THEN b ELSE app[e]
    BY <2>1 DEF Shape
  <2>4. QED
    BY <2>2, <2>3
<1>3. QED
  BY <1>1, <1>2

(* A refused batch, at once or in the middle. *)
LEMMA RefusalStaysInformed ==
    ASSUME NothingLost, LedgersKept, Informed, NothingLost', LedgersKept',
           \/ \E m \in net : DenyBatch(m)
           \/ RefuseBatch
    PROVE  Informed'
<1>1. PICK m : m.dev \in Devices /\ m.cmds \in Lists /\ Refused(m)
  <2>1. CASE \E m \in net : DenyBatch(m)
    BY <2>1 DEF DenyBatch, NothingLost, Shape, Batch, Lists
  <2>2. CASE RefuseBatch
    <3>1. txn.running /\ Running(txn) /\ Refused(txn.batch)
      BY <2>2 DEF RefuseBatch, AtCommand, NothingLost, Shape, NoTxn
    <3>2. QED
      BY <3>1 DEF Running, Batch, Lists
  <2>3. QED
    BY <2>1, <2>2
<1>2. /\ journal' = journal /\ issued' = issued /\ net' \subseteq net
      /\ \/ UNCHANGED <<capture, receipts, txn>>
         \/ txn.running /\ capture' = txn.capture /\ receipts' = txn.receipts /\ txn' = NoTxn
  BY DEF DenyBatch, RefuseBatch, AtCommand, serverVars
<1>3. \A e \in Devices : app'[e].open =>
         \/ app[e].open /\ app'[e] = app[e]
         \/ /\ app[e].open /\ app'[e].view = app[e].view
            /\ app'[e].pending = app[e].pending /\ app'[e].conflict
  BY <1>1, RefusedPages DEF NothingLost
<1>4. Committed' = Committed /\ Later(Committed, Committed')
  BY <1>2, Revisions DEF Committed, NoTxn, Later
<1>5. Lists' \subseteq Lists \cup {<<>>}
  <2>1. \A e \in Devices : app'[e].open => app'[e].pending \in Lists
    BY <1>3 DEF Lists
  <2>2. QED
    BY <1>2, <2>1 DEF Lists, NoTxn
<1>6. \A e \in Devices : app'[e].open =>
         \/ app[e].open /\ app'[e] = app[e]
         \/ /\ DeviceOK(app'[e], Committed')
            /\ ~app'[e].conflict => Shows(app'[e], Committed')
  BY <1>3, <1>4 DEF Informed, DeviceOK
<1>7. /\ \A cmds \in Lists : Answers(receipts', cmds)
      /\ Known(receipts', issued) /\ Latest(capture', receipts') /\ TxnOK'
  <2>1. CASE UNCHANGED <<capture, receipts, txn>>
    BY <2>1 DEF Informed, ListOK, TxnOK, Receipted
  <2>2. CASE txn.running /\ capture' = txn.capture /\ receipts' = txn.receipts /\ txn' = NoTxn
    <3>1. /\ Latest(txn.capture, txn.receipts)
          /\ \A j \in DOMAIN txn.receipts :
                j \in DOMAIN receipts /\ receipts[j] = txn.receipts[j]
      BY <2>2 DEF Informed, TxnOK
    <3>2. \A cmds \in Lists : Answers(txn.receipts, cmds)
      BY <3>1 DEF Informed, ListOK, Answers
    <3>3. Known(txn.receipts, issued)
      BY <3>1 DEF Informed, Known
    <3>4. QED
      BY <2>2, <3>1, <3>2, <3>3 DEF TxnOK, NoTxn
  <2>3. QED
    BY <1>2, <2>1, <2>2
<1>8. QED
  BY <1>2, <1>4, <1>5, <1>6, <1>7, KeepInformed

(* A batch goes on once the command at its head has a receipt. *)
LEMMA BehindNext ==
    ASSUME NEW cmds, NEW left, NEW r, NEW s, Listed(cmds), Listed(left),
           Behind(cmds, left, r), left # <<>>, r \subseteq s, Head(left).key \in s
    PROVE  Behind(cmds, Tail(left), s) /\ \E i \in DOMAIN cmds : Head(left) = cmds[i]
<1> DEFINE S == {left[i] : i \in DOMAIN left}
           rest == Tail(left)
<1>1. PICK k \in 0..Len(cmds) :
        /\ Len(left) = Len(cmds) - k
        /\ \A i \in 1..Len(left) : left[i] = cmds[k + i]
        /\ \A i \in 1..k : cmds[i].key \in r
  BY DEF Behind
<1>2. left \in Seq(S) /\ Len(cmds) \in Nat /\ DOMAIN cmds = 1..Len(cmds) /\ Len(left) \in Nat
  BY ListFacts DEF Listed
<1> HIDE DEF S
<1>3. /\ Len(left) > 0 /\ Head(left) = left[1] /\ Len(rest) = Len(left) - 1
      /\ \A i \in 1..Len(rest) : rest[i] = left[i + 1]
  BY <1>2
<1> HIDE DEF rest
<1>4. Head(left) = cmds[k + 1] /\ k + 1 \in 1..Len(cmds)
  BY <1>1, <1>2, <1>3
<1>5. /\ Len(rest) = Len(cmds) - (k + 1)
      /\ \A i \in 1..(k + 1) : cmds[i].key \in s
  BY <1>1, <1>2, <1>3, <1>4
<1>6. ASSUME NEW i \in 1..Len(rest)
      PROVE  rest[i] = cmds[(k + 1) + i]
  <2>1. i + 1 \in 1..Len(left) /\ k + (i + 1) = (k + 1) + i
    BY <1>1, <1>2, <1>3
  <2>2. QED
    BY <1>1, <1>3, <2>1
<1>7. Behind(cmds, rest, s)
  <2>1. k + 1 \in 0..Len(cmds)
    BY <1>4
  <2>2. QED
    BY <1>5, <1>6, <2>1 DEF Behind
<1>8. QED
  BY <1>2, <1>4, <1>7 DEF rest

(* Applying or replaying the command at the head of a batch. *)
LEMMA CommandStaysInformed ==
    ASSUME NothingLost, LedgersKept, Informed, NothingLost', LedgersKept',
           ReplayCommand \/ ApplyCommand
    PROVE  Informed'
<1> DEFINE cmds == txn.batch.cmds
<1>1. /\ txn.running /\ txn.left # <<>>
      /\ txn' = [txn EXCEPT !.left = Tail(@)]
      /\ UNCHANGED <<app, journal, net, issued>>
  BY DEF ReplayCommand, ApplyCommand, AtCommand, deviceVars
<1>2. Running(txn)
  BY <1>1 DEF NothingLost, Shape, NoTxn
<1>3. /\ txn'.running /\ txn'.batch = txn.batch /\ txn'.left = Tail(txn.left)
      /\ txn'.capture = txn.capture /\ txn'.receipts = txn.receipts
  BY <1>1, <1>2 DEF Running
<1>4. cmds \in Lists /\ Listed(cmds) /\ Listed(txn.left)
  BY <1>1, <1>2 DEF Lists, Running, Batch, Queue
<1>5. Committed = txn.capture /\ Committed' = Committed
  BY <1>1, <1>3 DEF Committed
<1>6. /\ Later(txn.capture, capture) /\ Latest(txn.capture, txn.receipts)
      /\ \A j \in DOMAIN txn.receipts :
            j \in DOMAIN receipts /\ receipts[j] = txn.receipts[j]
      /\ Behind(cmds, txn.left, Receipted)
  BY <1>1 DEF Informed, TxnOK
<1>7. Later(Committed, Committed')
  BY <1>5, <1>6 DEF Later
<1>8. Lists' = Lists
  BY <1>1, <1>3 DEF Lists
<1>9. CASE ReplayCommand
  <2>1. UNCHANGED <<capture, receipts>> /\ Head(txn.left).key \in Receipted
    BY <1>9 DEF ReplayCommand, serverVars, Current
  <2>2. Behind(cmds, Tail(txn.left), Receipted)
    BY <1>1, <1>4, <1>6, <2>1, BehindNext
  <2>3. TxnOK'
    BY <1>3, <1>6, <2>1, <2>2 DEF TxnOK, Receipted
  <2>4. QED
    BY <1>1, <1>7, <1>8, <2>1, <2>3, KeepInformed DEF Informed, ListOK
<1>10. CASE ApplyCommand
  <2> DEFINE c == Current
             payload == NewPayload(c)
             x == Receipt(c.key, c.op, payload)
  <2>1. /\ receipts' = Append(receipts, x) /\ c.key \notin Receipted
        /\ c.revision = capture.revision
        /\ capture' = [capture EXCEPT
                          !.payload = payload, !.previous = capture.payload,
                          !.undo = c.op = "save",
                          !.revision = @ + 1, !.signature = match',
                          !.review = ReviewAfter(payload),
                          !.submitted = c.op = "submit"]
    BY <1>10 DEF ApplyCommand, Acceptable, Fresh
  <2>2. /\ Draft(capture) /\ capture.revision \in Nat /\ capture.revision = Len(receipts)
        /\ Listed(receipts)
    BY Revisions DEF LedgersKept, Ledger
  <2> HIDE DEF payload
  <2>3. capture'.revision = capture.revision + 1 /\ capture'.payload = payload
    BY <2>1, <2>2 DEF Draft
  <2>4. x.key = c.key /\ x.payload = payload /\ (c.op # "undo" => payload = c.payload)
    BY DEF Receipt, payload, NewPayload
  <2>5. c = Head(txn.left)
    BY DEF Current
  <2> HIDE DEF x, c
  <2>6. /\ DOMAIN receipts = 1..Len(receipts) /\ Len(receipts) \in Nat
        /\ DOMAIN receipts' = 1..(Len(receipts) + 1)
        /\ Len(receipts') = Len(receipts) + 1
        /\ \A i \in 1..Len(receipts) : receipts'[i] = receipts[i]
        /\ receipts'[Len(receipts) + 1] = x
    BY <2>1, <2>2, AppendFacts
  <2>7. Receipted \subseteq Receipted' /\ c.key \in Receipted'
    BY <2>4, <2>6 DEF Receipted, KeysOf
  <2>8. Behind(cmds, Tail(txn.left), Receipted') /\ \E i \in DOMAIN cmds : c = cmds[i]
    BY <1>1, <1>4, <1>6, <2>5, <2>7, BehindNext
  <2>9. Latest(capture', receipts') /\ Later(txn.capture, capture')
    BY <1>6, <2>2, <2>3, <2>4, <2>6 DEF Latest, Later
  <2>10. \A j \in DOMAIN txn.receipts :
            j \in DOMAIN receipts' /\ receipts'[j] = txn.receipts[j]
    BY <1>6, <2>6
  <2>11. TxnOK'
    BY <1>3, <1>6, <2>8, <2>9, <2>10 DEF TxnOK
  <2>12. Known(receipts', issued)
    <3>1. Known(receipts, issued) /\ Numbered(cmds, issued)
      BY <1>4 DEF Informed, ListOK
    <3>2. QED
      BY <2>4, <2>6, <2>8, <3>1 DEF Known, Numbered
  <2>13. ASSUME NEW y \in Lists
         PROVE  Answers(receipts', y)
    <3>1. Answers(receipts, y)
      BY DEF Informed, ListOK
    <3>2. ASSUME NEW i \in DOMAIN y, y[i].key = x.key
          PROVE  y[i] = c
      BY <1>4, <2>4, <2>8, <3>2 DEF Informed
    <3>3. ASSUME NEW i \in DOMAIN y, NEW j \in DOMAIN receipts', receipts'[j].key = y[i].key
          PROVE  /\ j = y[i].revision + 1
                 /\ y[i].op # "undo" => receipts'[j].payload = y[i].payload
      <4>1. CASE j = Len(receipts) + 1
        BY <2>1, <2>2, <2>4, <2>6, <3>2, <3>3, <4>1
      <4>2. CASE j # Len(receipts) + 1
        BY <2>6, <3>1, <3>3, <4>2 DEF Answers
      <4>3. QED
        BY <4>1, <4>2
    <3>4. QED
      BY <3>3 DEF Answers
  <2>14. QED
    BY <1>1, <1>7, <1>8, <2>9, <2>11, <2>12, <2>13, KeepInformed
<1>11. QED
  BY <1>9, <1>10

(* What a batch did becomes the draft, and its device shows it. *)
LEMMA CommitStaysInformed ==
    ASSUME NothingLost, LedgersKept, Informed, NothingLost', LedgersKept', CommitBatch
    PROVE  Informed'
<1> DEFINE m == txn.batch
           d == m.dev
           a == app[d]
           now == Response(capture, match)
<1>1. /\ txn.running /\ txn' = NoTxn /\ UNCHANGED <<capture, receipts, net, issued>>
  BY DEF CommitBatch, serverVars
<1>2. Running(txn) /\ d \in Devices
  <2>1. txn # NoTxn
    BY <1>1 DEF NoTxn
  <2>2. Running(txn)
    BY <2>1 DEF NothingLost, Shape
  <2>3. QED
    BY <2>2 DEF Running, Batch
<1>3. Committed' = capture /\ Committed = txn.capture
  BY <1>1 DEF Committed, NoTxn
<1>4. Later(Committed, Committed')
  BY <1>1, <1>3 DEF Informed, TxnOK
<1>5. /\ View(now) /\ now.revision = capture.revision /\ now.payload = capture.payload
      /\ capture.revision \in Nat
  BY Revisions, ResponseShows
<1>6. /\ \A y \in Lists : Answers(receipts', y)
      /\ Known(receipts', issued) /\ Latest(capture', receipts') /\ TxnOK'
  BY <1>1 DEF Informed, ListOK, TxnOK, NoTxn
<1>7. CASE ~Answered(m)
  <2>1. UNCHANGED <<app, journal>>
    BY <1>7 DEF CommitBatch
  <2>2. Lists' \subseteq Lists \cup {<<>>}
    BY <1>1, <2>1 DEF Lists, NoTxn
  <2>3. QED
    BY <1>1, <1>4, <1>6, <2>1, <2>2, KeepInformed
<1>8. CASE Answered(m)
  <2>1. PICK b : /\ app' = [app EXCEPT ![d] = b] /\ (Saved(d, b) \/ UNCHANGED journal)
                 /\ b.view = now /\ b.pending = <<>>
    <3>1. Page(a)
      BY <1>8 DEF Answered, NothingLost, Shape
    <3> DEFINE w == IF a.dirty THEN a.draft ELSE now.payload
               f == /\ a.dirty
                    /\ \/ now.signature # a.view.signature
                       \/ now.revision # m.cmds[Len(m.cmds)].revision + 1
               b == [a EXCEPT !.view = now, !.pending = <<>>, !.draft = w, !.conflict = f]
    <3>2. app' = [app EXCEPT ![d] = b] /\ (Saved(d, b) \/ UNCHANGED journal)
      BY <1>8 DEF CommitBatch, Show, Persist
    <3> HIDE DEF now, w, f
    <3>3. b.view = now /\ b.pending = <<>>
      BY <3>1 DEF Page
    <3>4. QED
      BY <3>2, <3>3
  <2> HIDE DEF now, d, m
  <2>2. DeviceOK(b, Committed') /\ Shows(b, Committed')
    BY <1>3, <1>5, <2>1 DEF DeviceOK, Shows
  <2>3. /\ JournalOf(b).pending = <<>>
        /\ DeviceOK(JournalOf(b), Committed') /\ Shows(JournalOf(b), Committed')
    BY <2>1, <2>2 DEF JournalOf, DeviceOK, Shows
  <2>4. /\ \A e \in Devices : app'[e] = app[e] \/ app'[e] = b
        /\ \A e \in Devices : journal'[e] = journal[e] \/ journal'[e] = JournalOf(b)
    BY <1>2, <2>1 DEF NothingLost, Shape, Saved
  <2>5. Lists' \subseteq Lists \cup {<<>>}
    <3>1. \A e \in Devices : app'[e].open => app'[e].pending \in Lists \cup {<<>>}
      BY <2>1, <2>4 DEF Lists
    <3>2. \A e \in Devices : journal'[e].exists => journal'[e].pending \in Lists \cup {<<>>}
      BY <2>3, <2>4 DEF Lists
    <3>3. QED
      BY <1>1, <3>1, <3>2 DEF Lists, NoTxn
  <2>6. /\ \A e \in Devices : app'[e].open =>
              \/ app[e].open /\ app'[e] = app[e]
              \/ DeviceOK(app'[e], Committed') /\ Shows(app'[e], Committed')
        /\ \A e \in Devices : journal'[e].exists =>
              \/ journal[e].exists /\ journal'[e] = journal[e]
              \/ DeviceOK(journal'[e], Committed') /\ Shows(journal'[e], Committed')
    BY <2>2, <2>3, <2>4
  <2>7. QED
    BY <1>1, <1>4, <1>6, <2>5, <2>6, KeepInformed
<1>9. QED
  BY <1>7, <1>8

(* Every step keeps what is known. *)
LEMMA NextStaysInformed ==
    ASSUME NothingLost, LedgersKept, Informed, NothingLost', LedgersKept', [Next]_vars
    PROVE  Informed'
<1>1. ASSUME NEW d \in Devices, PageStep(d) \/ SendBatch(d) \/ GiveUp(d)
      PROVE  Informed'
  BY <1>1, OpenStaysInformed, PageStaysInformed, QueueStaysInformed, ReconcileStaysInformed
  DEF PageStep
<1>2. CASE BatchStep
  BY <1>2, BeginStaysInformed, RefusalStaysInformed, CommandStaysInformed, CommitStaysInformed
  DEF BatchStep
<1>3. CASE UNCHANGED vars
  BY <1>3 DEF vars, serverVars, officeVars, deviceVars, Informed, Lists, Committed, TxnOK,
     Receipted
<1>4. QED
  BY <1>1, <1>2, <1>3, OfficeStaysInformed DEF Next

(* No silent overwriting: whatever batch arrives, from whatever device and   *)
(* however late, a command of it that the server accepts replaces the very   *)
(* draft its operator saw.                                                  *)
THEOREM ChangesAlwaysInformed == Spec => []InformedChange
<1>1. Init => Informed
  <2> SUFFICES ASSUME Init PROVE Informed
    OBVIOUS
  <2>1. /\ issued = 0 /\ receipts = <<>> /\ net = {} /\ ~txn.running
        /\ \A d \in Devices : ~app[d].open /\ ~journal[d].exists
    BY DEF Init, Closed, NoJournal, NoTxn
  <2>2. Lists = {} /\ DOMAIN receipts = {}
    BY <2>1 DEF Lists
  <2>3. QED
    BY <2>1, <2>2 DEF Informed, Known, Latest, TxnOK
<1>2. Init => NothingLost /\ LedgersKept
  BY LedgersKeptInit
<1>3. NothingLost /\ LedgersKept /\ [Next]_vars => (NothingLost /\ LedgersKept)'
  BY LedgersKeptNext
<1>4. NothingLost /\ LedgersKept /\ Informed /\ [Next]_vars
         => (NothingLost /\ LedgersKept /\ Informed)'
  BY <1>3, NextStaysInformed
<1>5. NothingLost /\ LedgersKept /\ Informed => InformedChange
  BY InformedHolds
<1>6. QED
  BY <1>1, <1>2, <1>4, <1>5, PTL DEF Spec
=============================================================================
