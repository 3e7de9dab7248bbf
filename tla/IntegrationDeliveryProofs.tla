---------------------- MODULE IntegrationDeliveryProofs ----------------------
(***************************************************************************)
(* Deliveries, wizards, jobs and imports, for any number of payloads, keys  *)
(* and files, with any two commands that overlap, a purge excepted.         *)
(*                                                                         *)
(* A database keeps DeliveriesOK.  Everything but a purge only adds to it    *)
(* (Grown), names what it changes (Tells: who moves a job writes the        *)
(* delivery that the job is about, who records an import moves its job),    *)
(* and stages nothing unless it writes the row of the partner (Unstaged).   *)
(* That is what keeps two transactions apart that overlap: joined row by    *)
(* row, they leave a good database behind, or the later one fails.          *)
(*                                                                         *)
(* A delivery that failed hands its failure to the job queue: for any       *)
(* reports, deliveries and limits, a failure given to that stays on record, *)
(* and no waiting job is out of attempts.                                  *)
(***************************************************************************)
EXTENDS IntegrationDelivery, OperationJobs, TLAPS

Done == {"completed", "completed_with_errors"}
JobStates == {"awaiting_approval", "approved", "rejected"} \cup Done
Purged == [state |-> "purged"]
Kept(x) == x # NoRow /\ x # Purged

DeliveryRow(x) ==
    Kept(x) =>
        /\ x = [state |-> x.state, content |-> x.content, key |-> x.key, job |-> x.job,
                fingerprint |-> x.fingerprint, left |-> x.left]
        /\ x.state \in ActiveStates \cup Terminal
        /\ x.state \in ActiveStates \/ x.left
WizardRow(x) ==
    x # NoRow =>
        x = [state |-> "open", delivery |-> x.delivery, content |-> x.content,
             preview |-> x.preview, job |-> x.job]
JobRow(x) ==
    x # NoRow =>
        /\ x = [state |-> x.state, delivery |-> x.delivery, content |-> x.content,
                version |-> x.version]
        /\ x.state \in JobStates
ReplyRow(x) ==
    x # NoRow =>
        /\ x = [state |-> "sent", delivery |-> x.delivery, key |-> x.key,
                request |-> x.request]
        /\ x.key # NoKey /\ x.delivery \in DeliveryIds
RunRow(x) ==
    x # NoRow =>
        /\ x = [state |-> "committed", content |-> x.content, version |-> x.version,
                job |-> x.job]
        /\ x.job \in JobIds

Tables(partner, template, delivery, wizard, job, reply, run) ==
    [partner |-> partner, template |-> template, delivery |-> delivery, wizard |-> wizard,
     job |-> job, reply |-> reply, run |-> run]

Authentication(b) == <<[write_date |-> b]>>
Shape(d) ==
    /\ d = Tables(d.partner, d.template, d.delivery, d.wizard, d.job, d.reply, d.run)
    /\ d.partner \in {Authentication(TRUE), Authentication(FALSE)}
    /\ d.template = <<d.template[1]>>
    /\ d.template[1] = [version |-> d.template[1].version, required |-> d.template[1].required]
    /\ d.delivery = [i \in DeliveryIds |-> d.delivery[i]]
    /\ d.wizard = [w \in WizardIds |-> d.wizard[w]]
    /\ d.job = [j \in JobIds |-> d.job[j]]
    /\ d.reply = [r \in ReplyIds |-> d.reply[r]]
    /\ d.run = [n \in RunIds |-> d.run[n]]
    /\ \A i \in DeliveryIds : DeliveryRow(d.delivery[i])
    /\ \A w \in WizardIds : WizardRow(d.wizard[w])
    /\ \A j \in JobIds : JobRow(d.job[j])
    /\ \A r \in ReplyIds : ReplyRow(d.reply[r])
    /\ \A n \in RunIds : RunRow(d.run[n])

IsDelivery(d, i) == i # None => i \in DeliveryIds /\ Kept(d.delivery[i])
IsJob(d, j) == j # None => j \in JobIds /\ d.job[j] # NoRow
References(d) ==
    /\ \A i \in DeliveryIds : Kept(d.delivery[i]) => IsJob(d, d.delivery[i].job)
    /\ \A w \in WizardIds : d.wizard[w] # NoRow =>
          IsDelivery(d, d.wizard[w].delivery) /\ IsJob(d, d.wizard[w].job)
    /\ \A j \in JobIds : d.job[j] # NoRow => IsDelivery(d, d.job[j].delivery)

Answers(d) ==
    \A r \in ReplyIds : d.reply[r] # NoRow =>
        LET a == d.reply[r]
            x == d.delivery[a.delivery] IN
        x # NoRow /\ (Kept(x) => x.key = a.key /\ x.fingerprint = a.request)
OnceStaged(d) ==
    \A i, j \in DeliveryIds :
        LET x == d.delivery[i]
            y == d.delivery[j] IN
        i # j /\ Kept(x) /\ Kept(y) =>
            /\ x.key = y.key => x.key = NoKey
            /\ x.content = y.content => x.left \/ y.left

Records(d, r) ==
    /\ d.job[r.job] # NoRow /\ d.job[r.job].state \in Done
    /\ d.job[r.job].content = r.content /\ d.job[r.job].version = r.version
Recorded(d) ==
    /\ \A n \in RunIds : d.run[n] # NoRow => Records(d, d.run[n])
    /\ \A m, n \in RunIds :
          d.run[m] # NoRow /\ d.run[n] # NoRow /\ d.run[m].job = d.run[n].job => m = n

ShowsJob(d, i, j, state) ==
    j \in JobIds /\ d.job[j] # NoRow /\ d.job[j].state = ShownFor[state] /\ d.job[j].delivery = i
Shown(d) ==
    \A i \in DeliveryIds : Kept(d.delivery[i]) /\ d.delivery[i].state \in DOMAIN ShownFor =>
        ShowsJob(d, i, d.delivery[i].job, d.delivery[i].state)

DeliveriesOK(d) ==
    Shape(d) /\ References(d) /\ Answers(d) /\ OnceStaged(d) /\ Recorded(d) /\ Shown(d)

(* What only grows, as long as nothing is purged. *)
SameKey(x, y) == y.key = x.key /\ y.fingerprint = x.fingerprint
DeliveryGrows(x, y) ==
    /\ x # NoRow => y # NoRow
    /\ x = Purged => y = Purged
    /\ Kept(x) => /\ Kept(y) /\ y.content = x.content /\ (x.left => y.left)
                  /\ x.key # NoKey => SameKey(x, y)
JobGrows(x, y) ==
    x # NoRow => /\ y # NoRow /\ y.content = x.content /\ y.version = x.version
                 /\ y.delivery = x.delivery
                 /\ x.state \in Done => y = x
Grown(d, e) ==
    /\ \A i \in DeliveryIds : DeliveryGrows(d.delivery[i], e.delivery[i])
    /\ \A j \in JobIds : JobGrows(d.job[j], e.job[j])
    /\ \A r \in ReplyIds : d.reply[r] # NoRow => e.reply[r] = d.reply[r]
    /\ \A n \in RunIds : d.run[n] # NoRow => e.run[n] = d.run[n]

Tells(d, e) ==
    /\ \A j \in JobIds : e.job[j] # d.job[j] /\ e.job[j].delivery # None =>
          e.delivery[e.job[j].delivery] # d.delivery[e.job[j].delivery]
    /\ \A n \in RunIds : e.run[n] # d.run[n] => e.job[e.run[n].job] # d.job[e.run[n].job]

Unstaged(d, e) ==
    /\ e.reply = d.reply
    /\ \A i \in DeliveryIds :
          /\ d.delivery[i] = NoRow => e.delivery[i] = NoRow
          /\ Kept(d.delivery[i]) => SameKey(d.delivery[i], e.delivery[i])

Advance(d, e) ==
    /\ Grown(d, e) /\ Tells(d, e)
    /\ e.partner = d.partner => Unstaged(d, e)

-----------------------------------------------------------------------------
(* Which rows there are. *)
LEMMA RowsOf ==
    ASSUME NEW d, Shape(d)
    PROVE  /\ Deliveries(d) = {i \in DeliveryIds : Kept(d.delivery[i])}
           /\ Exists(d, "wizard") = {w \in WizardIds : d.wizard[w] # NoRow}
           /\ Exists(d, "job") = {j \in JobIds : d.job[j] # NoRow}
           /\ Exists(d, "reply") = {r \in ReplyIds : d.reply[r] # NoRow}
           /\ Exists(d, "run") = {n \in RunIds : d.run[n] # NoRow}
<1>1. /\ d["delivery"] = d.delivery /\ d["wizard"] = d.wizard /\ d["job"] = d.job
      /\ d["reply"] = d.reply /\ d["run"] = d.run
  OBVIOUS
<1>2. /\ DOMAIN d.delivery = DeliveryIds /\ DOMAIN d.wizard = WizardIds
      /\ DOMAIN d.job = JobIds /\ DOMAIN d.reply = ReplyIds /\ DOMAIN d.run = RunIds
  BY DEF Shape
<1>3. \A x : DeliveryRow(x) => (Kept(x) <=> x # NoRow /\ x.state # "purged")
  BY DEF DeliveryRow, Kept, Purged, ActiveStates, Terminal
<1>4. /\ \A x : WizardRow(x) /\ x # NoRow => x.state # "purged"
      /\ \A x : JobRow(x) /\ x # NoRow => x.state # "purged"
      /\ \A x : ReplyRow(x) /\ x # NoRow => x.state # "purged"
      /\ \A x : RunRow(x) /\ x # NoRow => x.state # "purged"
  BY DEF WizardRow, JobRow, ReplyRow, RunRow, JobStates, Done
<1>5. /\ \A i \in DeliveryIds : DeliveryRow(d.delivery[i])
      /\ \A w \in WizardIds : WizardRow(d.wizard[w])
      /\ \A j \in JobIds : JobRow(d.job[j])
      /\ \A r \in ReplyIds : ReplyRow(d.reply[r])
      /\ \A n \in RunIds : RunRow(d.run[n])
  BY DEF Shape
<1>6. Deliveries(d) = {i \in DeliveryIds : Kept(d.delivery[i])}
  BY <1>1, <1>2, <1>3, <1>5 DEF Deliveries, Exists
<1>7. Exists(d, "wizard") = {w \in WizardIds : d.wizard[w] # NoRow}
  BY <1>1, <1>2, <1>4, <1>5 DEF Exists
<1>8. Exists(d, "job") = {j \in JobIds : d.job[j] # NoRow}
  BY <1>1, <1>2, <1>4, <1>5 DEF Exists
<1>9. Exists(d, "reply") = {r \in ReplyIds : d.reply[r] # NoRow}
  BY <1>1, <1>2, <1>4, <1>5 DEF Exists
<1>10. Exists(d, "run") = {n \in RunIds : d.run[n] # NoRow}
  BY <1>1, <1>2, <1>4, <1>5 DEF Exists
<1>11. QED
  BY <1>6, <1>7, <1>8, <1>9, <1>10

LEMMA NewIds ==
    ASSUME NEW d, NEW t, NEW i \in NewId(d, t), DOMAIN d[t] \subseteq Nat
    PROVE  i \in DOMAIN d[t] /\ d[t][i] = NoRow
<1> DEFINE taken == {j \in DOMAIN d[t] :
                     d[t][j] # NoRow \/ (slow.running /\ <<t, j>> \in DOMAIN slow.mine)}
<1>1. i \in DOMAIN d[t] /\ (\A j \in taken : i > j)
  BY DEF NewId
<1>2. i \notin taken
  <2>1. i \in Nat
    BY <1>1
  <2>2. QED
    BY <1>1, <2>1
<1>3. QED
  BY <1>1, <1>2

LEMMA NewRows ==
    ASSUME NEW d, Shape(d)
    PROVE  /\ \A i \in NewId(d, "delivery") : i \in DeliveryIds /\ d.delivery[i] = NoRow
           /\ \A w \in NewId(d, "wizard") : w \in WizardIds /\ d.wizard[w] = NoRow
           /\ \A j \in NewId(d, "job") : j \in JobIds /\ d.job[j] = NoRow
           /\ \A r \in NewId(d, "reply") : r \in ReplyIds /\ d.reply[r] = NoRow
           /\ \A n \in NewId(d, "run") : n \in RunIds /\ d.run[n] = NoRow
<1>1. /\ DOMAIN d.delivery = DeliveryIds /\ DOMAIN d.wizard = WizardIds
      /\ DOMAIN d.job = JobIds /\ DOMAIN d.reply = ReplyIds /\ DOMAIN d.run = RunIds
  BY DEF Shape
<1>2. /\ DeliveryIds \subseteq Nat /\ WizardIds \subseteq Nat /\ JobIds \subseteq Nat
      /\ ReplyIds \subseteq Nat /\ RunIds \subseteq Nat
  BY DeliveryAssumption
<1>3. ASSUME NEW t \in {"delivery", "wizard", "job", "reply", "run"}, NEW i \in NewId(d, t)
      PROVE  i \in DOMAIN d[t] /\ d[t][i] = NoRow
  <2>1. DOMAIN d[t] \subseteq Nat
    BY <1>1, <1>2
  <2>2. QED
    BY <2>1, <1>3, NewIds
<1>4. QED
  BY <1>1, <1>3

(* Ids are not the empty reference. *)
LEMMA IdsAreSome == None \notin DeliveryIds /\ None \notin JobIds
  BY DeliveryAssumption DEF None

LEMMA GrowsAtOnce ==
    /\ \A x : DeliveryGrows(x, x)
    /\ \A x : JobGrows(x, x)
  BY DEF DeliveryGrows, JobGrows, SameKey

LEMMA GrownTwice ==
    ASSUME NEW d, NEW e, NEW f, Grown(d, e), Grown(e, f)
    PROVE  Grown(d, f)
<1>1. \A x, y, z : DeliveryGrows(x, y) /\ DeliveryGrows(y, z) => DeliveryGrows(x, z)
  BY DEF DeliveryGrows, SameKey
<1>2. \A x, y, z : JobGrows(x, y) /\ JobGrows(y, z) => JobGrows(x, z)
  BY DEF JobGrows
<1>3. QED
  BY <1>1, <1>2 DEF Grown

(* What refers to rows, refers to them still when rows only grow.            *)
LEMMA ReferencesGrow ==
    ASSUME NEW d, NEW e, Grown(d, e)
    PROVE  /\ \A i : IsDelivery(d, i) => IsDelivery(e, i)
           /\ \A j : IsJob(d, j) => IsJob(e, j)
  BY DEF Grown, DeliveryGrows, JobGrows, IsDelivery, IsJob

(* A step that stages and imports nothing.                                   *)
LEMMA StepKeeps ==
    ASSUME NEW d, DeliveriesOK(d), NEW e, Shape(e), Grown(d, e), References(e), Shown(e),
           e.partner = d.partner, Unstaged(d, e), Tells(d, e), e.run = d.run
    PROVE  DeliveriesOK(e) /\ Advance(d, e)
<1>1. /\ Answers(d) /\ OnceStaged(d) /\ Recorded(d)
      /\ \A r \in ReplyIds : ReplyRow(d.reply[r])
      /\ \A n \in RunIds : RunRow(d.run[n])
  BY DEF DeliveriesOK, Shape
<1>2. ASSUME NEW i \in DeliveryIds
      PROVE  /\ DeliveryGrows(d.delivery[i], e.delivery[i])
             /\ d.delivery[i] = NoRow => e.delivery[i] = NoRow
             /\ Kept(d.delivery[i]) => SameKey(d.delivery[i], e.delivery[i])
             /\ Kept(e.delivery[i]) => Kept(d.delivery[i])
  BY DEF Grown, Unstaged, DeliveryGrows, Kept
<1>3. Answers(e)
  <2>1. ASSUME NEW r \in ReplyIds, d.reply[r] # NoRow
        PROVE  d.reply[r].delivery \in DeliveryIds
    BY <1>1, <2>1 DEF ReplyRow
  <2>2. e.reply = d.reply
    BY DEF Unstaged
  <2>3. \A i \in DeliveryIds : d.delivery[i] # NoRow => e.delivery[i] # NoRow
    BY <1>2 DEF DeliveryGrows
  <2>4. QED
    BY <1>1, <1>2, <2>1, <2>2, <2>3 DEF Answers, SameKey
<1>4. OnceStaged(e)
  <2>1. \A i \in DeliveryIds : Kept(e.delivery[i]) =>
           /\ Kept(d.delivery[i]) /\ e.delivery[i].key = d.delivery[i].key
           /\ e.delivery[i].content = d.delivery[i].content
           /\ d.delivery[i].left => e.delivery[i].left
    BY <1>2 DEF DeliveryGrows, SameKey
  <2>2. QED
    BY <1>1, <2>1 DEF OnceStaged
<1>5. Recorded(e)
  <2>1. \A j \in JobIds : d.job[j] # NoRow /\ d.job[j].state \in Done => e.job[j] = d.job[j]
    BY DEF Grown, JobGrows
  <2>2. \A n \in RunIds : d.run[n] # NoRow => d.run[n].job \in JobIds
    BY <1>1 DEF RunRow
  <2>3. QED
    BY <1>1, <2>1, <2>2 DEF Recorded, Records
<1>6. QED
  BY <1>3, <1>4, <1>5 DEF DeliveriesOK, Advance

-----------------------------------------------------------------------------
(* What marks a delivery. *)
MarkedRow(x, state, j) == [StateRow(x, state) EXCEPT !.job = j]
WithDelivery(d, delivery) ==
    Tables(d.partner, d.template, delivery, d.wizard, d.job, d.reply, d.run)

LEMMA StateRows ==
    ASSUME NEW x, DeliveryRow(x), Kept(x), NEW state \in ActiveStates \cup Terminal
    PROVE  LET y == StateRow(x, state) IN
           /\ DeliveryRow(y) /\ Kept(y) /\ DeliveryGrows(x, y) /\ SameKey(x, y)
           /\ y.state = state /\ y.job = x.job
<1> DEFINE left == x.left \/ state \in Terminal
           y == [state |-> state, content |-> x.content, key |-> x.key, job |-> x.job,
                 fingerprint |-> x.fingerprint, left |-> left]
<1>1. StateRow(x, state) = [x EXCEPT !.state = state, !.left = left]
  BY Zenon DEF StateRow
<1>2. y.state \in ActiveStates \/ y.left
  BY Zenon
<1>3. x.left => y.left
  OBVIOUS
<1> HIDE DEF left
<1>4. StateRow(x, state) = y
  BY <1>1 DEF DeliveryRow
<1>5. /\ y.state = state /\ y.content = x.content /\ y.key = x.key /\ y.job = x.job
      /\ y.fingerprint = x.fingerprint
      /\ y = [state |-> y.state, content |-> y.content, key |-> y.key, job |-> y.job,
              fingerprint |-> y.fingerprint, left |-> y.left]
  OBVIOUS
<1> HIDE DEF y
<1>6. Kept(y)
  BY <1>5 DEF Kept, NoRow, Purged, ActiveStates, Terminal
<1>7. DeliveryRow(y)
  BY <1>2, <1>5 DEF DeliveryRow
<1>8. DeliveryGrows(x, y) /\ SameKey(x, y)
  BY <1>3, <1>5, <1>6 DEF DeliveryGrows, SameKey, Kept
<1>9. QED
  BY <1>5, <1>6, <1>7, <1>8, <1>4

LEMMA MarkedRows ==
    ASSUME NEW x, DeliveryRow(x), Kept(x), NEW state \in ActiveStates \cup Terminal, NEW j
    PROVE  LET y == MarkedRow(x, state, j) IN
           /\ DeliveryRow(y) /\ Kept(y) /\ DeliveryGrows(x, y) /\ SameKey(x, y)
           /\ y.state = state /\ y.job = j
<1> DEFINE z == StateRow(x, state)
           y == [state |-> z.state, content |-> z.content, key |-> z.key, job |-> j,
                 fingerprint |-> z.fingerprint, left |-> z.left]
<1>1. /\ DeliveryRow(z) /\ Kept(z) /\ DeliveryGrows(x, z) /\ SameKey(x, z)
      /\ z.state = state
  BY StateRows
<1>2. MarkedRow(x, state, j) = [z EXCEPT !.job = j]
  BY DEF MarkedRow
<1> HIDE DEF z
<1>3. MarkedRow(x, state, j) = y
  BY <1>1, <1>2 DEF DeliveryRow
<1>4. /\ y.state = z.state /\ y.content = z.content /\ y.key = z.key /\ y.job = j
      /\ y.fingerprint = z.fingerprint /\ y.left = z.left
      /\ y = [state |-> y.state, content |-> y.content, key |-> y.key, job |-> y.job,
              fingerprint |-> y.fingerprint, left |-> y.left]
  OBVIOUS
<1> HIDE DEF y
<1>5. Kept(y)
  BY <1>1, <1>4 DEF Kept, NoRow, Purged, ActiveStates, Terminal
<1>6. DeliveryRow(y)
  BY <1>1, <1>4, <1>5 DEF DeliveryRow
<1>7. DeliveryGrows(x, y) /\ SameKey(x, y)
  BY <1>1, <1>4, <1>5 DEF DeliveryGrows, SameKey, Kept
<1>8. QED
  BY <1>1, <1>3, <1>4, <1>5, <1>6, <1>7

LEMMA InStateTables ==
    ASSUME NEW d, d = Tables(d.partner, d.template, d.delivery, d.wizard, d.job, d.reply, d.run),
           d.delivery = [i \in DeliveryIds |-> d.delivery[i]],
           NEW i \in DeliveryIds, NEW state
    PROVE  InState(d, i, state)
             = WithDelivery(d, [d.delivery EXCEPT ![i] = StateRow(d.delivery[i], state)])
<1> DEFINE y == StateRow(d.delivery[i], state)
<1>1. InState(d, i, state) = [d EXCEPT !.delivery[i] = y]
  BY DEF InState
<1> HIDE DEF y
<1>2. [d EXCEPT !.delivery[i] = y] = WithDelivery(d, [d.delivery EXCEPT ![i] = y])
  BY DEF Tables, WithDelivery
<1>3. QED
  BY <1>1, <1>2 DEF y

LEMMA MarkedTables ==
    ASSUME NEW d, d = Tables(d.partner, d.template, d.delivery, d.wizard, d.job, d.reply, d.run),
           d.delivery = [i \in DeliveryIds |-> d.delivery[i]],
           NEW i \in DeliveryIds, i # None, NEW state, NEW j
    PROVE  Marked(d, i, state, j)
             = WithDelivery(d, [d.delivery EXCEPT ![i] = MarkedRow(d.delivery[i], state, j)])
<1> DEFINE x == StateRow(d.delivery[i], state)
           del == [d.delivery EXCEPT ![i] = x]
           e == InState(d, i, state)
           y == [x EXCEPT !.job = j]
<1>1. Marked(d, i, state, j) = [e EXCEPT !.delivery[i].job = j]
  BY DEF Marked
<1>2. e = WithDelivery(d, del)
  BY InStateTables
<1>3. del = [k \in DeliveryIds |-> del[k]] /\ del[i] = x
  OBVIOUS
<1>4. y = MarkedRow(d.delivery[i], state, j)
  BY DEF MarkedRow
<1>5. [d.delivery EXCEPT ![i] = y] = [del EXCEPT ![i] = y]
  BY <1>3
<1> HIDE DEF x, del, e
<1>6. [e EXCEPT !.delivery[i].job = j] = WithDelivery(d, [del EXCEPT ![i] = y])
  BY <1>2, <1>3 DEF Tables, WithDelivery
<1>7. QED
  BY <1>1, <1>4, <1>5, <1>6

(* One delivery is replaced by a row that goes on from it, the jobs stay.    *)
LEMMA DeliveryChange ==
    ASSUME NEW d, DeliveriesOK(d), NEW i \in DeliveryIds, NEW y,
           DeliveryRow(y), Kept(d.delivery[i]), Kept(y), DeliveryGrows(d.delivery[i], y)
    PROVE  LET del == [d.delivery EXCEPT ![i] = y] IN
           /\ del = [k \in DeliveryIds |-> del[k]] /\ del[i] = y
           /\ \A k \in DeliveryIds \ {i} : del[k] = d.delivery[k]
           /\ \A k \in DeliveryIds : DeliveryRow(del[k]) /\ DeliveryGrows(d.delivery[k], del[k])
<1> DEFINE del == [d.delivery EXCEPT ![i] = y]
<1>1. Shape(d)
  BY DEF DeliveriesOK
<1>2. /\ del = [k \in DeliveryIds |-> del[k]] /\ del[i] = y
      /\ \A k \in DeliveryIds \ {i} : del[k] = d.delivery[k]
  BY <1>1 DEF Shape
<1>3. \A k \in DeliveryIds : DeliveryRow(d.delivery[k])
  BY <1>1 DEF Shape
<1> HIDE DEF del
<1>4. QED
  BY <1>2, <1>3, GrowsAtOnce DEF del

-----------------------------------------------------------------------------
(* A job moves, and its delivery with it. *)
MovedJob(x, state) == [x EXCEPT !.state = state]
MarkedBy(d, i, shown, j) ==
    IF i = None THEN d.delivery
    ELSE [d.delivery EXCEPT ![i] = MarkedRow(d.delivery[i], shown, j)]

LEMMA MarkedByTables ==
    ASSUME NEW d, d = Tables(d.partner, d.template, d.delivery, d.wizard, d.job, d.reply, d.run),
           d.delivery = [k \in DeliveryIds |-> d.delivery[k]],
           NEW i, i # None => i \in DeliveryIds, NEW state, NEW j
    PROVE  Marked(d, i, state, j) = WithDelivery(d, MarkedBy(d, i, state, j))
<1>1. CASE i = None
  BY <1>1 DEF Marked, MarkedBy, WithDelivery
<1>2. CASE i # None
  BY <1>2, MarkedTables DEF MarkedBy
<1>3. QED
  BY <1>1, <1>2

LEMMA JobMovesTables ==
    ASSUME NEW d, d = Tables(d.partner, d.template, d.delivery, d.wizard, d.job, d.reply, d.run),
           d.delivery = [i \in DeliveryIds |-> d.delivery[i]],
           NEW j, d.job[j].delivery # None => d.job[j].delivery \in DeliveryIds,
           NEW state, NEW shown
    PROVE  JobMoves(d, j, state, shown)
             = Tables(d.partner, d.template, MarkedBy(d, d.job[j].delivery, shown, j), d.wizard,
                      [d.job EXCEPT ![j] = MovedJob(d.job[j], state)], d.reply, d.run)
<1> DEFINE i == d.job[j].delivery
           jobs == [d.job EXCEPT ![j] = MovedJob(d.job[j], state)]
           e == Tables(d.partner, d.template, d.delivery, d.wizard, jobs, d.reply, d.run)
<1>1. [d EXCEPT !.job[j].state = state] = e
  BY DEF Tables, MovedJob
<1>2. JobMoves(d, j, state, shown) = Marked(e, i, shown, j)
  BY <1>1 DEF JobMoves
<1> HIDE DEF jobs
<1>3. /\ e.partner = d.partner /\ e.template = d.template /\ e.delivery = d.delivery
      /\ e.wizard = d.wizard /\ e.job = jobs /\ e.reply = d.reply /\ e.run = d.run
      /\ e = Tables(e.partner, e.template, e.delivery, e.wizard, e.job, e.reply, e.run)
  BY DEF Tables
<1> HIDE DEF e
<1>4. Marked(e, i, shown, j) = WithDelivery(e, MarkedBy(e, i, shown, j))
  <2>1. i # None => i \in DeliveryIds
    OBVIOUS
  <2>2. e.delivery = [k \in DeliveryIds |-> e.delivery[k]]
    BY <1>3
  <2> HIDE DEF i
  <2>3. QED
    BY <1>3, <2>1, <2>2, MarkedByTables
<1>5. MarkedBy(e, i, shown, j) = MarkedBy(d, i, shown, j)
  BY <1>3 DEF MarkedBy
<1>6. QED
  BY <1>2, <1>3, <1>4, <1>5 DEF WithDelivery, jobs

LEMMA MovedJobs ==
    ASSUME NEW x, JobRow(x), x # NoRow, NEW state
    PROVE  MovedJob(x, state) = [state |-> state, delivery |-> x.delivery,
                                 content |-> x.content, version |-> x.version]
  BY DEF JobRow, MovedJob

(* A job is inserted or goes on, and its delivery shows that. *)
JobGoesOn(d, j, z, shown) ==
    /\ j \in JobIds /\ JobRow(z) /\ z # NoRow /\ JobGrows(d.job[j], z)
    /\ d.job[j] = NoRow \/ d.job[j].state # z.state
    /\ IsDelivery(d, z.delivery)
    /\ shown \in DOMAIN ShownFor /\ z.state = ShownFor[shown]

LEMMA JobPut ==
    ASSUME NEW d, DeliveriesOK(d), NEW j, NEW z, NEW shown, JobGoesOn(d, j, z, shown),
           NEW wiz, wiz = [w \in WizardIds |-> wiz[w]],
           \A w \in WizardIds : WizardRow(wiz[w]) /\ (wiz[w] # NoRow =>
              IsDelivery(d, wiz[w].delivery) /\ (wiz[w].job = j \/ IsJob(d, wiz[w].job)))
    PROVE  LET e == Tables(d.partner, d.template, MarkedBy(d, z.delivery, shown, j), wiz,
                           [d.job EXCEPT ![j] = z], d.reply, d.run) IN
           DeliveriesOK(e) /\ Advance(d, e) /\ Unstaged(d, e)
<1> DEFINE i == z.delivery
           y == MarkedRow(d.delivery[i], shown, j)
           del == MarkedBy(d, i, shown, j)
           jobs == [d.job EXCEPT ![j] = z]
           e == Tables(d.partner, d.template, del, wiz, jobs, d.reply, d.run)
<1>1. /\ Shape(d) /\ References(d) /\ Shown(d)
      /\ j \in JobIds /\ JobRow(z) /\ z # NoRow /\ JobGrows(d.job[j], z)
      /\ d.job[j] = NoRow \/ d.job[j].state # z.state
      /\ shown \in DOMAIN ShownFor /\ z.state = ShownFor[shown]
  BY DEF DeliveriesOK, JobGoesOn
<1>2. /\ d.delivery = [k \in DeliveryIds |-> d.delivery[k]]
      /\ \A k \in DeliveryIds : DeliveryRow(d.delivery[k])
      /\ d.job = [k \in JobIds |-> d.job[k]] /\ \A k \in JobIds : JobRow(d.job[k])
  BY <1>1 DEF Shape
<1>3. i # None => i \in DeliveryIds /\ Kept(d.delivery[i])
  BY DEF JobGoesOn, IsDelivery
<1>4. shown \in ActiveStates \cup Terminal
  BY <1>1 DEF ShownFor, ActiveStates, Terminal
<1>5. /\ jobs = [k \in JobIds |-> jobs[k]] /\ jobs[j] = z
      /\ \A k \in JobIds \ {j} : jobs[k] = d.job[k]
  BY <1>1, <1>2
<1> HIDE DEF jobs
<1>6. /\ del = [k \in DeliveryIds |-> del[k]]
      /\ \A k \in DeliveryIds : DeliveryRow(del[k]) /\ DeliveryGrows(d.delivery[k], del[k])
      /\ \A k \in DeliveryIds : k # i => del[k] = d.delivery[k]
      /\ i # None => /\ del[i] = y /\ y.state = shown /\ y.job = j /\ Kept(y)
                     /\ SameKey(d.delivery[i], y)
  <2>1. CASE i = None
    BY <1>2, <2>1, GrowsAtOnce DEF MarkedBy
  <2>2. CASE i # None
    <3>1. /\ DeliveryRow(y) /\ Kept(y) /\ DeliveryGrows(d.delivery[i], y)
          /\ SameKey(d.delivery[i], y) /\ y.state = shown /\ y.job = j
      BY <1>2, <1>3, <1>4, <2>2, MarkedRows
    <3>2. del = [d.delivery EXCEPT ![i] = y]
      BY <2>2 DEF MarkedBy
    <3> HIDE DEF y, i
    <3>3. QED
      BY <1>3, <2>2, <3>1, <3>2, DeliveryChange
  <2>3. QED
    BY <2>1, <2>2
<1> HIDE DEF del, y
<1>7. /\ e.partner = d.partner /\ e.template = d.template /\ e.delivery = del
       /\ e.wizard = wiz /\ e.job = jobs /\ e.reply = d.reply /\ e.run = d.run
       /\ e = Tables(e.partner, e.template, e.delivery, e.wizard, e.job, e.reply, e.run)
  BY DEF Tables
<1> HIDE DEF e
<1>8. Shape(e)
  <2>1. \A k \in JobIds : JobRow(jobs[k])
    BY <1>1, <1>2, <1>5
  <2>2. QED
    BY <1>1, <1>5, <1>6, <1>7, <2>1 DEF Shape
<1>9. Grown(d, e)
  <2>1. \A k \in JobIds : JobGrows(d.job[k], jobs[k])
    BY <1>1, <1>5, GrowsAtOnce
  <2>2. QED
    BY <1>6, <1>7, <2>1 DEF Grown
<1>10. References(e)
  <2>1. \A k \in DeliveryIds : Kept(del[k]) => IsJob(e, del[k].job)
    <3>1. \A k \in DeliveryIds : Kept(d.delivery[k]) => IsJob(e, d.delivery[k].job)
      BY <1>1, <1>9, ReferencesGrow DEF References
    <3>2. IsJob(e, j)
      BY <1>1, <1>5, <1>7 DEF IsJob
    <3>3. QED
      BY <1>6, <3>1, <3>2, IdsAreSome
  <2>2. \A w \in WizardIds : wiz[w] # NoRow =>
           IsDelivery(e, wiz[w].delivery) /\ IsJob(e, wiz[w].job)
    <3>1. IsJob(e, j)
      BY <1>1, <1>5, <1>7 DEF IsJob
    <3>2. QED
      BY <1>9, <3>1, ReferencesGrow
  <2>3. \A k \in JobIds : d.job[k] # NoRow => IsDelivery(e, d.job[k].delivery)
    BY <1>1, <1>9, ReferencesGrow DEF References
  <2>4. \A k \in JobIds : jobs[k] # NoRow => IsDelivery(e, jobs[k].delivery)
    <3>1. IsDelivery(e, z.delivery)
      BY <1>9, ReferencesGrow DEF JobGoesOn
    <3>2. QED
      BY <1>5, <2>3, <3>1
  <2>5. QED
    BY <1>7, <2>1, <2>2, <2>4 DEF References
<1>11. Shown(e)
  <2>1. SUFFICES ASSUME NEW k \in DeliveryIds, Kept(del[k]), del[k].state \in DOMAIN ShownFor
                 PROVE  ShowsJob(e, k, del[k].job, del[k].state)
    BY <1>7 DEF Shown
  <2>2. CASE k = i
    <3>1. i # None
      BY <2>2, IdsAreSome
    <3>2. QED
      BY <1>1, <1>5, <1>6, <1>7, <2>2, <3>1 DEF ShowsJob
  <2>3. CASE k # i
    <3>1. del[k] = d.delivery[k]
      BY <1>6, <2>3
    <3>2. ShowsJob(d, k, d.delivery[k].job, d.delivery[k].state)
      BY <1>1, <2>1, <3>1 DEF Shown
    <3>3. d.delivery[k].job # j
      BY <1>1, <2>3, <3>2 DEF ShowsJob, JobGrows
    <3>4. QED
      BY <1>5, <1>7, <3>1, <3>2, <3>3 DEF ShowsJob
  <2>4. QED
    BY <2>2, <2>3
<1>12. Tells(d, e)
  <2>1. i # None => y # d.delivery[i]
    <3>1. SUFFICES ASSUME i # None, y = d.delivery[i] PROVE FALSE
      OBVIOUS
    <3>2. ShowsJob(d, i, j, shown)
      BY <1>1, <1>3, <1>6, <3>1 DEF Shown
    <3>3. QED
      BY <1>1, <3>2 DEF ShowsJob
  <2>2. \A k \in JobIds : jobs[k] # d.job[k] => k = j
    BY <1>5
  <2>3. QED
    BY <1>1, <1>5, <1>6, <1>7, <2>1, <2>2 DEF Tells
<1>13. Unstaged(d, e)
  <2>1. \A k \in DeliveryIds : Kept(d.delivery[k]) => SameKey(d.delivery[k], del[k])
    BY <1>6, IdsAreSome DEF SameKey
  <2>2. \A k \in DeliveryIds : d.delivery[k] = NoRow => del[k] = NoRow
    BY <1>3, <1>6, IdsAreSome DEF Kept
  <2>3. QED
    BY <1>7, <2>1, <2>2 DEF Unstaged
<1>14. DeliveriesOK(e) /\ Advance(d, e)
  BY <1>7, <1>8, <1>9, <1>10, <1>11, <1>12, <1>13, StepKeeps
<1>15. QED
  BY <1>13, <1>14 DEF e, jobs, del

(* The moves of a job that is there. *)
Moving(d, j, state, shown) ==
    /\ j \in JobIds /\ d.job[j] # NoRow /\ d.job[j].state \notin Done
    /\ state \in JobStates /\ d.job[j].state # state
    /\ shown \in DOMAIN ShownFor /\ ShownFor[shown] = state

LEMMA JobMoved ==
    ASSUME NEW d, DeliveriesOK(d), NEW j, NEW state, NEW shown, Moving(d, j, state, shown)
    PROVE  LET z == MovedJob(d.job[j], state)
               e == JobMoves(d, j, state, shown) IN
           /\ e = Tables(d.partner, d.template, MarkedBy(d, d.job[j].delivery, shown, j),
                         d.wizard, [d.job EXCEPT ![j] = z], d.reply, d.run)
           /\ DeliveriesOK(e) /\ Advance(d, e) /\ Unstaged(d, e)
           /\ z # NoRow /\ z # d.job[j] /\ z.state = state
           /\ z.content = d.job[j].content /\ z.version = d.job[j].version
<1> DEFINE z == MovedJob(d.job[j], state)
<1>1. /\ Shape(d) /\ References(d)
      /\ j \in JobIds /\ d.job[j] # NoRow /\ d.job[j].state \notin Done
      /\ state \in JobStates /\ d.job[j].state # state
      /\ shown \in DOMAIN ShownFor /\ ShownFor[shown] = state
  BY DEF DeliveriesOK, Moving
<1>2. /\ d = Tables(d.partner, d.template, d.delivery, d.wizard, d.job, d.reply, d.run)
      /\ d.delivery = [k \in DeliveryIds |-> d.delivery[k]]
      /\ d.wizard = [w \in WizardIds |-> d.wizard[w]]
      /\ \A w \in WizardIds : WizardRow(d.wizard[w])
      /\ JobRow(d.job[j])
  BY <1>1 DEF Shape
<1>3. /\ IsDelivery(d, d.job[j].delivery)
      /\ \A w \in WizardIds : d.wizard[w] # NoRow =>
            IsDelivery(d, d.wizard[w].delivery) /\ IsJob(d, d.wizard[w].job)
  BY <1>1 DEF References
<1>4. z = [state |-> state, delivery |-> d.job[j].delivery, content |-> d.job[j].content,
           version |-> d.job[j].version]
  BY <1>1, <1>2, MovedJobs
<1> HIDE DEF z
<1>5. /\ z.state = state /\ z.delivery = d.job[j].delivery /\ z.content = d.job[j].content
      /\ z.version = d.job[j].version
      /\ z = [state |-> z.state, delivery |-> z.delivery, content |-> z.content,
              version |-> z.version]
  BY <1>4
<1>6. z # NoRow /\ z # d.job[j] /\ JobRow(z) /\ JobGrows(d.job[j], z)
  BY <1>1, <1>5 DEF JobRow, JobGrows, NoRow, JobStates, Done
<1>7. JobGoesOn(d, j, z, shown)
  BY <1>1, <1>3, <1>5, <1>6 DEF JobGoesOn
<1>8. d.job[j].delivery # None => d.job[j].delivery \in DeliveryIds
  BY <1>3 DEF IsDelivery
<1>9. JobMoves(d, j, state, shown)
        = Tables(d.partner, d.template, MarkedBy(d, z.delivery, shown, j), d.wizard,
                 [d.job EXCEPT ![j] = z], d.reply, d.run)
  BY <1>2, <1>5, <1>8, JobMovesTables DEF z
<1> DEFINE e == Tables(d.partner, d.template, MarkedBy(d, z.delivery, shown, j), d.wizard,
                       [d.job EXCEPT ![j] = z], d.reply, d.run)
<1>10. DeliveriesOK(e) /\ Advance(d, e) /\ Unstaged(d, e)
  BY <1>2, <1>3, <1>7, JobPut
<1> HIDE DEF e
<1>11. LET m == JobMoves(d, j, state, shown) IN
       DeliveriesOK(m) /\ Advance(d, m) /\ Unstaged(d, m) /\ m = e
  BY <1>9, <1>10 DEF e
<1>12. QED
  BY <1>5, <1>6, <1>11 DEF z, e

(* Managers decide on jobs, importers submit them again. *)
LEMMA DecideKeeps ==
    ASSUME NEW d, DeliveriesOK(d),
           NEW e \in Submit(d) \cup Approve(d) \cup ApproveImport(d) \cup Reject(d)
    PROVE  DeliveriesOK(e) /\ Advance(d, e)
<1>1. Shape(d)
  BY DEF DeliveriesOK
<1>2. \A states : InJobState(d, states) =
         {j \in JobIds : d.job[j] # NoRow /\ d.job[j].state \in states}
  BY <1>1, RowsOf DEF InJobState
<1>3. SUFFICES \E j, state, shown :
                  Moving(d, j, state, shown) /\ e = JobMoves(d, j, state, shown)
  <2>1. ASSUME NEW j, NEW state, NEW shown, Moving(d, j, state, shown)
        PROVE  DeliveriesOK(JobMoves(d, j, state, shown)) /\ Advance(d, JobMoves(d, j, state, shown))
    BY <2>1, JobMoved
  <2>2. QED
    BY <2>1
<1>4. CASE e \in Submit(d)
  <2>1. PICK j \in InJobState(d, {"rejected"}) :
           e = JobMoves(d, j, "awaiting_approval", "awaiting_approval")
    BY <1>4 DEF Submit
  <2>2. Moving(d, j, "awaiting_approval", "awaiting_approval")
    BY <1>2, <2>1 DEF Moving, JobStates, Done, ShownFor
  <2>3. QED
    BY <2>1, <2>2
<1>5. CASE e \in Approve(d)
  <2>1. PICK j \in InJobState(d, {"awaiting_approval"}) :
           e = JobMoves(d, j, "approved", "approved")
    BY <1>5 DEF Approve
  <2>2. Moving(d, j, "approved", "approved")
    BY <1>2, <2>1 DEF Moving, JobStates, Done, ShownFor
  <2>3. QED
    BY <2>1, <2>2
<1>6. CASE e \in ApproveImport(d)
  <2>1. PICK w : /\ d.wizard[w].job \in InJobState(d, {"awaiting_approval"})
                 /\ e = JobMoves(d, d.wizard[w].job, "approved", "approved")
    BY <1>6 DEF ApproveImport
  <2>2. Moving(d, d.wizard[w].job, "approved", "approved")
    BY <1>2, <2>1 DEF Moving, JobStates, Done, ShownFor
  <2>3. QED
    BY <2>1, <2>2
<1>7. CASE e \in Reject(d)
  <2>1. PICK j \in InJobState(d, {"awaiting_approval", "approved"}) :
           e = JobMoves(d, j, "rejected", "failed")
    BY <1>7 DEF Reject
  <2>2. Moving(d, j, "rejected", "failed")
    BY <1>2, <2>1 DEF Moving, JobStates, Done, ShownFor
  <2>3. QED
    BY <2>1, <2>2
<1>8. QED
  BY <1>4, <1>5, <1>6, <1>7

-----------------------------------------------------------------------------
(* Steps that leave the jobs alone.  A delivery that such a step writes      *)
(* shows nothing of approval any more.                                      *)
Aside(x, y) ==
    \/ y = x
    \/ /\ DeliveryRow(y) /\ Kept(x) /\ Kept(y) /\ DeliveryGrows(x, y) /\ SameKey(x, y)
       /\ y.job = x.job /\ y.state \notin DOMAIN ShownFor
WizardOf(d, x) ==
    /\ WizardRow(x)
    /\ x # NoRow => IsDelivery(d, x.delivery) /\ IsJob(d, x.job)
TemplateRow(x) == x = [version |-> x.version, required |-> x.required]

LEMMA JobsStay ==
    ASSUME NEW d, DeliveriesOK(d), NEW template, TemplateRow(template), NEW del, NEW wiz,
           del = [k \in DeliveryIds |-> del[k]],
           \A k \in DeliveryIds : Aside(d.delivery[k], del[k]),
           wiz = [w \in WizardIds |-> wiz[w]], \A w \in WizardIds : WizardOf(d, wiz[w])
    PROVE  LET e == Tables(d.partner, <<template>>, del, wiz, d.job, d.reply, d.run) IN
           DeliveriesOK(e) /\ Advance(d, e)
<1> DEFINE e == Tables(d.partner, <<template>>, del, wiz, d.job, d.reply, d.run)
<1>1. Shape(d) /\ References(d) /\ Shown(d)
  BY DEF DeliveriesOK
<1>2. /\ e.partner = d.partner /\ e.template = <<template>> /\ e.delivery = del
      /\ e.wizard = wiz /\ e.job = d.job /\ e.reply = d.reply /\ e.run = d.run
      /\ e.template[1] = template
      /\ e = Tables(e.partner, e.template, e.delivery, e.wizard, e.job, e.reply, e.run)
  BY DEF Tables
<1> HIDE DEF e
<1>3. \A k \in DeliveryIds : DeliveryRow(del[k])
  BY <1>1 DEF Shape, Aside
<1>4. Shape(e)
  BY <1>1, <1>2, <1>3 DEF Shape, WizardOf, TemplateRow
<1>5. \A k \in DeliveryIds :
         /\ DeliveryGrows(d.delivery[k], del[k])
         /\ Kept(del[k]) => /\ Kept(d.delivery[k]) /\ SameKey(d.delivery[k], del[k])
                            /\ del[k].job = d.delivery[k].job
         /\ d.delivery[k] = NoRow => del[k] = NoRow
  BY GrowsAtOnce DEF Aside, SameKey, Kept
<1>6. Grown(d, e)
  BY <1>2, <1>5, GrowsAtOnce DEF Grown
<1>7. References(e)
  BY <1>1, <1>2, <1>5, <1>6, ReferencesGrow DEF References, WizardOf
<1>8. Shown(e)
  <2>1. SUFFICES ASSUME NEW k \in DeliveryIds, Kept(del[k]), del[k].state \in DOMAIN ShownFor
                 PROVE  ShowsJob(e, k, del[k].job, del[k].state)
    BY <1>2 DEF Shown
  <2>2. del[k] = d.delivery[k]
    BY <2>1 DEF Aside
  <2>3. QED
    BY <1>1, <1>2, <2>1, <2>2 DEF Shown, ShowsJob
<1>9. Tells(d, e) /\ Unstaged(d, e)
  <2>1. \A k \in DeliveryIds : Kept(d.delivery[k]) => SameKey(d.delivery[k], del[k])
    BY <1>5 DEF DeliveryGrows
  <2>2. QED
    BY <1>2, <1>5, <2>1 DEF Tells, Unstaged
<1>10. QED
  BY <1>2, <1>4, <1>6, <1>7, <1>8, <1>9, StepKeeps DEF e

LEMMA WizardsAreOf ==
    ASSUME NEW d, DeliveriesOK(d)
    PROVE  /\ \A w \in WizardIds : WizardOf(d, d.wizard[w])
           /\ d.wizard = [w \in WizardIds |-> d.wizard[w]]
           /\ d.delivery = [k \in DeliveryIds |-> d.delivery[k]]
           /\ \A k \in DeliveryIds : Aside(d.delivery[k], d.delivery[k])
           /\ TemplateRow(d.template[1]) /\ d.template = <<d.template[1]>>
           /\ d = Tables(d.partner, d.template, d.delivery, d.wizard, d.job, d.reply, d.run)
<1>1. Shape(d) /\ References(d)
  BY DEF DeliveriesOK
<1>2. QED
  BY <1>1 DEF Shape, References, WizardOf, Aside, TemplateRow

LEMMA WizardChange ==
    ASSUME NEW d, DeliveriesOK(d), NEW w \in WizardIds, NEW x, WizardOf(d, x)
    PROVE  LET wiz == [d.wizard EXCEPT ![w] = x]
               e == Tables(d.partner, d.template, d.delivery, wiz, d.job, d.reply, d.run) IN
           /\ wiz = [k \in WizardIds |-> wiz[k]] /\ \A k \in WizardIds : WizardOf(d, wiz[k])
           /\ DeliveriesOK(e) /\ Advance(d, e)
<1> DEFINE wiz == [d.wizard EXCEPT ![w] = x]
<1>1. /\ \A k \in WizardIds : WizardOf(d, d.wizard[k])
      /\ d.wizard = [k \in WizardIds |-> d.wizard[k]]
  BY WizardsAreOf
<1>2. /\ wiz = [k \in WizardIds |-> wiz[k]] /\ wiz[w] = x
      /\ \A k \in WizardIds \ {w} : wiz[k] = d.wizard[k]
  BY <1>1
<1> HIDE DEF wiz
<1>3. \A k \in WizardIds : WizardOf(d, wiz[k])
  BY <1>1, <1>2
<1>4. QED
  BY <1>2, <1>3, WizardsAreOf, JobsStay DEF wiz

LEMMA OpenKeeps ==
    ASSUME NEW d, DeliveriesOK(d), NEW e \in OpenWizard(d)
    PROVE  DeliveriesOK(e) /\ Advance(d, e)
<1>1. Shape(d)
  BY DEF DeliveriesOK
<1> DEFINE row(i) == [state |-> "open", delivery |-> i, content |-> d.delivery[i].content,
                      preview |-> NoContent, job |-> None]
<1>2. PICK i \in Deliveries(d) : e \in Inserted(d, "wizard", row(i))
  BY DEF OpenWizard
<1>3. PICK w \in NewId(d, "wizard") : e = [d EXCEPT !["wizard"][w] = row(i)]
  BY <1>2 DEF Inserted
<1>4. i \in DeliveryIds /\ Kept(d.delivery[i]) /\ w \in WizardIds
  BY <1>1, <1>2, <1>3, RowsOf, NewRows
<1>5. WizardOf(d, row(i))
  BY <1>4 DEF WizardOf, WizardRow, IsDelivery, IsJob
<1> HIDE DEF row
<1>6. d = Tables(d.partner, d.template, d.delivery, d.wizard, d.job, d.reply, d.run)
  BY WizardsAreOf
<1>7. e = Tables(d.partner, d.template, d.delivery, [d.wizard EXCEPT ![w] = row(i)], d.job,
                 d.reply, d.run)
  BY <1>3, <1>6 DEF Tables
<1>8. QED
  BY <1>4, <1>5, <1>7, WizardChange

LEMMA EditKeeps ==
    ASSUME NEW d, DeliveriesOK(d), NEW e \in EditWizard(d)
    PROVE  DeliveriesOK(e) /\ Advance(d, e)
<1>1. Shape(d)
  BY DEF DeliveriesOK
<1>2. PICK w \in Exists(d, "wizard"), c \in Contents \cup Uploads :
           e = [d EXCEPT !.wizard[w].content = c]
  BY DEF EditWizard
<1>3. w \in WizardIds /\ d.wizard[w] # NoRow /\ WizardOf(d, d.wizard[w])
  BY <1>1, <1>2, RowsOf, WizardsAreOf
<1> DEFINE x == [d.wizard[w] EXCEPT !.content = c]
<1>4. x = [state |-> "open", delivery |-> d.wizard[w].delivery, content |-> c,
           preview |-> d.wizard[w].preview, job |-> d.wizard[w].job]
  BY <1>3 DEF WizardOf, WizardRow
<1>5. WizardOf(d, x)
  BY <1>3, <1>4 DEF WizardOf, WizardRow
<1> HIDE DEF x
<1>6. d = Tables(d.partner, d.template, d.delivery, d.wizard, d.job, d.reply, d.run)
  BY WizardsAreOf
<1>7. e = Tables(d.partner, d.template, d.delivery, [d.wizard EXCEPT ![w] = x], d.job,
                 d.reply, d.run)
  BY <1>2, <1>6 DEF Tables, x
<1>8. QED
  BY <1>3, <1>5, <1>7, WizardChange

LEMMA TemplateKeeps ==
    ASSUME NEW d, DeliveriesOK(d), NEW e \in ChangeTemplate(d)
    PROVE  DeliveriesOK(e) /\ Advance(d, e)
<1>1. \E x : /\ TemplateRow(x)
             /\ e = Tables(d.partner, <<x>>, d.delivery, d.wizard, d.job, d.reply, d.run)
  <2> DEFINE t == d.template[1]
             x == [t EXCEPT !.version = @ + 1]
             y == [t EXCEPT !.required = ~@]
  <2>1. d.template = <<t>> /\ TemplateRow(t)
        /\ d = Tables(d.partner, d.template, d.delivery, d.wizard, d.job, d.reply, d.run)
    BY WizardsAreOf
  <2>2. e = [d EXCEPT !.template[1] = x] \/ e = [d EXCEPT !.template[1] = y]
    BY DEF ChangeTemplate
  <2>3. TemplateRow(x) /\ TemplateRow(y)
    BY <2>1 DEF TemplateRow
  <2> HIDE DEF t, x, y
  <2>4. \A z : [d EXCEPT !.template[1] = z]
                 = Tables(d.partner, <<z>>, d.delivery, d.wizard, d.job, d.reply, d.run)
    BY <2>1 DEF Tables
  <2>5. QED
    BY <2>2, <2>3, <2>4
<1>2. /\ \A w \in WizardIds : WizardOf(d, d.wizard[w])
      /\ d.wizard = [w \in WizardIds |-> d.wizard[w]]
      /\ d.delivery = [k \in DeliveryIds |-> d.delivery[k]]
      /\ \A k \in DeliveryIds : Aside(d.delivery[k], d.delivery[k])
  BY WizardsAreOf
<1>3. \A x : TemplateRow(x) =>
         LET f == Tables(d.partner, <<x>>, d.delivery, d.wizard, d.job, d.reply, d.run) IN
         DeliveriesOK(f) /\ Advance(d, f)
  BY <1>2, JobsStay
<1>4. QED
  BY <1>1, <1>3

LEMMA AsideState ==
    ASSUME NEW d, DeliveriesOK(d), NEW i \in DeliveryIds, Kept(d.delivery[i]),
           NEW state \in {"previewed", "cancelled"}
    PROVE  LET del == [d.delivery EXCEPT ![i] = StateRow(d.delivery[i], state)] IN
           /\ del = [k \in DeliveryIds |-> del[k]]
           /\ \A k \in DeliveryIds : Aside(d.delivery[k], del[k])
<1> DEFINE y == StateRow(d.delivery[i], state)
           del == [d.delivery EXCEPT ![i] = y]
<1>1. /\ d.delivery = [k \in DeliveryIds |-> d.delivery[k]]
      /\ \A k \in DeliveryIds : DeliveryRow(d.delivery[k])
  BY DEF DeliveriesOK, Shape
<1>2. state \in ActiveStates \cup Terminal /\ state \notin DOMAIN ShownFor
  BY DEF ActiveStates, Terminal, ShownFor
<1>3. /\ DeliveryRow(y) /\ Kept(y) /\ DeliveryGrows(d.delivery[i], y)
      /\ SameKey(d.delivery[i], y) /\ y.state = state /\ y.job = d.delivery[i].job
  BY <1>1, <1>2, StateRows
<1> HIDE DEF y
<1>4. /\ del = [k \in DeliveryIds |-> del[k]] /\ del[i] = y
      /\ \A k \in DeliveryIds \ {i} : del[k] = d.delivery[k]
  BY <1>1
<1> HIDE DEF del
<1>5. \A k \in DeliveryIds : Aside(d.delivery[k], del[k])
  BY <1>2, <1>3, <1>4 DEF Aside
<1>6. QED
  BY <1>4, <1>5 DEF del, y

PreviewedRow(x, preview, job) == [x EXCEPT !.preview = preview, !.job = job]
RequestedRow(x, job) == [x EXCEPT !.job = job]

LEMMA WizardFields ==
    ASSUME NEW x, WizardRow(x), x # NoRow, NEW preview, NEW job
    PROVE  /\ PreviewedRow(x, preview, job)
                = [state |-> "open", delivery |-> x.delivery, content |-> x.content,
                   preview |-> preview, job |-> job]
           /\ RequestedRow(x, job)
                = [state |-> "open", delivery |-> x.delivery, content |-> x.content,
                   preview |-> x.preview, job |-> job]
<1> DEFINE y == [x EXCEPT !.preview = preview]
<1>1. x = [state |-> "open", delivery |-> x.delivery, content |-> x.content,
           preview |-> x.preview, job |-> x.job]
  BY DEF WizardRow
<1>2. y = [state |-> "open", delivery |-> x.delivery, content |-> x.content,
           preview |-> preview, job |-> x.job]
  BY <1>1
<1>3. PreviewedRow(x, preview, job) = [y EXCEPT !.job = job]
  BY DEF PreviewedRow
<1> HIDE DEF y
<1>4. [y EXCEPT !.job = job] = [state |-> "open", delivery |-> x.delivery,
                                content |-> x.content, preview |-> preview, job |-> job]
  BY <1>2
<1>5. RequestedRow(x, job) = [state |-> "open", delivery |-> x.delivery,
                              content |-> x.content, preview |-> x.preview, job |-> job]
  BY <1>1 DEF RequestedRow
<1>6. QED
  BY <1>3, <1>4, <1>5

LEMMA PreviewKeeps ==
    ASSUME NEW d, DeliveriesOK(d), NEW e \in Preview(d)
    PROVE  DeliveriesOK(e) /\ Advance(d, e)
<1>1. Shape(d)
  BY DEF DeliveriesOK
<1>2. PICK w \in Exists(d, "wizard") : e = Previewed(d, w)
  BY DEF Preview
<1>3. w \in WizardIds /\ d.wizard[w] # NoRow /\ WizardOf(d, d.wizard[w])
  BY <1>1, <1>2, RowsOf, WizardsAreOf
<1> DEFINE wiz == d.wizard[w]
           i == wiz.delivery
           kept == wiz.job # None /\ d.job[wiz.job].content = wiz.content
           job == IF kept THEN wiz.job ELSE None
           x == PreviewedRow(wiz, wiz.content, job)
           wizards == [d.wizard EXCEPT ![w] = x]
           f == Tables(d.partner, d.template, d.delivery, wizards, d.job, d.reply, d.run)
<1>4. d = Tables(d.partner, d.template, d.delivery, d.wizard, d.job, d.reply, d.run)
  BY WizardsAreOf
<1>5. [d EXCEPT !.wizard[w] = x] = f
  BY <1>4 DEF Tables
<1>6. e = IF i = None THEN f ELSE InState(f, i, "previewed")
  BY <1>2, <1>5 DEF Previewed, PreviewedRow
<1>7. IsJob(d, job) /\ IsDelivery(d, i)
  BY <1>3 DEF WizardOf, IsJob
<1> HIDE DEF job
<1>8. x = [state |-> "open", delivery |-> i, content |-> wiz.content,
           preview |-> wiz.content, job |-> job]
  <2> HIDE DEF wiz
  <2>1. wiz # NoRow /\ WizardRow(wiz)
    BY <1>3 DEF WizardOf, wiz
  <2>2. QED
    BY <2>1, WizardFields
<1>9. WizardOf(d, x)
  BY <1>7, <1>8 DEF WizardOf, WizardRow
<1> HIDE DEF x
<1>10. /\ wizards = [k \in WizardIds |-> wizards[k]]
       /\ \A k \in WizardIds : WizardOf(d, wizards[k])
       /\ DeliveriesOK(f) /\ Advance(d, f)
  BY <1>3, <1>9, WizardChange
<1> HIDE DEF wizards
<1>11. CASE i = None
  BY <1>6, <1>10, <1>11
<1>12. CASE i # None
  <2> DEFINE del == [d.delivery EXCEPT ![i] = StateRow(d.delivery[i], "previewed")]
  <2>1. i \in DeliveryIds /\ Kept(d.delivery[i])
    BY <1>7, <1>12 DEF IsDelivery
  <2>2. /\ f.partner = d.partner /\ f.template = d.template /\ f.delivery = d.delivery
        /\ f.wizard = wizards /\ f.job = d.job /\ f.reply = d.reply /\ f.run = d.run
        /\ f = Tables(f.partner, f.template, f.delivery, f.wizard, f.job, f.reply, f.run)
    BY DEF Tables
  <2>3. d.delivery = [k \in DeliveryIds |-> d.delivery[k]] /\ d.template = <<d.template[1]>>
        /\ TemplateRow(d.template[1])
    BY WizardsAreOf
  <2> HIDE DEF f, i
  <2>4. InState(f, i, "previewed") = WithDelivery(f, del)
    <3>1. f.delivery = [k \in DeliveryIds |-> f.delivery[k]]
      BY <2>2, <2>3
    <3>2. InState(f, i, "previewed")
            = WithDelivery(f, [f.delivery EXCEPT ![i] = StateRow(f.delivery[i], "previewed")])
      BY <2>1, <2>2, <3>1, InStateTables
    <3>3. QED
      BY <2>2, <3>2
  <2>5. /\ del = [k \in DeliveryIds |-> del[k]]
        /\ \A k \in DeliveryIds : Aside(d.delivery[k], del[k])
    BY <2>1, AsideState
  <2> HIDE DEF del
  <2>6. e = Tables(d.partner, <<d.template[1]>>, del, wizards, d.job, d.reply, d.run)
    BY <1>6, <1>12, <2>2, <2>3, <2>4 DEF WithDelivery
  <2>7. QED
    BY <1>10, <2>3, <2>5, <2>6, JobsStay
<1>13. QED
  BY <1>11, <1>12

LEMMA CancelKeeps ==
    ASSUME NEW d, DeliveriesOK(d), NEW e \in Cancel(d)
    PROVE  DeliveriesOK(e) /\ Advance(d, e)
<1>1. Shape(d)
  BY DEF DeliveriesOK
<1>2. PICK i \in Deliveries(d) : e = InState(d, i, "cancelled")
  BY DEF Cancel
<1>3. i \in DeliveryIds /\ Kept(d.delivery[i])
  BY <1>1, <1>2, RowsOf
<1> DEFINE del == [d.delivery EXCEPT ![i] = StateRow(d.delivery[i], "cancelled")]
<1>4. d = Tables(d.partner, d.template, d.delivery, d.wizard, d.job, d.reply, d.run)
      /\ d.delivery = [k \in DeliveryIds |-> d.delivery[k]]
      /\ d.template = <<d.template[1]>> /\ TemplateRow(d.template[1])
      /\ d.wizard = [k \in WizardIds |-> d.wizard[k]]
      /\ \A k \in WizardIds : WizardOf(d, d.wizard[k])
  BY WizardsAreOf
<1>5. e = WithDelivery(d, del)
  BY <1>2, <1>3, <1>4, InStateTables
<1>6. /\ del = [k \in DeliveryIds |-> del[k]]
      /\ \A k \in DeliveryIds : Aside(d.delivery[k], del[k])
  BY <1>3, AsideState
<1> HIDE DEF del
<1>7. e = Tables(d.partner, <<d.template[1]>>, del, d.wizard, d.job, d.reply, d.run)
  BY <1>4, <1>5 DEF WithDelivery
<1>8. QED
  BY <1>4, <1>6, <1>7, JobsStay

JobAndWizard(d, w, j, z) == [d EXCEPT !.job[j] = z, !.wizard[w].job = j]

LEMMA JobAndWizardTables ==
    ASSUME NEW d, d = Tables(d.partner, d.template, d.delivery, d.wizard, d.job, d.reply, d.run),
           NEW w, NEW j, NEW z
    PROVE  JobAndWizard(d, w, j, z)
             = Tables(d.partner, d.template, d.delivery,
                      [d.wizard EXCEPT ![w] = RequestedRow(d.wizard[w], j)],
                      [d.job EXCEPT ![j] = z], d.reply, d.run)
<1> DEFINE f == [d EXCEPT !.job[j] = z]
           jobs == [d.job EXCEPT ![j] = z]
           wizards == [d.wizard EXCEPT ![w] = RequestedRow(d.wizard[w], j)]
<1>1. JobAndWizard(d, w, j, z) = [f EXCEPT !.wizard[w].job = j]
  BY DEF JobAndWizard
<1>2. f = [d EXCEPT !.job = jobs]
  OBVIOUS
<1> HIDE DEF f, jobs
<1>3. f = Tables(d.partner, d.template, d.delivery, d.wizard, jobs, d.reply, d.run)
  BY <1>2 DEF Tables
<1>4. f.wizard = d.wizard
  BY <1>3 DEF Tables
<1>5. [f EXCEPT !.wizard[w].job = j] = [f EXCEPT !.wizard = wizards]
  BY <1>4 DEF RequestedRow
<1> HIDE DEF wizards
<1>6. [f EXCEPT !.wizard = wizards]
        = Tables(d.partner, d.template, d.delivery, wizards, jobs, d.reply, d.run)
  BY <1>3 DEF Tables
<1>7. QED
  BY <1>1, <1>5, <1>6 DEF jobs, wizards

LEMMA RequestKeeps ==
    ASSUME NEW d, DeliveriesOK(d), NEW e \in RequestApproval(d)
    PROVE  DeliveriesOK(e) /\ Advance(d, e)
<1>1. Shape(d)
  BY DEF DeliveriesOK
<1>2. PICK w \in Exists(d, "wizard"), j \in NewId(d, "job") : e = Requested(d, w, j)
  BY DEF RequestApproval
<1>3. /\ w \in WizardIds /\ d.wizard[w] # NoRow /\ WizardOf(d, d.wizard[w])
      /\ j \in JobIds /\ d.job[j] = NoRow
  <2>1. w \in WizardIds /\ d.wizard[w] # NoRow
    BY <1>1, <1>2, RowsOf
  <2>2. j \in JobIds /\ d.job[j] = NoRow
    BY <1>1, <1>2, NewRows
  <2>3. QED
    BY <2>1, <2>2, WizardsAreOf
<1> DEFINE wiz == d.wizard[w]
           i == wiz.delivery
           x == RequestedRow(wiz, j)
           z == [state |-> "awaiting_approval", delivery |-> i, content |-> wiz.content,
                 version |-> Template(d).version]
           wizards == [d.wizard EXCEPT ![w] = x]
           jobs == [d.job EXCEPT ![j] = z]
           f == Tables(d.partner, d.template, d.delivery, wizards, jobs, d.reply, d.run)
           del == MarkedBy(d, i, "awaiting_approval", j)
<1>4. d = Tables(d.partner, d.template, d.delivery, d.wizard, d.job, d.reply, d.run)
      /\ d.delivery = [k \in DeliveryIds |-> d.delivery[k]]
      /\ d.wizard = [k \in WizardIds |-> d.wizard[k]]
      /\ \A k \in WizardIds : WizardOf(d, d.wizard[k])
  BY WizardsAreOf
<1>5. e = Marked(f, i, "awaiting_approval", j)
  <2>1. JobAndWizard(d, w, j, z) = f
    BY <1>4, JobAndWizardTables
  <2>2. e = Marked(JobAndWizard(d, w, j, z), i, "awaiting_approval", j)
    BY <1>2 DEF Requested, JobAndWizard
  <2>3. QED
    BY <2>1, <2>2
<1>6. /\ x = [state |-> "open", delivery |-> i, content |-> wiz.content,
              preview |-> wiz.preview, job |-> j]
      /\ IsDelivery(d, i)
  BY <1>3, WizardFields DEF WizardOf
<1>7. WizardRow(x) /\ x.delivery = i /\ x.job = j
  BY <1>6 DEF WizardRow
<1>8. JobGoesOn(d, j, z, "awaiting_approval") /\ z.delivery = i
  BY <1>3, <1>6 DEF JobGoesOn, JobRow, JobGrows, NoRow, JobStates, ShownFor
<1> HIDE DEF x, z
<1>9. /\ wizards = [k \in WizardIds |-> wizards[k]] /\ wizards[w] = x
      /\ \A k \in WizardIds \ {w} : wizards[k] = d.wizard[k]
  BY <1>3, <1>4
<1> HIDE DEF wizards
<1>10. \A k \in WizardIds : WizardRow(wizards[k]) /\ (wizards[k] # NoRow =>
          /\ IsDelivery(d, wizards[k].delivery)
          /\ wizards[k].job = j \/ IsJob(d, wizards[k].job))
  BY <1>4, <1>6, <1>7, <1>9 DEF WizardOf
<1>11. /\ f.partner = d.partner /\ f.template = d.template /\ f.delivery = d.delivery
       /\ f.wizard = wizards /\ f.job = jobs /\ f.reply = d.reply /\ f.run = d.run
       /\ f = Tables(f.partner, f.template, f.delivery, f.wizard, f.job, f.reply, f.run)
  BY DEF Tables
<1> HIDE DEF f
<1>12. e = Tables(d.partner, d.template, del, wizards, jobs, d.reply, d.run)
  <2>1. i # None => i \in DeliveryIds
    BY <1>6 DEF IsDelivery
  <2>2. f.delivery = [k \in DeliveryIds |-> f.delivery[k]]
    BY <1>4, <1>11
  <2> HIDE DEF i
  <2>3. Marked(f, i, "awaiting_approval", j)
          = WithDelivery(f, MarkedBy(f, i, "awaiting_approval", j))
    BY <1>11, <2>1, <2>2, MarkedByTables
  <2>4. MarkedBy(f, i, "awaiting_approval", j) = del
    BY <1>11 DEF MarkedBy
  <2>5. QED
    BY <1>5, <1>11, <2>3, <2>4 DEF WithDelivery
<1>13. QED
  BY <1>8, <1>9, <1>10, <1>12, JobPut

-----------------------------------------------------------------------------
(* Staging.  The row of the partner says nothing but that it was written.    *)
Authenticating(d, b) ==
    Tables(Authentication(b), d.template, d.delivery, d.wizard, d.job, d.reply, d.run)

LEMMA AuthenticatingKeeps ==
    ASSUME NEW d, DeliveriesOK(d), NEW b \in BOOLEAN
    PROVE  LET a == Authenticating(d, b) IN
           /\ DeliveriesOK(a) /\ a.partner = Authentication(b)
           /\ a.template = d.template /\ a.delivery = d.delivery /\ a.wizard = d.wizard
           /\ a.job = d.job /\ a.reply = d.reply /\ a.run = d.run
<1> DEFINE a == Authenticating(d, b)
<1>1. /\ a.partner = Authentication(b)
      /\ a.template = d.template /\ a.delivery = d.delivery /\ a.wizard = d.wizard
      /\ a.job = d.job /\ a.reply = d.reply /\ a.run = d.run
      /\ a = Tables(a.partner, a.template, a.delivery, a.wizard, a.job, a.reply, a.run)
  BY DEF Tables, Authenticating
<1>2. /\ Shape(d) /\ References(d) /\ Answers(d) /\ OnceStaged(d) /\ Recorded(d) /\ Shown(d)
  BY DEF DeliveriesOK
<1> HIDE DEF a
<1>3. Shape(a)
  BY <1>1, <1>2 DEF Shape
<1>4. References(a)
  BY <1>1, <1>2 DEF References, IsDelivery, IsJob
<1>5. Answers(a) /\ OnceStaged(a)
  BY <1>1, <1>2 DEF Answers, OnceStaged
<1>6. Recorded(a) /\ Shown(a)
  BY <1>1, <1>2 DEF Recorded, Records, Shown, ShowsJob
<1>7. QED
  BY <1>1, <1>3, <1>4, <1>5, <1>6 DEF a, DeliveriesOK

LEMMA PartnerRow ==
    ASSUME NEW d, Shape(d)
    PROVE  Authenticated(d) = Authenticating(d, TRUE) /\ Settled(d) = Authenticating(d, FALSE)
<1>1. /\ d = Tables(d.partner, d.template, d.delivery, d.wizard, d.job, d.reply, d.run)
      /\ d.partner \in {Authentication(TRUE), Authentication(FALSE)}
  BY DEF Shape
<1>2. PICK c : d.partner = Authentication(c)
  BY <1>1
<1>3. ASSUME NEW b
      PROVE  [d EXCEPT !.partner[1].write_date = b] = Authenticating(d, b)
  <2> DEFINE p == [d.partner EXCEPT ![1].write_date = b]
  <2>1. p = Authentication(b)
    BY <1>2 DEF Authentication
  <2>2. [d EXCEPT !.partner[1].write_date = b] = [d EXCEPT !.partner = p]
    OBVIOUS
  <2> HIDE DEF p
  <2>3. [d EXCEPT !.partner = p]
          = Tables(p, d.template, d.delivery, d.wizard, d.job, d.reply, d.run)
    BY <1>1 DEF Tables
  <2>4. QED
    BY <2>1, <2>2, <2>3 DEF Authenticating
<1>4. QED
  BY <1>3 DEF Authenticated, Settled

(* A delivery is inserted, or gets the key that it had not.                  *)
StagedRow(x, y) ==
    \/ y = x
    \/ /\ DeliveryRow(y) /\ Kept(y) /\ DeliveryGrows(x, y)
       /\ \/ Kept(x) /\ y.state = x.state /\ y.job = x.job
          \/ y.state \notin DOMAIN ShownFor /\ y.job = None

LEMMA StagedKeeps ==
    ASSUME NEW d, DeliveriesOK(d), NEW del, del = [k \in DeliveryIds |-> del[k]],
           \A k \in DeliveryIds : StagedRow(d.delivery[k], del[k]),
           OnceStaged(WithDelivery(d, del))
    PROVE  LET f == WithDelivery(d, del) IN DeliveriesOK(f) /\ Grown(d, f)
<1> DEFINE f == WithDelivery(d, del)
<1>1. Shape(d) /\ References(d) /\ Answers(d) /\ Recorded(d) /\ Shown(d)
  BY DEF DeliveriesOK
<1>2. /\ f.partner = d.partner /\ f.template = d.template /\ f.delivery = del
      /\ f.wizard = d.wizard /\ f.job = d.job /\ f.reply = d.reply /\ f.run = d.run
      /\ f = Tables(f.partner, f.template, f.delivery, f.wizard, f.job, f.reply, f.run)
  BY DEF Tables, WithDelivery
<1> HIDE DEF f
<1>3. \A k \in DeliveryIds : DeliveryRow(del[k]) /\ DeliveryGrows(d.delivery[k], del[k])
  BY <1>1, GrowsAtOnce DEF Shape, StagedRow
<1>4. Shape(f)
  BY <1>1, <1>2, <1>3 DEF Shape
<1>5. Grown(d, f)
  BY <1>2, <1>3, GrowsAtOnce DEF Grown
<1>6. References(f)
  <2>1. \A k \in DeliveryIds : Kept(del[k]) => IsJob(f, del[k].job)
    <3>1. \A k \in DeliveryIds : Kept(d.delivery[k]) => IsJob(f, d.delivery[k].job)
      BY <1>1, <1>5, ReferencesGrow DEF References
    <3>2. IsJob(f, None)
      BY DEF IsJob
    <3>3. QED
      BY <3>1, <3>2 DEF StagedRow
  <2>2. QED
    BY <1>1, <1>2, <1>5, <2>1, ReferencesGrow DEF References
<1>7. Answers(f)
  <2>1. SUFFICES ASSUME NEW r \in ReplyIds, d.reply[r] # NoRow
                 PROVE  LET a == d.reply[r]
                            x == del[a.delivery] IN
                        x # NoRow /\ (Kept(x) => x.key = a.key /\ x.fingerprint = a.request)
    BY <1>2 DEF Answers
  <2>2. d.reply[r].key # NoKey /\ d.reply[r].delivery \in DeliveryIds
    BY <1>1, <2>1 DEF Shape, ReplyRow
  <2>3. LET x == d.delivery[d.reply[r].delivery] IN
        x # NoRow /\ (Kept(x) => x.key = d.reply[r].key /\ x.fingerprint = d.reply[r].request)
    BY <1>1, <2>1 DEF Answers
  <2>4. DeliveryGrows(d.delivery[d.reply[r].delivery], del[d.reply[r].delivery])
    BY <1>3, <2>2
  <2>5. QED
    BY <2>2, <2>3, <2>4 DEF DeliveryGrows, SameKey, Kept
<1>8. Recorded(f)
  BY <1>1, <1>2 DEF Recorded, Records
<1>9. Shown(f)
  <2>1. SUFFICES ASSUME NEW k \in DeliveryIds, Kept(del[k]), del[k].state \in DOMAIN ShownFor
                 PROVE  ShowsJob(f, k, del[k].job, del[k].state)
    BY <1>2 DEF Shown
  <2>2. Kept(d.delivery[k]) /\ del[k].state = d.delivery[k].state
        /\ del[k].job = d.delivery[k].job
    BY <2>1 DEF StagedRow
  <2>3. ShowsJob(d, k, del[k].job, del[k].state)
    BY <1>1, <2>1, <2>2 DEF Shown
  <2>4. QED
    BY <1>2, <2>3 DEF ShowsJob
<1>10. QED
  BY <1>4, <1>5, <1>6, <1>7, <1>8, <1>9 DEF f, DeliveriesOK

LEMMA ReplyKeeps ==
    ASSUME NEW d, DeliveriesOK(d), NEW i \in DeliveryIds, Kept(d.delivery[i]),
           NEW key, NEW request,
           key # NoKey => d.delivery[i].key = key /\ d.delivery[i].fingerprint = request,
           NEW e \in Reply(d, i, key, request)
    PROVE  /\ DeliveriesOK(e) /\ Grown(d, e)
           /\ e.partner = d.partner /\ e.delivery = d.delivery /\ e.job = d.job /\ e.run = d.run
<1>1. Shape(d) /\ References(d) /\ Answers(d) /\ OnceStaged(d) /\ Recorded(d) /\ Shown(d)
  BY DEF DeliveriesOK
<1>2. CASE key = NoKey
  <2>1. e = d
    BY <1>2 DEF Reply
  <2>2. QED
    BY <2>1, GrowsAtOnce DEF Grown
<1>3. CASE key # NoKey
  <2> DEFINE row == [state |-> "sent", delivery |-> i, key |-> key, request |-> request]
  <2>1. PICK r \in NewId(d, "reply") : e = [d EXCEPT !["reply"][r] = row]
    BY <1>3 DEF Reply, Inserted
  <2>2. r \in ReplyIds /\ d.reply[r] = NoRow
    BY <1>1, <2>1, NewRows
  <2>3. /\ row.delivery = i /\ row.key = key /\ row.request = request
        /\ ReplyRow(row) /\ row # NoRow
    BY <1>3 DEF ReplyRow, NoRow
  <2> HIDE DEF row
  <2> DEFINE replies == [d.reply EXCEPT ![r] = row]
  <2>4. d = Tables(d.partner, d.template, d.delivery, d.wizard, d.job, d.reply, d.run)
        /\ d.reply = [k \in ReplyIds |-> d.reply[k]]
        /\ \A k \in ReplyIds : ReplyRow(d.reply[k])
    BY <1>1 DEF Shape
  <2>5. e = Tables(d.partner, d.template, d.delivery, d.wizard, d.job, replies, d.run)
    BY <2>1, <2>4 DEF Tables
  <2>6. /\ replies = [k \in ReplyIds |-> replies[k]] /\ replies[r] = row
        /\ \A k \in ReplyIds \ {r} : replies[k] = d.reply[k]
    BY <2>2, <2>4
  <2> HIDE DEF replies
  <2>7. /\ e.partner = d.partner /\ e.template = d.template /\ e.delivery = d.delivery
        /\ e.wizard = d.wizard /\ e.job = d.job /\ e.reply = replies /\ e.run = d.run
        /\ e = Tables(e.partner, e.template, e.delivery, e.wizard, e.job, e.reply, e.run)
    BY <2>5 DEF Tables
  <2>8. Shape(e)
    <3>1. \A k \in ReplyIds : ReplyRow(replies[k])
      BY <2>3, <2>4, <2>6
    <3>2. QED
      BY <1>1, <2>6, <2>7, <3>1 DEF Shape
  <2>9. References(e) /\ OnceStaged(e)
    BY <1>1, <2>7 DEF References, IsDelivery, IsJob, OnceStaged
  <2>10. Recorded(e) /\ Shown(e)
    BY <1>1, <2>7 DEF Recorded, Records, Shown, ShowsJob
  <2>11. Answers(e)
    BY <1>1, <1>3, <2>3, <2>6, <2>7 DEF Answers, Kept
  <2>12. Grown(d, e)
    BY <2>2, <2>6, <2>7, GrowsAtOnce DEF Grown
  <2>13. QED
    BY <2>7, <2>8, <2>9, <2>10, <2>11, <2>12 DEF DeliveriesOK
<1>4. QED
  BY <1>2, <1>3

(* A delivery takes a key. *)
WithKey(x, key, request) == [x EXCEPT !.key = key, !.fingerprint = request]

LEMMA KeyedRow ==
    ASSUME NEW x, DeliveryRow(x), Kept(x), NEW key, NEW request
    PROVE  WithKey(x, key, request)
             = [state |-> x.state, content |-> x.content, key |-> key, job |-> x.job,
                fingerprint |-> request, left |-> x.left]
<1> DEFINE y == [x EXCEPT !.key = key]
<1>1. x = [state |-> x.state, content |-> x.content, key |-> x.key, job |-> x.job,
           fingerprint |-> x.fingerprint, left |-> x.left]
  BY DEF DeliveryRow
<1>2. y = [state |-> x.state, content |-> x.content, key |-> key, job |-> x.job,
           fingerprint |-> x.fingerprint, left |-> x.left]
  BY <1>1
<1>3. WithKey(x, key, request) = [y EXCEPT !.fingerprint = request]
  BY DEF WithKey
<1> HIDE DEF y
<1>4. QED
  BY <1>2, <1>3

(* A request without a key, with one that is known, or with a new one.       *)
LEMMA StageKeeps ==
    ASSUME NEW d, DeliveriesOK(d), NEW key, NEW request, NEW e \in Stage(d, key, request)
    PROVE  /\ DeliveriesOK(e) /\ Grown(d, e)
           /\ e.partner = d.partner /\ e.job = d.job /\ e.run = d.run
<1>1. Shape(d) /\ OnceStaged(d)
  BY DEF DeliveriesOK
<1>2. /\ d = Tables(d.partner, d.template, d.delivery, d.wizard, d.job, d.reply, d.run)
      /\ d.delivery = [k \in DeliveryIds |-> d.delivery[k]]
      /\ \A k \in DeliveryIds : DeliveryRow(d.delivery[k])
  BY <1>1 DEF Shape
<1>3. Deliveries(d) = {k \in DeliveryIds : Kept(d.delivery[k])}
  BY <1>1, RowsOf
<1>4. SUFFICES \E f, i :
         /\ DeliveriesOK(f) /\ Grown(d, f)
         /\ f.partner = d.partner /\ f.job = d.job /\ f.run = d.run
         /\ i \in DeliveryIds /\ Kept(f.delivery[i])
         /\ key # NoKey => f.delivery[i].key = key /\ f.delivery[i].fingerprint = request
         /\ e \in Reply(f, i, key, request)
  <2>1. PICK f, i :
         /\ DeliveriesOK(f) /\ Grown(d, f)
         /\ f.partner = d.partner /\ f.job = d.job /\ f.run = d.run
         /\ i \in DeliveryIds /\ Kept(f.delivery[i])
         /\ key # NoKey => f.delivery[i].key = key /\ f.delivery[i].fingerprint = request
         /\ e \in Reply(f, i, key, request)
    BY <1>4
  <2>2. /\ DeliveriesOK(e) /\ Grown(f, e)
        /\ e.partner = f.partner /\ e.job = f.job /\ e.run = f.run
    BY <2>1, ReplyKeeps
  <2>3. Grown(d, e)
    BY <2>1, <2>2, GrownTwice
  <2>4. QED
    BY <2>1, <2>2, <2>3
<1>5. Grown(d, d)
  BY GrowsAtOnce DEF Grown
<1>6. ASSUME NEW i \in DeliveryIds, NEW y, StagedRow(d.delivery[i], y), Kept(y),
             NEW f, f = WithDelivery(d, [d.delivery EXCEPT ![i] = y]),
             \A k \in DeliveryIds \ {i} : Kept(d.delivery[k]) =>
                /\ y.key = d.delivery[k].key => y.key = NoKey
                /\ y.content = d.delivery[k].content => y.left \/ d.delivery[k].left
      PROVE  /\ DeliveriesOK(f) /\ Grown(d, f)
             /\ f.partner = d.partner /\ f.job = d.job /\ f.run = d.run /\ f.delivery[i] = y
  <2> DEFINE del == [d.delivery EXCEPT ![i] = y]
  <2>1. /\ del = [k \in DeliveryIds |-> del[k]] /\ del[i] = y
        /\ \A k \in DeliveryIds \ {i} : del[k] = d.delivery[k]
    BY <1>2
  <2>2. f = WithDelivery(d, del)
    BY <1>6
  <2> HIDE DEF del
  <2>3. f.partner = d.partner /\ f.job = d.job /\ f.run = d.run /\ f.delivery = del
    BY <2>2 DEF WithDelivery, Tables
  <2>4. OnceStaged(f)
    <3>1. SUFFICES ASSUME NEW k \in DeliveryIds, NEW l \in DeliveryIds, k # l,
                          Kept(del[k]), Kept(del[l])
                   PROVE  /\ del[k].key = del[l].key => del[k].key = NoKey
                          /\ del[k].content = del[l].content => del[k].left \/ del[l].left
      BY <2>3 DEF OnceStaged
    <3>2. CASE k = i
      BY <1>6, <2>1, <3>1, <3>2
    <3>3. CASE l = i
      BY <1>6, <2>1, <3>1, <3>3
    <3>4. CASE k # i /\ l # i
      BY <1>1, <2>1, <3>1, <3>4 DEF OnceStaged
    <3>5. QED
      BY <3>2, <3>3, <3>4
  <2>5. \A k \in DeliveryIds : StagedRow(d.delivery[k], del[k])
    BY <1>6, <2>1 DEF StagedRow
  <2>6. DeliveriesOK(f) /\ Grown(d, f)
    BY <2>1, <2>2, <2>4, <2>5, StagedKeeps
  <2>7. QED
    BY <2>1, <2>3, <2>6
<1>7. CASE Keyed(d, key) # {}
  <2>1. PICK i \in Keyed(d, key) :
           d.delivery[i].fingerprint = request /\ e \in Reply(d, i, key, request)
    BY <1>7 DEF Stage, Replay
  <2>2. i \in DeliveryIds /\ Kept(d.delivery[i]) /\ d.delivery[i].key = key
    BY <1>3, <2>1 DEF Keyed
  <2>3. QED
    BY <1>5, <2>1, <2>2
<1>8. CASE Keyed(d, key) = {} /\ Duplicates(d, request.content) # {}
  <2>1. PICK i \in Duplicates(d, request.content) :
           Reusable(d, i, key) /\ e \in Reply(Attached(d, i, key, request), i, key, request)
    BY <1>8 DEF Stage, Reuse, Newest
  <2>2. i \in DeliveryIds /\ Kept(d.delivery[i]) /\ DeliveryRow(d.delivery[i])
    BY <1>2, <1>3, <2>1 DEF Duplicates
  <2>3. CASE key = NoKey
    <3>1. Attached(d, i, key, request) = d
      BY <2>3 DEF Attached
    <3>2. QED
      BY <1>5, <2>1, <2>2, <2>3, <3>1
  <2>4. CASE key # NoKey
    <3> DEFINE x == d.delivery[i]
               y == WithKey(x, key, request)
               f == Attached(d, i, key, request)
    <3>1. \A k \in DeliveryIds : Kept(d.delivery[k]) => d.delivery[k].key # key
      BY <1>3, <1>8, <2>4 DEF Keyed
    <3>2. x.key = NoKey
      BY <2>1, <2>2, <2>4, <3>1 DEF Reusable
    <3>3. f = [d EXCEPT !.delivery[i] = y]
      BY <2>4, <3>2 DEF Attached, WithKey
    <3>4. y = [state |-> x.state, content |-> x.content, key |-> key, job |-> x.job,
               fingerprint |-> request, left |-> x.left]
      BY <2>2, KeyedRow
    <3> HIDE DEF y
    <3>5. f = WithDelivery(d, [d.delivery EXCEPT ![i] = y])
      BY <1>2, <3>3 DEF Tables, WithDelivery
    <3>6. /\ y.state = x.state /\ y.content = x.content /\ y.key = key /\ y.job = x.job
          /\ y.fingerprint = request /\ y.left = x.left
          /\ y = [state |-> y.state, content |-> y.content, key |-> y.key, job |-> y.job,
                  fingerprint |-> y.fingerprint, left |-> y.left]
      BY <3>4
    <3>7. Kept(y) /\ DeliveryRow(y)
      BY <2>2, <3>6 DEF Kept, DeliveryRow, NoRow, Purged, ActiveStates, Terminal
    <3>8. StagedRow(x, y)
      BY <2>2, <3>2, <3>6, <3>7 DEF StagedRow, DeliveryGrows, Kept
    <3> HIDE DEF f
    <3>9. \A k \in DeliveryIds \ {i} : Kept(d.delivery[k]) =>
             /\ y.key = d.delivery[k].key => y.key = NoKey
             /\ y.content = d.delivery[k].content => y.left \/ d.delivery[k].left
      BY <1>1, <2>2, <3>1, <3>6 DEF OnceStaged
    <3>10. /\ DeliveriesOK(f) /\ Grown(d, f)
           /\ f.partner = d.partner /\ f.job = d.job /\ f.run = d.run /\ f.delivery[i] = y
      BY <1>6, <2>2, <3>5, <3>7, <3>8, <3>9
    <3>11. e \in Reply(f, i, key, request)
      BY <2>1 DEF f
    <3>12. QED
      BY <2>2, <3>6, <3>7, <3>10, <3>11
  <2>5. QED
    BY <2>3, <2>4
<1>9. CASE Keyed(d, key) = {} /\ Duplicates(d, request.content) = {}
  <2> DEFINE y == NewDelivery(key, request)
             f(i) == [d EXCEPT !.delivery[i] = y]
  <2>1. PICK i \in NewId(d, "delivery") : e \in Reply(f(i), i, key, request)
    BY <1>9 DEF Stage, CreateStaged
  <2>2. i \in DeliveryIds /\ d.delivery[i] = NoRow
    BY <1>1, <2>1, NewRows
  <2>3. /\ y.state = "staged" /\ y.content = request.content /\ y.key = key /\ y.job = None
        /\ key # NoKey => y.fingerprint = request
        /\ Kept(y) /\ DeliveryRow(y)
    BY DEF NewDelivery, Kept, DeliveryRow, NoRow, Purged, ActiveStates
  <2>4. StagedRow(d.delivery[i], y)
    BY <2>2, <2>3 DEF StagedRow, DeliveryGrows, ShownFor, Kept, NoRow, Purged
  <2> HIDE DEF y
  <2>5. f(i) = WithDelivery(d, [d.delivery EXCEPT ![i] = y])
    BY <1>2 DEF Tables, WithDelivery
  <2>6. \A k \in DeliveryIds \ {i} : Kept(d.delivery[k]) =>
           /\ y.key = d.delivery[k].key => y.key = NoKey
           /\ y.content = d.delivery[k].content => y.left \/ d.delivery[k].left
    <3>1. SUFFICES ASSUME NEW k \in DeliveryIds, Kept(d.delivery[k])
                   PROVE  /\ key = d.delivery[k].key => key = NoKey
                          /\ request.content = d.delivery[k].content => d.delivery[k].left
      BY <2>3
    <3>2. k \in Deliveries(d)
      BY <1>3, <3>1
    <3>3. key = d.delivery[k].key => key = NoKey
      BY <1>9, <3>2 DEF Keyed
    <3>4. request.content = d.delivery[k].content => d.delivery[k].state \notin ActiveStates
      BY <1>9, <3>2 DEF Duplicates
    <3>5. QED
      BY <1>2, <3>1, <3>3, <3>4 DEF DeliveryRow
  <2>7. PICK g : g = f(i)
    OBVIOUS
  <2> HIDE DEF f
  <2>8. /\ DeliveriesOK(g) /\ Grown(d, g)
        /\ g.partner = d.partner /\ g.job = d.job /\ g.run = d.run /\ g.delivery[i] = y
    BY <1>6, <2>2, <2>3, <2>4, <2>5, <2>6, <2>7
  <2>9. QED
    BY <2>1, <2>2, <2>3, <2>7, <2>8
<1>10. QED
  BY <1>7, <1>8, <1>9

LEMMA StageRequestKeeps ==
    ASSUME NEW d, DeliveriesOK(d), d.partner = Authentication(FALSE), NEW e \in StageRequest(d)
    PROVE  DeliveriesOK(e) /\ Advance(d, e)
<1>1. Shape(d)
  BY DEF DeliveriesOK
<1>2. PICK key, request : e \in Stage(Authenticated(d), key, request)
  BY DEF StageRequest
<1>3. PICK a : a = Authenticating(d, TRUE)
  OBVIOUS
<1>4. e \in Stage(a, key, request)
  BY <1>1, <1>2, <1>3, PartnerRow
<1>5. /\ DeliveriesOK(a) /\ a.partner = Authentication(TRUE)
      /\ a.template = d.template /\ a.delivery = d.delivery /\ a.wizard = d.wizard
      /\ a.job = d.job /\ a.reply = d.reply /\ a.run = d.run
  BY <1>3, AuthenticatingKeeps
<1>6. /\ DeliveriesOK(e) /\ Grown(a, e)
      /\ e.partner = a.partner /\ e.job = a.job /\ e.run = a.run
  BY <1>4, <1>5, StageKeeps
<1>7. Grown(d, e)
  BY <1>5, <1>6 DEF Grown
<1>8. Tells(d, e)
  BY <1>5, <1>6 DEF Tells
<1>9. e.partner # d.partner
  BY <1>5, <1>6 DEF Authentication
<1>10. QED
  BY <1>6, <1>7, <1>8, <1>9 DEF Advance

-----------------------------------------------------------------------------
(* A live run: its record is the only one of the approved job, which is      *)
(* completed with it.                                                       *)
LEMMA RecordKeeps ==
    ASSUME NEW d, DeliveriesOK(d), NEW n \in RunIds, d.run[n] = NoRow, NEW r, RunRow(r),
           r # NoRow, Records(d, r), \A k \in RunIds : d.run[k] # NoRow => d.run[k].job # r.job,
           NEW e, e = Tables(d.partner, d.template, d.delivery, d.wizard, d.job, d.reply,
                             [d.run EXCEPT ![n] = r])
    PROVE  /\ DeliveriesOK(e) /\ Grown(d, e)
           /\ e.partner = d.partner /\ e.delivery = d.delivery /\ e.job = d.job
           /\ e.reply = d.reply /\ e.run[n] = r
           /\ \A k \in RunIds \ {n} : e.run[k] = d.run[k]
<1> DEFINE runs == [d.run EXCEPT ![n] = r]
<1>1. /\ Shape(d) /\ References(d) /\ Answers(d) /\ OnceStaged(d) /\ Recorded(d) /\ Shown(d)
      /\ d.run = [k \in RunIds |-> d.run[k]] /\ \A k \in RunIds : RunRow(d.run[k])
  BY DEF DeliveriesOK, Shape
<1>2. /\ runs = [k \in RunIds |-> runs[k]] /\ runs[n] = r
      /\ \A k \in RunIds \ {n} : runs[k] = d.run[k]
  BY <1>1
<1> HIDE DEF runs
<1>3. /\ e.partner = d.partner /\ e.template = d.template /\ e.delivery = d.delivery
      /\ e.wizard = d.wizard /\ e.job = d.job /\ e.reply = d.reply /\ e.run = runs
      /\ e = Tables(e.partner, e.template, e.delivery, e.wizard, e.job, e.reply, e.run)
  BY DEF Tables, runs
<1>4. Shape(e)
  <2>1. \A k \in RunIds : RunRow(runs[k])
    BY <1>1, <1>2
  <2>2. QED
    BY <1>1, <1>2, <1>3, <2>1 DEF Shape
<1>5. References(e) /\ Answers(e) /\ OnceStaged(e)
  <2>1. /\ e.delivery = d.delivery /\ e.job = d.job /\ e.wizard = d.wizard
        /\ e.reply = d.reply
    BY <1>3
  <2>2. References(e)
    <3>1. \A i : (IsDelivery(d, i) <=> IsDelivery(e, i)) /\ (IsJob(d, i) <=> IsJob(e, i))
      BY <2>1 DEF IsDelivery, IsJob
    <3>2. QED
      BY <1>1, <2>1, <3>1 DEF References
  <2>3. Answers(e)
    BY <1>1, <2>1 DEF Answers
  <2>4. OnceStaged(e)
    BY <1>1, <2>1 DEF OnceStaged
  <2>5. QED
    BY <2>2, <2>3, <2>4
<1>6. Shown(e)
  BY <1>1, <1>3 DEF Shown, ShowsJob
<1>7. Recorded(e)
  <2>1. \A k \in RunIds : runs[k] # NoRow => Records(e, runs[k])
    <3>1. e.job = d.job
      BY <1>3
    <3>2. \A k \in RunIds : d.run[k] # NoRow => Records(d, d.run[k])
      BY <1>1 DEF Recorded
    <3>3. \A x : Records(d, x) => Records(e, x)
      BY <3>1 DEF Records
    <3>4. QED
      BY <1>2, <3>2, <3>3
  <2>2. \A k, l \in RunIds :
           runs[k] # NoRow /\ runs[l] # NoRow /\ runs[k].job = runs[l].job => k = l
    BY <1>1, <1>2 DEF Recorded
  <2>3. QED
    BY <1>3, <2>1, <2>2 DEF Recorded
<1>8. Grown(d, e)
  BY <1>2, <1>3, GrowsAtOnce DEF Grown
<1>9. QED
  BY <1>2, <1>3, <1>4, <1>5, <1>6, <1>7, <1>8 DEF DeliveriesOK

LEMMA CompletionKeeps ==
    ASSUME NEW d, DeliveriesOK(d), NEW j \in JobIds, d.job[j] # NoRow,
           d.job[j].state = "approved", NEW state \in Done, NEW shown,
           shown \in DOMAIN ShownFor, ShownFor[shown] = state,
           NEW r, RunRow(r), r # NoRow, r.job = j, r.content = d.job[j].content,
           r.version = d.job[j].version,
           NEW f \in Inserted(d, "run", r)
    PROVE  DeliveriesOK(JobMoves(f, j, state, shown)) /\ Advance(d, JobMoves(f, j, state, shown))
<1> DEFINE m == JobMoves(d, j, state, shown)
           z == MovedJob(d.job[j], state)
           jobs == [d.job EXCEPT ![j] = z]
           del == MarkedBy(d, d.job[j].delivery, shown, j)
<1>1. Shape(d) /\ References(d) /\ Recorded(d)
  BY DEF DeliveriesOK
<1>2. Moving(d, j, state, shown)
  BY DEF Moving, JobStates, Done
<1>3. /\ m = Tables(d.partner, d.template, del, d.wizard, jobs, d.reply, d.run)
      /\ DeliveriesOK(m) /\ Advance(d, m) /\ Unstaged(d, m)
      /\ z # NoRow /\ z # d.job[j] /\ z.state = state
      /\ z.content = d.job[j].content /\ z.version = d.job[j].version
  BY <1>2, JobMoved
<1>4. PICK n \in NewId(d, "run") : f = [d EXCEPT !["run"][n] = r]
  BY DEF Inserted
<1>5. n \in RunIds /\ d.run[n] = NoRow
  BY <1>1, <1>4, NewRows
<1>6. /\ d = Tables(d.partner, d.template, d.delivery, d.wizard, d.job, d.reply, d.run)
      /\ d.delivery = [k \in DeliveryIds |-> d.delivery[k]]
      /\ d.job = [k \in JobIds |-> d.job[k]]
  BY <1>1 DEF Shape
<1>7. d.job[j].delivery # None => d.job[j].delivery \in DeliveryIds
  BY <1>1 DEF References, IsDelivery
<1> DEFINE runs == [d.run EXCEPT ![n] = r]
<1>8. f = Tables(d.partner, d.template, d.delivery, d.wizard, d.job, d.reply, runs)
  BY <1>4, <1>6 DEF Tables
<1>9. jobs[j] = z
  BY <1>6
<1> HIDE DEF runs, m, z
<1>10. /\ f.partner = d.partner /\ f.template = d.template /\ f.delivery = d.delivery
       /\ f.wizard = d.wizard /\ f.job = d.job /\ f.reply = d.reply /\ f.run = runs
       /\ f = Tables(f.partner, f.template, f.delivery, f.wizard, f.job, f.reply, f.run)
  BY <1>8 DEF Tables
<1>11. PICK e : e = JobMoves(f, j, state, shown)
  OBVIOUS
<1>12. e = Tables(d.partner, d.template, del, d.wizard, jobs, d.reply, runs)
  <2>1. f.delivery = [k \in DeliveryIds |-> f.delivery[k]]
        /\ (f.job[j].delivery # None => f.job[j].delivery \in DeliveryIds)
    BY <1>6, <1>7, <1>10
  <2>2. e = Tables(f.partner, f.template, MarkedBy(f, f.job[j].delivery, shown, j), f.wizard,
                   [f.job EXCEPT ![j] = MovedJob(f.job[j], state)], f.reply, f.run)
    BY <1>10, <1>11, <2>1, JobMovesTables
  <2>3. MarkedBy(f, f.job[j].delivery, shown, j) = del
    BY <1>10 DEF MarkedBy
  <2>4. [f.job EXCEPT ![j] = MovedJob(f.job[j], state)] = jobs
    BY <1>10 DEF z
  <2>5. QED
    BY <1>10, <2>2, <2>3, <2>4
<1> HIDE DEF jobs, del
<1>13. /\ m.partner = d.partner /\ m.template = d.template /\ m.delivery = del
       /\ m.wizard = d.wizard /\ m.job = jobs /\ m.reply = d.reply /\ m.run = d.run
  BY <1>3 DEF Tables
<1>14. Records(m, r)
  BY <1>3, <1>9, <1>13 DEF Records
<1>15. \A k \in RunIds : d.run[k] # NoRow => d.run[k].job # j
  BY <1>1 DEF Recorded, Records, Done
<1>16. e = Tables(m.partner, m.template, m.delivery, m.wizard, m.job, m.reply,
                  [m.run EXCEPT ![n] = r])
  BY <1>12, <1>13 DEF runs
<1>17. /\ DeliveriesOK(e) /\ Grown(m, e)
       /\ e.partner = m.partner /\ e.delivery = m.delivery /\ e.job = m.job
       /\ e.reply = m.reply /\ e.run[n] = r
       /\ \A k \in RunIds \ {n} : e.run[k] = m.run[k]
  BY <1>3, <1>5, <1>13, <1>14, <1>15, <1>16, RecordKeeps
<1>18. Grown(d, e)
  BY <1>3, <1>17, GrownTwice DEF Advance
<1>19. Tells(d, e)
  <2>1. Tells(d, m)
    BY <1>3 DEF Advance
  <2>2. e.job[j] # d.job[j]
    BY <1>3, <1>9, <1>13, <1>17
  <2>3. QED
    BY <1>13, <1>17, <2>1, <2>2 DEF Tells
<1>20. Unstaged(d, e)
  BY <1>3, <1>13, <1>17 DEF Unstaged
<1>21. QED
  BY <1>11, <1>17, <1>18, <1>19, <1>20 DEF Advance

LEMMA ImportKeeps ==
    ASSUME NEW d, DeliveriesOK(d), NEW e \in Import(d)
    PROVE  DeliveriesOK(e) /\ Advance(d, e)
<1>1. Shape(d)
  BY DEF DeliveriesOK
<1>2. PICK w \in Exists(d, "wizard") : Approved(d, w) /\ e \in Imported(d, w)
  BY DEF Import
<1> DEFINE wiz == d.wizard[w]
           j == wiz.job
           r == [state |-> "committed", content |-> wiz.content,
                 version |-> Template(d).version, job |-> j]
<1>3. \A states : InJobState(d, states) =
         {k \in JobIds : d.job[k] # NoRow /\ d.job[k].state \in states}
  BY <1>1, RowsOf DEF InJobState
<1>4. /\ ShownFor["processed"] = "completed"
      /\ ShownFor["processed_with_errors"] = "completed_with_errors"
      /\ {"processed", "processed_with_errors"} \subseteq DOMAIN ShownFor
      /\ {"completed", "completed_with_errors"} \subseteq Done
      /\ Done \subseteq JobStates /\ "approved" \notin Done
  BY DEF ShownFor, Done, JobStates
<1>5. Advance(d, d)
  BY GrowsAtOnce DEF Advance, Grown, Tells, Unstaged, SameKey
<1>6. CASE ~Template(d).required
  <2>1. Ran(d, wiz) = {d}
    BY <1>6 DEF Ran
  <2>2. CASE j \in InJobState(d, {"approved"})
    <3>1. \/ e = JobMoves(d, j, "completed", "processed")
          \/ e = JobMoves(d, j, "completed_with_errors", "processed_with_errors")
      BY <1>2, <2>1, <2>2 DEF Imported
    <3>2. /\ Moving(d, j, "completed", "processed")
          /\ Moving(d, j, "completed_with_errors", "processed_with_errors")
      BY <1>3, <1>4, <2>2 DEF Moving
    <3>3. ASSUME NEW state, NEW shown, Moving(d, j, state, shown)
          PROVE  /\ DeliveriesOK(JobMoves(d, j, state, shown))
                 /\ Advance(d, JobMoves(d, j, state, shown))
      BY <3>3, JobMoved
    <3>4. QED
      BY <3>1, <3>2, <3>3
  <2>3. CASE j \notin InJobState(d, {"approved"})
    <3>1. e = d
      BY <1>2, <2>1, <2>3 DEF Imported
    <3>2. QED
      BY <1>5, <3>1
  <2>4. QED
    BY <2>2, <2>3
<1>7. CASE Template(d).required
  <2>1. /\ j \in InJobState(d, {"approved"})
        /\ d.job[j].content = wiz.content /\ d.job[j].version = Template(d).version
    BY <1>2, <1>7 DEF Approved
  <2>2. j \in JobIds /\ d.job[j] # NoRow /\ d.job[j].state = "approved"
    BY <1>3, <2>1
  <2>3. Ran(d, wiz) = Inserted(d, "run", r)
    BY <1>7 DEF Ran
  <2>4. PICK f \in Inserted(d, "run", r) :
           \/ e = JobMoves(f, j, "completed", "processed")
           \/ e = JobMoves(f, j, "completed_with_errors", "processed_with_errors")
    BY <1>2, <2>1, <2>3 DEF Imported
  <2>5. /\ r.job = j /\ r.content = d.job[j].content /\ r.version = d.job[j].version
        /\ r # NoRow /\ RunRow(r)
    BY <2>1, <2>2 DEF RunRow, NoRow
  <2> HIDE DEF r, j
  <2>6. ASSUME NEW state \in Done, NEW shown \in DOMAIN ShownFor, ShownFor[shown] = state
        PROVE  /\ DeliveriesOK(JobMoves(f, j, state, shown))
               /\ Advance(d, JobMoves(f, j, state, shown))
    BY <2>2, <2>4, <2>5, <2>6, CompletionKeeps
  <2>7. QED
    BY <1>4, <2>4, <2>6
<1>8. QED
  BY <1>6, <1>7


-----------------------------------------------------------------------------
(* Retention takes finished deliveries away, and what refers to them.        *)
Forgot(x, gone) == IF x # NoRow /\ x.delivery \in gone THEN [x EXCEPT !.delivery = None] ELSE x

LEMMA ForgotRows ==
    ASSUME NEW gone
    PROVE  /\ \A x : JobRow(x) =>
                 LET y == Forgot(x, gone) IN
                 /\ JobRow(y) /\ (x = NoRow <=> y = NoRow)
                 /\ x # NoRow =>
                      /\ y.state = x.state /\ y.content = x.content /\ y.version = x.version
                      /\ y.delivery = IF x.delivery \in gone THEN None ELSE x.delivery
           /\ \A x : WizardRow(x) =>
                 LET y == Forgot(x, gone) IN
                 /\ WizardRow(y) /\ (x = NoRow <=> y = NoRow)
                 /\ x # NoRow =>
                      /\ y.job = x.job
                      /\ y.delivery = IF x.delivery \in gone THEN None ELSE x.delivery
<1>1. ASSUME NEW x, JobRow(x), x # NoRow, x.delivery \in gone
      PROVE  Forgot(x, gone) = [state |-> x.state, delivery |-> None, content |-> x.content,
                                version |-> x.version]
  BY <1>1 DEF JobRow, Forgot
<1>2. ASSUME NEW x, WizardRow(x), x # NoRow, x.delivery \in gone
      PROVE  Forgot(x, gone) = [state |-> "open", delivery |-> None, content |-> x.content,
                                preview |-> x.preview, job |-> x.job]
  BY <1>2 DEF WizardRow, Forgot
<1>3. \A x : x = NoRow \/ x.delivery \notin gone => Forgot(x, gone) = x
  BY DEF Forgot
<1>4. ASSUME NEW x, JobRow(x)
      PROVE  LET y == Forgot(x, gone) IN
             /\ JobRow(y) /\ (x = NoRow <=> y = NoRow)
             /\ x # NoRow =>
                  /\ y.state = x.state /\ y.content = x.content /\ y.version = x.version
                  /\ y.delivery = IF x.delivery \in gone THEN None ELSE x.delivery
  BY <1>1, <1>3, <1>4 DEF JobRow, NoRow
<1>5. ASSUME NEW x, WizardRow(x)
      PROVE  LET y == Forgot(x, gone) IN
             /\ WizardRow(y) /\ (x = NoRow <=> y = NoRow)
             /\ x # NoRow =>
                  /\ y.job = x.job
                  /\ y.delivery = IF x.delivery \in gone THEN None ELSE x.delivery
  BY <1>2, <1>3, <1>5 DEF WizardRow, NoRow
<1>6. QED
  BY <1>4, <1>5

LEMMA PurgeKeeps ==
    ASSUME NEW d, DeliveriesOK(d), NEW e \in Purge(d)
    PROVE  DeliveriesOK(e)
<1>1. /\ Shape(d) /\ References(d) /\ Answers(d) /\ OnceStaged(d) /\ Recorded(d) /\ Shown(d)
  BY DEF DeliveriesOK
<1>2. PICK gone \in SUBSET DeliveryIds :
         /\ \A i \in gone : Kept(d.delivery[i])
         /\ e = [d EXCEPT !.delivery = [i \in DeliveryIds |->
                                           IF i \in gone THEN [state |-> "purged"] ELSE @[i]],
                          !.job = Forget(@, gone), !.wizard = Forget(@, gone)]
  BY <1>1, RowsOf DEF Purge
<1> DEFINE del == [i \in DeliveryIds |-> IF i \in gone THEN Purged ELSE d.delivery[i]]
           jobs == Forget(d.job, gone)
           wiz == Forget(d.wizard, gone)
<1>3. e = Tables(d.partner, d.template, del, wiz, jobs, d.reply, d.run)
  <2>1. e = [d EXCEPT !.delivery = del, !.job = jobs, !.wizard = wiz]
    BY <1>2 DEF Purged
  <2>2. d = Tables(d.partner, d.template, d.delivery, d.wizard, d.job, d.reply, d.run)
    BY <1>1 DEF Shape
  <2> HIDE DEF del, jobs, wiz
  <2>3. QED
    BY <2>1, <2>2 DEF Tables
<1>4. /\ jobs = [j \in JobIds |-> jobs[j]]
      /\ \A j \in JobIds : jobs[j] = Forgot(d.job[j], gone)
  <2>1. DOMAIN d.job = JobIds
    BY <1>1 DEF Shape
  <2>2. QED
    BY <2>1 DEF Forget, Forgot
<1>5. /\ wiz = [w \in WizardIds |-> wiz[w]]
      /\ \A w \in WizardIds : wiz[w] = Forgot(d.wizard[w], gone)
  <2>1. DOMAIN d.wizard = WizardIds
    BY <1>1 DEF Shape
  <2>2. QED
    BY <2>1 DEF Forget, Forgot
<1>6. /\ del = [i \in DeliveryIds |-> del[i]]
      /\ \A i \in DeliveryIds : del[i] = IF i \in gone THEN Purged ELSE d.delivery[i]
  OBVIOUS
<1> HIDE DEF del, jobs, wiz
<1>7. /\ e.partner = d.partner /\ e.template = d.template /\ e.delivery = del
      /\ e.wizard = wiz /\ e.job = jobs /\ e.reply = d.reply /\ e.run = d.run
      /\ e = Tables(e.partner, e.template, e.delivery, e.wizard, e.job, e.reply, e.run)
  BY <1>3 DEF Tables
<1>8. ~Kept(Purged) /\ Purged # NoRow
  BY DEF Kept, Purged, NoRow
<1>9. \A i \in DeliveryIds : Kept(del[i]) <=> Kept(d.delivery[i]) /\ i \notin gone
  BY <1>6, <1>8
<1>10. \A i \in DeliveryIds : i \notin gone => del[i] = d.delivery[i]
  BY <1>6
<1>11. ASSUME NEW j \in JobIds
       PROVE  /\ JobRow(jobs[j]) /\ (d.job[j] = NoRow <=> jobs[j] = NoRow)
              /\ d.job[j] # NoRow =>
                   /\ jobs[j].state = d.job[j].state /\ jobs[j].content = d.job[j].content
                   /\ jobs[j].version = d.job[j].version
                   /\ jobs[j].delivery
                        = IF d.job[j].delivery \in gone THEN None ELSE d.job[j].delivery
  <2>1. JobRow(d.job[j])
    BY <1>1 DEF Shape
  <2>2. QED
    BY <1>4, <2>1, ForgotRows
<1>12. ASSUME NEW w \in WizardIds
       PROVE  /\ WizardRow(wiz[w]) /\ (d.wizard[w] = NoRow <=> wiz[w] = NoRow)
              /\ d.wizard[w] # NoRow =>
                   /\ wiz[w].job = d.wizard[w].job
                   /\ wiz[w].delivery
                        = IF d.wizard[w].delivery \in gone THEN None ELSE d.wizard[w].delivery
  <2>1. WizardRow(d.wizard[w])
    BY <1>1 DEF Shape
  <2>2. QED
    BY <1>5, <2>1, ForgotRows
<1>13. Shape(e)
  <2>1. \A i \in DeliveryIds : DeliveryRow(del[i])
    <3>1. \A i \in DeliveryIds : DeliveryRow(d.delivery[i])
      BY <1>1 DEF Shape
    <3>2. DeliveryRow(Purged)
      BY <1>8 DEF DeliveryRow
    <3>3. QED
      BY <1>6, <3>1, <3>2
  <2>2. /\ d.partner \in {Authentication(TRUE), Authentication(FALSE)}
        /\ d.template = <<d.template[1]>>
        /\ d.template[1] = [version |-> d.template[1].version,
                            required |-> d.template[1].required]
        /\ d.reply = [r \in ReplyIds |-> d.reply[r]]
        /\ d.run = [n \in RunIds |-> d.run[n]]
        /\ \A r \in ReplyIds : ReplyRow(d.reply[r])
        /\ \A n \in RunIds : RunRow(d.run[n])
    BY <1>1 DEF Shape
  <2>3. /\ \A j \in JobIds : JobRow(jobs[j])
        /\ \A w \in WizardIds : WizardRow(wiz[w])
    BY <1>11, <1>12
  <2>4. QED
    BY <1>4, <1>5, <1>6, <1>7, <2>1, <2>2, <2>3 DEF Shape
<1>14. References(e)
  <2>1. \A j : IsJob(d, j) => IsJob(e, j)
    BY <1>7, <1>11 DEF IsJob
  <2>2. \A i : IsDelivery(d, i) /\ i \notin gone => IsDelivery(e, i)
    BY <1>7, <1>9 DEF IsDelivery
  <2>3. IsDelivery(e, None)
    BY DEF IsDelivery
  <2>4. \A i \in DeliveryIds : Kept(del[i]) => IsJob(e, del[i].job)
    BY <1>1, <1>9, <1>10, <2>1 DEF References
  <2>5. \A w \in WizardIds : wiz[w] # NoRow =>
           IsDelivery(e, wiz[w].delivery) /\ IsJob(e, wiz[w].job)
    BY <1>1, <1>12, <2>1, <2>2, <2>3 DEF References
  <2>6. \A j \in JobIds : jobs[j] # NoRow => IsDelivery(e, jobs[j].delivery)
    BY <1>1, <1>11, <2>2, <2>3 DEF References
  <2>7. QED
    BY <1>7, <2>4, <2>5, <2>6 DEF References
<1>15. Answers(e)
  <2>1. SUFFICES ASSUME NEW r \in ReplyIds, d.reply[r] # NoRow
                 PROVE  LET a == d.reply[r]
                            x == del[a.delivery] IN
                        x # NoRow /\ (Kept(x) => x.key = a.key /\ x.fingerprint = a.request)
    BY <1>7 DEF Answers
  <2>2. d.reply[r].delivery \in DeliveryIds
    BY <1>1, <2>1 DEF Shape, ReplyRow
  <2>3. LET a == d.reply[r]
            x == d.delivery[a.delivery] IN
        x # NoRow /\ (Kept(x) => x.key = a.key /\ x.fingerprint = a.request)
    BY <1>1, <2>1 DEF Answers
  <2>4. QED
    BY <1>6, <1>8, <2>2, <2>3
<1>16. OnceStaged(e)
  BY <1>1, <1>7, <1>9, <1>10 DEF OnceStaged
<1>17. Recorded(e)
  <2>1. \A n \in RunIds : d.run[n] # NoRow => d.run[n].job \in JobIds
    BY <1>1 DEF Shape, RunRow
  <2>2. \A n \in RunIds : d.run[n] # NoRow => Records(d, d.run[n])
    BY <1>1 DEF Recorded
  <2>3. \A r : r.job \in JobIds /\ Records(d, r) => Records(e, r)
    BY <1>7, <1>11 DEF Records
  <2>4. QED
    BY <1>1, <1>7, <2>1, <2>2, <2>3 DEF Recorded
<1>18. Shown(e)
  <2>1. SUFFICES ASSUME NEW i \in DeliveryIds, Kept(del[i]), del[i].state \in DOMAIN ShownFor
                 PROVE  ShowsJob(e, i, del[i].job, del[i].state)
    BY <1>7 DEF Shown
  <2>2. i \notin gone /\ del[i] = d.delivery[i]
    BY <1>9, <1>10, <2>1
  <2>3. ShowsJob(d, i, del[i].job, del[i].state)
    BY <1>1, <2>1, <2>2 DEF Shown
  <2>4. QED
    BY <1>7, <1>11, <2>2, <2>3 DEF ShowsJob
<1>19. QED
  BY <1>13, <1>14, <1>15, <1>16, <1>17, <1>18 DEF DeliveriesOK

LEMMA OutcomesKeep ==
    ASSUME NEW d, DeliveriesOK(d), d.partner = Authentication(FALSE),
           NEW c \in Commands, NEW e \in Outcomes(c, d)
    PROVE  DeliveriesOK(e) /\ (c # "purge" => Advance(d, e))
<1>1. CASE c = "stage"
  <2>1. e \in StageRequest(d)
    BY <1>1 DEF Outcomes
  <2>2. QED
    BY <2>1, StageRequestKeeps
<1>2. CASE c = "open"
  <2>1. e \in OpenWizard(d)
    BY <1>2 DEF Outcomes
  <2>2. QED
    BY <2>1, OpenKeeps
<1>3. CASE c = "edit"
  <2>1. e \in EditWizard(d)
    BY <1>3 DEF Outcomes
  <2>2. QED
    BY <2>1, EditKeeps
<1>4. CASE c = "preview"
  <2>1. e \in Preview(d)
    BY <1>4 DEF Outcomes
  <2>2. QED
    BY <2>1, PreviewKeeps
<1>5. CASE c = "request"
  <2>1. e \in RequestApproval(d)
    BY <1>5 DEF Outcomes
  <2>2. QED
    BY <2>1, RequestKeeps
<1>6. CASE c \in {"approve", "reject", "submit"}
  <2>1. e \in Submit(d) \cup Approve(d) \cup ApproveImport(d) \cup Reject(d)
    BY <1>6 DEF Outcomes
  <2>2. QED
    BY <2>1, DecideKeeps
<1>7. CASE c = "import"
  <2>1. e \in Import(d)
    BY <1>7 DEF Outcomes
  <2>2. QED
    BY <2>1, ImportKeeps
<1>8. CASE c = "cancel"
  <2>1. e \in Cancel(d)
    BY <1>8 DEF Outcomes
  <2>2. QED
    BY <2>1, CancelKeeps
<1>9. CASE c = "purge"
  <2>1. e \in Purge(d)
    BY <1>9 DEF Outcomes
  <2>2. QED
    BY <1>9, <2>1, PurgeKeeps
<1>10. CASE c = "template"
  <2>1. e \in ChangeTemplate(d)
    BY <1>10 DEF Outcomes
  <2>2. QED
    BY <2>1, TemplateKeeps
<1>11. QED
  BY <1>1, <1>2, <1>3, <1>4, <1>5, <1>6, <1>7, <1>8, <1>9, <1>10
     DEF Commands, OfOperators, OfOthers

-----------------------------------------------------------------------------
(* Two transactions at once.  What others do after snapshot d, in the rows   *)
(* that they wrote.                                                          *)
Later(d, e, others) ==
    /\ Grown(d, e)
    /\ \A i \in DeliveryIds :
          <<"delivery", i>> \notin others => e.delivery[i] = d.delivery[i]
    /\ \A w \in WizardIds : <<"wizard", w>> \notin others => e.wizard[w] = d.wizard[w]
    /\ \A j \in JobIds : <<"job", j>> \notin others => e.job[j] = d.job[j]
    /\ \A r \in ReplyIds : <<"reply", r>> \notin others => e.reply[r] = d.reply[r]
    /\ \A n \in RunIds : <<"run", n>> \notin others => e.run[n] = d.run[n]
    /\ <<"partner", 1>> \notin others => Unstaged(d, e)
    /\ \A j \in JobIds : e.job[j] # d.job[j] /\ e.job[j].delivery # None =>
          <<"delivery", e.job[j].delivery>> \in others
    /\ \A n \in RunIds : e.run[n] # d.run[n] => <<"job", e.run[n].job>> \in others

(* The slow transaction leads from a good database to a good one, while the  *)
(* database went on from the first.                                          *)
Mine(d, new) == [row \in Written(d, new) |-> new[row[1]][row[2]]]
Idle(d) == DeliveriesOK(d) /\ d.partner = Authentication(FALSE)
Slowly(d, new) ==
    /\ Idle(d) /\ DeliveriesOK(new) /\ Advance(d, new)
    /\ slow = [running |-> TRUE, others |-> slow.others, locked |-> {}, mine |-> Mine(d, new)]
    /\ Later(d, db, slow.others)
SlowOK == slow.running => \E d, new : Slowly(d, new)

(* Row by row: what the slow transaction wrote, or else what is there now.   *)
Chosen(old, new, now) == IF new # old THEN new ELSE now
Joined(d, new, now, m) ==
    /\ m = Tables(m.partner, m.template, m.delivery, m.wizard, m.job, m.reply, m.run)
    /\ m.partner = <<m.partner[1]>>
    /\ m.partner[1] = Chosen(d.partner[1], new.partner[1], now.partner[1])
    /\ m.template = <<m.template[1]>>
    /\ m.template[1] = Chosen(d.template[1], new.template[1], now.template[1])
    /\ m.delivery = [i \in DeliveryIds |->
                        Chosen(d.delivery[i], new.delivery[i], now.delivery[i])]
    /\ m.wizard = [w \in WizardIds |-> Chosen(d.wizard[w], new.wizard[w], now.wizard[w])]
    /\ m.job = [j \in JobIds |-> Chosen(d.job[j], new.job[j], now.job[j])]
    /\ m.reply = [r \in ReplyIds |-> Chosen(d.reply[r], new.reply[r], now.reply[r])]
    /\ m.run = [n \in RunIds |-> Chosen(d.run[n], new.run[n], now.run[n])]

LEMMA WrittenRows ==
    ASSUME NEW d, Shape(d), NEW e
    PROVE  /\ <<"partner", 1>> \in Written(d, e) <=> e.partner[1] # d.partner[1]
           /\ <<"template", 1>> \in Written(d, e) <=> e.template[1] # d.template[1]
           /\ \A i \in DeliveryIds :
                 <<"delivery", i>> \in Written(d, e) <=> e.delivery[i] # d.delivery[i]
           /\ \A w \in WizardIds : <<"wizard", w>> \in Written(d, e) <=> e.wizard[w] # d.wizard[w]
           /\ \A j \in JobIds : <<"job", j>> \in Written(d, e) <=> e.job[j] # d.job[j]
           /\ \A r \in ReplyIds : <<"reply", r>> \in Written(d, e) <=> e.reply[r] # d.reply[r]
           /\ \A n \in RunIds : <<"run", n>> \in Written(d, e) <=> e.run[n] # d.run[n]
<1>1. ASSUME NEW t \in DOMAIN d, NEW i \in DOMAIN d[t]
      PROVE  <<t, i>> \in Written(d, e) <=> e[t][i] # d[t][i]
  BY DEF Written
<1>2. /\ {"partner", "template", "delivery", "wizard", "job", "reply", "run"} \subseteq DOMAIN d
      /\ d["partner"] = d.partner /\ d["template"] = d.template
      /\ d["delivery"] = d.delivery /\ d["wizard"] = d.wizard /\ d["job"] = d.job
      /\ d["reply"] = d.reply /\ d["run"] = d.run
      /\ e["partner"] = e.partner /\ e["template"] = e.template
      /\ e["delivery"] = e.delivery /\ e["wizard"] = e.wizard /\ e["job"] = e.job
      /\ e["reply"] = e.reply /\ e["run"] = e.run
  <2>1. d = Tables(d.partner, d.template, d.delivery, d.wizard, d.job, d.reply, d.run)
    BY DEF Shape
  <2>2. QED
    BY <2>1 DEF Tables
<1>3. /\ DOMAIN d.delivery = DeliveryIds /\ DOMAIN d.wizard = WizardIds
      /\ DOMAIN d.job = JobIds /\ DOMAIN d.reply = ReplyIds /\ DOMAIN d.run = RunIds
  BY DEF Shape
<1>4. 1 \in DOMAIN d.partner /\ 1 \in DOMAIN d.template
  <2>1. d.template = <<d.template[1]>>
    BY DEF Shape
  <2>2. 1 \in DOMAIN d.template
    BY <2>1
  <2>3. d.partner \in {Authentication(TRUE), Authentication(FALSE)}
    BY DEF Shape
  <2>4. 1 \in DOMAIN d.partner
    BY <2>3 DEF Authentication
  <2>5. QED
    BY <2>2, <2>4
<1>5. QED
  BY <1>1, <1>2, <1>3, <1>4

LEMMA PartnerTuple ==
    ASSUME NEW d, Shape(d)
    PROVE  /\ d.partner = <<d.partner[1]>>
           /\ \A b \in BOOLEAN : d.partner[1] = [write_date |-> b]
                                    => d.partner = Authentication(b)
           /\ d.partner[1] \in {[write_date |-> TRUE], [write_date |-> FALSE]}
<1>1. d.partner \in {Authentication(TRUE), Authentication(FALSE)}
  BY DEF Shape
<1>2. QED
  BY <1>1 DEF Authentication

LEMMA MergedRows ==
    ASSUME NEW d, Shape(d), NEW new, Shape(db), slow.mine = Mine(d, new)
    PROVE  Joined(d, new, db, Merged)
<1> DEFINE w == Written(d, new)
           row(t, i) == IF <<t, i>> \in w THEN new[t][i] ELSE db[t][i]
           m == [t \in DOMAIN db |-> [i \in DOMAIN db[t] |-> row(t, i)]]
<1>1. DOMAIN slow.mine = w /\ \A t, i : <<t, i>> \in w => slow.mine[<<t, i>>] = new[t][i]
  BY DEF Mine
<1>2. Merged = m
  BY <1>1 DEF Merged
<1>3. DOMAIN db = {"partner", "template", "delivery", "wizard", "job", "reply", "run"}
  <2>1. db = Tables(db.partner, db.template, db.delivery, db.wizard, db.job, db.reply, db.run)
    BY DEF Shape
  <2>2. QED
    BY <2>1 DEF Tables
<1> HIDE DEF row
<1>4. /\ m = Tables(m.partner, m.template, m.delivery, m.wizard, m.job, m.reply, m.run)
      /\ m.partner = [i \in DOMAIN db.partner |-> row("partner", i)]
      /\ m.template = [i \in DOMAIN db.template |-> row("template", i)]
      /\ m.delivery = [i \in DOMAIN db.delivery |-> row("delivery", i)]
      /\ m.wizard = [i \in DOMAIN db.wizard |-> row("wizard", i)]
      /\ m.job = [i \in DOMAIN db.job |-> row("job", i)]
      /\ m.reply = [i \in DOMAIN db.reply |-> row("reply", i)]
      /\ m.run = [i \in DOMAIN db.run |-> row("run", i)]
  BY <1>3 DEF Tables
<1> HIDE DEF m
<1>5. /\ DOMAIN db.delivery = DeliveryIds /\ DOMAIN db.wizard = WizardIds
      /\ DOMAIN db.job = JobIds /\ DOMAIN db.reply = ReplyIds /\ DOMAIN db.run = RunIds
  BY DEF Shape
<1>6. /\ m.partner = <<m.partner[1]>> /\ m.partner[1] = row("partner", 1)
      /\ m.template = <<m.template[1]>> /\ m.template[1] = row("template", 1)
  <2>1. db.template = <<db.template[1]>>
    BY DEF Shape
  <2>2. db.partner = <<db.partner[1]>>
    BY PartnerTuple
  <2>3. DOMAIN db.partner = 1..1 /\ DOMAIN db.template = 1..1
    BY <2>1, <2>2
  <2>4. QED
    BY <1>4, <2>3
<1>7. /\ row("partner", 1) = Chosen(d.partner[1], new.partner[1], db.partner[1])
      /\ row("template", 1) = Chosen(d.template[1], new.template[1], db.template[1])
      /\ \A i \in DeliveryIds :
            row("delivery", i) = Chosen(d.delivery[i], new.delivery[i], db.delivery[i])
      /\ \A i \in WizardIds :
            row("wizard", i) = Chosen(d.wizard[i], new.wizard[i], db.wizard[i])
      /\ \A i \in JobIds : row("job", i) = Chosen(d.job[i], new.job[i], db.job[i])
      /\ \A i \in ReplyIds : row("reply", i) = Chosen(d.reply[i], new.reply[i], db.reply[i])
      /\ \A i \in RunIds : row("run", i) = Chosen(d.run[i], new.run[i], db.run[i])
  BY WrittenRows DEF row, Chosen
<1>8. QED
  BY <1>2, <1>4, <1>5, <1>6, <1>7 DEF Joined

(* What the other side answered, staged or recorded is still so.             *)
Either(x, y, z, old) == (z = x /\ y = old) \/ (z = y /\ x = old)
Beside(d, a, b, m) ==
    /\ Grown(d, a) /\ Grown(d, b) /\ Grown(a, m) /\ Grown(b, m)
    /\ \A i \in DeliveryIds :
          Either(a.delivery[i], b.delivery[i], m.delivery[i], d.delivery[i])
    /\ \A j \in JobIds : Either(a.job[j], b.job[j], m.job[j], d.job[j])
    /\ \A r \in ReplyIds : Either(a.reply[r], b.reply[r], m.reply[r], d.reply[r])
    /\ \A n \in RunIds : Either(a.run[n], b.run[n], m.run[n], d.run[n])

LEMMA AnswersBeside ==
    ASSUME NEW d, NEW a, NEW b, NEW m, Beside(d, a, b, m), Shape(a), Shape(b),
           Answers(a), Answers(b)
    PROVE  Answers(m)
<1>1. ASSUME NEW e, Shape(e), Answers(e), Grown(e, m), NEW r \in ReplyIds,
             m.reply[r] = e.reply[r], m.reply[r] # NoRow
      PROVE  LET y == m.reply[r]
                 x == m.delivery[y.delivery] IN
             x # NoRow /\ (Kept(x) => x.key = y.key /\ x.fingerprint = y.request)
  <2> DEFINE y == m.reply[r]
             i == y.delivery
  <2>1. i \in DeliveryIds /\ y.key # NoKey
    BY <1>1 DEF Shape, ReplyRow
  <2>2. /\ e.delivery[i] # NoRow
        /\ Kept(e.delivery[i]) =>
              e.delivery[i].key = y.key /\ e.delivery[i].fingerprint = y.request
    BY <1>1 DEF Answers
  <2>3. DeliveryGrows(e.delivery[i], m.delivery[i])
    BY <1>1, <2>1 DEF Grown
  <2> HIDE DEF i, y
  <2>4. m.delivery[i] # NoRow
        /\ (Kept(m.delivery[i]) =>
              m.delivery[i].key = y.key /\ m.delivery[i].fingerprint = y.request)
    BY <2>1, <2>2, <2>3 DEF DeliveryGrows, Kept, SameKey
  <2>5. QED
    BY <2>4 DEF i, y
<1>2. \A r \in ReplyIds : m.reply[r] = a.reply[r] \/ m.reply[r] = b.reply[r]
  BY DEF Beside, Either
<1>3. Grown(a, m) /\ Grown(b, m)
  BY DEF Beside
<1>4. ASSUME NEW r \in ReplyIds, m.reply[r] # NoRow
      PROVE  LET y == m.reply[r]
                 x == m.delivery[y.delivery] IN
             x # NoRow /\ (Kept(x) => x.key = y.key /\ x.fingerprint = y.request)
  <2>1. CASE m.reply[r] = a.reply[r]
    BY <1>1, <1>3, <1>4, <2>1
  <2>2. CASE m.reply[r] = b.reply[r]
    BY <1>1, <1>3, <1>4, <2>2
  <2>3. QED
    BY <1>2, <2>1, <2>2
<1>5. QED
  BY <1>4 DEF Answers

(* Only one of two stages: the other waited for the row of the partner.      *)
LEMMA OnceStagedBeside ==
    ASSUME NEW d, NEW a, NEW b, NEW m, Beside(d, a, b, m), OnceStaged(a), Unstaged(d, b)
    PROVE  OnceStaged(m)
<1>1. ASSUME NEW i \in DeliveryIds, Kept(m.delivery[i])
      PROVE  /\ Kept(a.delivery[i]) /\ a.delivery[i].key = m.delivery[i].key
             /\ a.delivery[i].content = m.delivery[i].content
             /\ a.delivery[i].left => m.delivery[i].left
  <2>1. Either(a.delivery[i], b.delivery[i], m.delivery[i], d.delivery[i])
    BY DEF Beside
  <2>2. DeliveryGrows(d.delivery[i], b.delivery[i])
    BY DEF Beside, Grown
  <2>3. /\ d.delivery[i] = NoRow => b.delivery[i] = NoRow
        /\ Kept(d.delivery[i]) => SameKey(d.delivery[i], b.delivery[i])
    BY DEF Unstaged
  <2>4. CASE m.delivery[i] = a.delivery[i]
    BY <1>1, <2>4
  <2>5. CASE m.delivery[i] = b.delivery[i] /\ a.delivery[i] = d.delivery[i]
    <3>1. Kept(d.delivery[i])
      BY <1>1, <2>2, <2>3, <2>5 DEF Kept, DeliveryGrows
    <3>2. QED
      BY <2>2, <2>3, <2>5, <3>1 DEF DeliveryGrows, SameKey
  <2>6. QED
    BY <2>1, <2>4, <2>5 DEF Either
<1>2. ASSUME NEW i \in DeliveryIds, NEW j \in DeliveryIds, i # j,
             Kept(m.delivery[i]), Kept(m.delivery[j])
      PROVE  LET x == m.delivery[i]
                 y == m.delivery[j] IN
             /\ x.key = y.key => x.key = NoKey
             /\ x.content = y.content => x.left \/ y.left
  <2>1. LET x == a.delivery[i]
            y == a.delivery[j] IN
        /\ x.key = y.key => x.key = NoKey
        /\ x.content = y.content => x.left \/ y.left
    BY <1>1, <1>2 DEF OnceStaged
  <2> DEFINE p == a.delivery[i]
             q == a.delivery[j]
             x == m.delivery[i]
             y == m.delivery[j]
  <2>2. /\ p.key = x.key /\ p.content = x.content /\ (p.left => x.left)
        /\ q.key = y.key /\ q.content = y.content /\ (q.left => y.left)
    BY <1>1, <1>2
  <2>3. /\ p.key = q.key => p.key = NoKey
        /\ p.content = q.content => p.left \/ q.left
    BY <2>1
  <2> HIDE DEF p, q, x, y
  <2>4. /\ x.key = y.key => x.key = NoKey
        /\ x.content = y.content => x.left \/ y.left
    BY <2>2, <2>3
  <2>5. QED
    BY <2>4 DEF x, y
<1>3. QED
  BY <1>2 DEF OnceStaged

LEMMA RecordedBeside ==
    ASSUME NEW d, NEW a, NEW b, NEW m, Beside(d, a, b, m), Shape(a), Shape(b),
           Recorded(a), Recorded(b),
           \A n \in RunIds : a.run[n] # d.run[n] => a.job[a.run[n].job] # d.job[a.run[n].job],
           \A n \in RunIds : b.run[n] # d.run[n] => a.job[b.run[n].job] = d.job[b.run[n].job]
    PROVE  Recorded(m)
<1>1. ASSUME NEW e, Shape(e), Recorded(e), Grown(e, m), NEW n \in RunIds,
             m.run[n] = e.run[n], m.run[n] # NoRow
      PROVE  Records(m, m.run[n]) /\ m.run[n].job \in JobIds
  <2>1. Records(e, m.run[n]) /\ m.run[n].job \in JobIds
    BY <1>1 DEF Recorded, Shape, RunRow
  <2>2. JobGrows(e.job[m.run[n].job], m.job[m.run[n].job])
    BY <1>1, <2>1 DEF Grown
  <2>3. QED
    BY <2>1, <2>2 DEF Records, JobGrows
<1>2. \A n \in RunIds : Either(a.run[n], b.run[n], m.run[n], d.run[n])
  BY DEF Beside
<1>3. Grown(a, m) /\ Grown(b, m)
  BY DEF Beside
<1>4. ASSUME NEW n \in RunIds, m.run[n] # NoRow
      PROVE  Records(m, m.run[n]) /\ m.run[n].job \in JobIds
  <2>1. CASE m.run[n] = a.run[n]
    BY <1>1, <1>3, <1>4, <2>1
  <2>2. CASE m.run[n] = b.run[n]
    BY <1>1, <1>3, <1>4, <2>2
  <2>3. QED
    BY <1>2, <2>1, <2>2 DEF Either
<1>5. ASSUME NEW k \in RunIds, NEW n \in RunIds, m.run[k] # NoRow, m.run[n] # NoRow,
             m.run[k].job = m.run[n].job
      PROVE  k = n
  <2> DEFINE j == m.run[k].job
  <2>1. j \in JobIds /\ j = m.run[n].job
    BY <1>4, <1>5
  <2> HIDE DEF j
  <2>2. \/ m.run[k] = a.run[k] /\ m.run[n] = a.run[n]
        \/ m.run[k] = b.run[k] /\ m.run[n] = b.run[n]
        \/ m.run[k] = a.run[k] /\ a.run[k] # d.run[k] /\ m.run[n] = b.run[n] /\ b.run[n] # d.run[n]
        \/ m.run[k] = b.run[k] /\ b.run[k] # d.run[k] /\ m.run[n] = a.run[n] /\ a.run[n] # d.run[n]
    BY <1>2 DEF Either
  <2>3. CASE m.run[k] = a.run[k] /\ m.run[n] = a.run[n]
    BY <1>5, <2>3 DEF Recorded
  <2>4. CASE m.run[k] = b.run[k] /\ m.run[n] = b.run[n]
    BY <1>5, <2>4 DEF Recorded
  <2>5. CASE /\ m.run[k] = a.run[k] /\ a.run[k] # d.run[k]
             /\ m.run[n] = b.run[n] /\ b.run[n] # d.run[n]
    <3>1. a.job[j] # d.job[j] /\ a.job[j] = d.job[j]
      BY <2>1, <2>5 DEF j
    <3>2. QED
      BY <3>1
  <2>6. CASE /\ m.run[k] = b.run[k] /\ b.run[k] # d.run[k]
             /\ m.run[n] = a.run[n] /\ a.run[n] # d.run[n]
    <3>1. a.job[j] # d.job[j] /\ a.job[j] = d.job[j]
      BY <2>1, <2>6 DEF j
    <3>2. QED
      BY <3>1
  <2>7. QED
    BY <2>2, <2>3, <2>4, <2>5, <2>6
<1>6. QED
  BY <1>4, <1>5 DEF Recorded

LEMMA ShownBeside ==
    ASSUME NEW d, NEW a, NEW b, NEW m, Beside(d, a, b, m), Shown(a), Shown(b),
           \A j \in JobIds : a.job[j] # d.job[j] /\ a.job[j].delivery # None =>
              a.delivery[a.job[j].delivery] # d.delivery[a.job[j].delivery],
           \A j \in JobIds : b.job[j] # d.job[j] /\ b.job[j].delivery # None =>
              a.delivery[b.job[j].delivery] = d.delivery[b.job[j].delivery]
    PROVE  Shown(m)
<1> SUFFICES ASSUME NEW i \in DeliveryIds, Kept(m.delivery[i]),
                    m.delivery[i].state \in DOMAIN ShownFor
             PROVE  ShowsJob(m, i, m.delivery[i].job, m.delivery[i].state)
  BY DEF Shown
<1> DEFINE j == m.delivery[i].job
           state == m.delivery[i].state
<1>1. Either(a.delivery[i], b.delivery[i], m.delivery[i], d.delivery[i]) /\ i # None
  BY IdsAreSome DEF Beside
<1>2. m.delivery[i] = a.delivery[i] => ShowsJob(a, i, j, state)
  BY DEF Shown
<1>3. m.delivery[i] = b.delivery[i] => ShowsJob(b, i, j, state)
  BY DEF Shown
<1> HIDE DEF j, state
<1>4. j \in JobIds =>
        /\ Either(a.job[j], b.job[j], m.job[j], d.job[j])
        /\ JobGrows(d.job[j], a.job[j]) /\ JobGrows(d.job[j], b.job[j])
  BY DEF Beside, Grown
<1>5. CASE m.delivery[i] = b.delivery[i] /\ a.delivery[i] = d.delivery[i]
  <2>1. j \in JobIds /\ b.job[j] # NoRow /\ b.job[j].delivery = i /\ ShowsJob(b, i, j, state)
    BY <1>3, <1>5 DEF ShowsJob
  <2>2. a.job[j] # d.job[j] => b.job[j] = d.job[j]
    BY <1>4, <2>1 DEF Either
  <2>3. a.job[j] = d.job[j]
    <3>1. SUFFICES ASSUME a.job[j] # d.job[j] PROVE FALSE
      OBVIOUS
    <3>2. a.job[j].delivery = i
      BY <1>4, <2>1, <2>2, <3>1 DEF JobGrows
    <3>3. QED
      BY <1>1, <1>5, <2>1, <3>1, <3>2
  <2>4. m.job[j] = b.job[j]
    BY <1>4, <2>1, <2>3 DEF Either
  <2>5. ShowsJob(m, i, j, state)
    BY <2>1, <2>4 DEF ShowsJob
  <2>6. QED
    BY <2>5 DEF j, state
<1>6. CASE m.delivery[i] = a.delivery[i] /\ b.delivery[i] = d.delivery[i]
  <2>1. j \in JobIds /\ a.job[j] # NoRow /\ a.job[j].delivery = i /\ ShowsJob(a, i, j, state)
    BY <1>2, <1>6 DEF ShowsJob
  <2>2. CASE m.job[j] = a.job[j]
    <3>1. ShowsJob(m, i, j, state)
      BY <2>1, <2>2 DEF ShowsJob
    <3>2. QED
      BY <3>1 DEF j, state
  <2>3. CASE m.job[j] = b.job[j] /\ a.job[j] = d.job[j] /\ b.job[j] # d.job[j]
    <3>1. b.job[j].delivery = i
      BY <1>4, <2>1, <2>3 DEF JobGrows
    <3>2. a.delivery[i] = d.delivery[i]
      BY <1>1, <2>1, <2>3, <3>1
    <3>3. ShowsJob(b, i, j, state)
      BY <1>3, <1>6, <3>2
    <3>4. ShowsJob(m, i, j, state)
      BY <2>3, <3>3 DEF ShowsJob
    <3>5. QED
      BY <3>4 DEF j, state
  <2>4. QED
    BY <1>4, <2>1, <2>2, <2>3 DEF Either
<1>7. QED
  BY <1>1, <1>5, <1>6 DEF Either

(* The slow transaction and the others, each from the same snapshot and      *)
(* without a row that both wrote, leave a good database behind together.     *)
LEMMA JoinedBeside ==
    ASSUME NEW d, NEW new, NEW now, Shape(d), Grown(d, new),
           NEW others, Later(d, now, others), Written(d, new) \cap others = {},
           NEW m, Joined(d, new, now, m)
    PROVE  Beside(d, new, now, m) /\ Beside(d, now, new, m)
<1>1. /\ \A i \in DeliveryIds :
            Either(new.delivery[i], now.delivery[i], m.delivery[i], d.delivery[i])
      /\ \A j \in JobIds : Either(new.job[j], now.job[j], m.job[j], d.job[j])
      /\ \A r \in ReplyIds : Either(new.reply[r], now.reply[r], m.reply[r], d.reply[r])
      /\ \A n \in RunIds : Either(new.run[n], now.run[n], m.run[n], d.run[n])
  <2>1. /\ \A i \in DeliveryIds :
              new.delivery[i] # d.delivery[i] => now.delivery[i] = d.delivery[i]
        /\ \A j \in JobIds : new.job[j] # d.job[j] => now.job[j] = d.job[j]
        /\ \A r \in ReplyIds : new.reply[r] # d.reply[r] => now.reply[r] = d.reply[r]
        /\ \A n \in RunIds : new.run[n] # d.run[n] => now.run[n] = d.run[n]
    BY WrittenRows DEF Later
  <2>2. /\ \A i \in DeliveryIds :
              m.delivery[i] = Chosen(d.delivery[i], new.delivery[i], now.delivery[i])
        /\ \A j \in JobIds : m.job[j] = Chosen(d.job[j], new.job[j], now.job[j])
        /\ \A r \in ReplyIds : m.reply[r] = Chosen(d.reply[r], new.reply[r], now.reply[r])
        /\ \A n \in RunIds : m.run[n] = Chosen(d.run[n], new.run[n], now.run[n])
    BY DEF Joined
  <2>3. QED
    BY <2>1, <2>2 DEF Chosen, Either
<1>2. \A x, y, z, old : Either(x, y, z, old) => Either(y, x, z, old)
  BY DEF Either
<1>3. Grown(d, now)
  BY DEF Later
<1>4. Grown(new, m)
  <2>1. \A i \in DeliveryIds : DeliveryGrows(new.delivery[i], m.delivery[i])
    BY <1>1, <1>3, GrowsAtOnce DEF Either, Grown
  <2>2. \A j \in JobIds : JobGrows(new.job[j], m.job[j])
    BY <1>1, <1>3, GrowsAtOnce DEF Either, Grown
  <2>3. \A r \in ReplyIds : new.reply[r] # NoRow => m.reply[r] = new.reply[r]
    BY <1>1, <1>3 DEF Either, Grown
  <2>4. \A n \in RunIds : new.run[n] # NoRow => m.run[n] = new.run[n]
    BY <1>1, <1>3 DEF Either, Grown
  <2>5. QED
    BY <2>1, <2>2, <2>3, <2>4 DEF Grown
<1>5. Grown(now, m)
  <2>1. \A i \in DeliveryIds : DeliveryGrows(now.delivery[i], m.delivery[i])
    BY <1>1, GrowsAtOnce DEF Either, Grown
  <2>2. \A j \in JobIds : JobGrows(now.job[j], m.job[j])
    BY <1>1, GrowsAtOnce DEF Either, Grown
  <2>3. \A r \in ReplyIds : now.reply[r] # NoRow => m.reply[r] = now.reply[r]
    BY <1>1 DEF Either, Grown
  <2>4. \A n \in RunIds : now.run[n] # NoRow => m.run[n] = now.run[n]
    BY <1>1 DEF Either, Grown
  <2>5. QED
    BY <2>1, <2>2, <2>3, <2>4 DEF Grown
<1>6. QED
  BY <1>1, <1>2, <1>3, <1>4, <1>5 DEF Beside

LEMMA JoinedShape ==
    ASSUME NEW d, NEW new, NEW now, Shape(d), Shape(new), Shape(now),
           NEW m, Joined(d, new, now, m)
    PROVE  Shape(m)
<1>1. /\ \A i \in DeliveryIds : DeliveryRow(new.delivery[i]) /\ DeliveryRow(now.delivery[i])
      /\ \A w \in WizardIds : WizardRow(new.wizard[w]) /\ WizardRow(now.wizard[w])
      /\ \A j \in JobIds : JobRow(new.job[j]) /\ JobRow(now.job[j])
      /\ \A r \in ReplyIds : ReplyRow(new.reply[r]) /\ ReplyRow(now.reply[r])
      /\ \A n \in RunIds : RunRow(new.run[n]) /\ RunRow(now.run[n])
      /\ TemplateRow(new.template[1]) /\ TemplateRow(now.template[1])
  BY DEF Shape, TemplateRow
<1>2. /\ m = Tables(m.partner, m.template, m.delivery, m.wizard, m.job, m.reply, m.run)
      /\ m.template = <<m.template[1]>>
      /\ m.delivery = [i \in DeliveryIds |-> m.delivery[i]]
      /\ m.wizard = [w \in WizardIds |-> m.wizard[w]] /\ m.job = [j \in JobIds |-> m.job[j]]
      /\ m.reply = [r \in ReplyIds |-> m.reply[r]] /\ m.run = [n \in RunIds |-> m.run[n]]
  BY DEF Joined
<1>3. \A i \in DeliveryIds : DeliveryRow(m.delivery[i])
  BY <1>1 DEF Joined, Chosen
<1>4. \A w \in WizardIds : WizardRow(m.wizard[w])
  BY <1>1 DEF Joined, Chosen
<1>5. \A j \in JobIds : JobRow(m.job[j])
  BY <1>1 DEF Joined, Chosen
<1>6. \A r \in ReplyIds : ReplyRow(m.reply[r])
  BY <1>1 DEF Joined, Chosen
<1>7. \A n \in RunIds : RunRow(m.run[n])
  BY <1>1 DEF Joined, Chosen
<1>8. m.template[1] = [version |-> m.template[1].version, required |-> m.template[1].required]
  <2>1. m.template[1] = new.template[1] \/ m.template[1] = now.template[1]
    BY DEF Joined, Chosen
  <2>2. QED
    BY <1>1, <2>1 DEF TemplateRow
<1>9. m.partner \in {Authentication(TRUE), Authentication(FALSE)}
  <2>1. /\ new.partner[1] \in {[write_date |-> TRUE], [write_date |-> FALSE]}
        /\ now.partner[1] \in {[write_date |-> TRUE], [write_date |-> FALSE]}
    BY PartnerTuple
  <2>2. m.partner = <<m.partner[1]>>
        /\ (m.partner[1] = new.partner[1] \/ m.partner[1] = now.partner[1])
    BY DEF Joined, Chosen
  <2>3. QED
    BY <2>1, <2>2 DEF Authentication
<1>10. QED
  BY <1>2, <1>3, <1>4, <1>5, <1>6, <1>7, <1>8, <1>9 DEF Shape

LEMMA JoinedKeeps ==
    ASSUME NEW d, NEW new, NEW now, DeliveriesOK(d), DeliveriesOK(new), DeliveriesOK(now),
           Advance(d, new),
           NEW others, Later(d, now, others), Written(d, new) \cap others = {},
           NEW m, Joined(d, new, now, m)
    PROVE  DeliveriesOK(m)
<1>1. /\ Shape(d) /\ Shape(new) /\ Shape(now)
      /\ Answers(new) /\ Answers(now) /\ OnceStaged(new) /\ OnceStaged(now)
      /\ Recorded(new) /\ Recorded(now) /\ Shown(new) /\ Shown(now)
      /\ References(new) /\ References(now)
  BY DEF DeliveriesOK
<1>2. Beside(d, new, now, m) /\ Beside(d, now, new, m)
  BY <1>1, JoinedBeside DEF Advance
<1>3. Shape(m)
  BY <1>1, JoinedShape
<1>4. References(m)
  <2>1. /\ \A i : IsDelivery(new, i) \/ IsDelivery(now, i) => IsDelivery(m, i)
        /\ \A j : IsJob(new, j) \/ IsJob(now, j) => IsJob(m, j)
    BY <1>2, ReferencesGrow DEF Beside
  <2>2. /\ \A i \in DeliveryIds :
              m.delivery[i] = new.delivery[i] \/ m.delivery[i] = now.delivery[i]
        /\ \A j \in JobIds : m.job[j] = new.job[j] \/ m.job[j] = now.job[j]
        /\ \A w \in WizardIds : m.wizard[w] = new.wizard[w] \/ m.wizard[w] = now.wizard[w]
    BY DEF Joined, Chosen
  <2>3. \A i \in DeliveryIds : Kept(m.delivery[i]) => IsJob(m, m.delivery[i].job)
    BY <1>1, <2>1, <2>2 DEF References
  <2>4. \A w \in WizardIds : m.wizard[w] # NoRow =>
           IsDelivery(m, m.wizard[w].delivery) /\ IsJob(m, m.wizard[w].job)
    BY <1>1, <2>1, <2>2 DEF References
  <2>5. \A j \in JobIds : m.job[j] # NoRow => IsDelivery(m, m.job[j].delivery)
    BY <1>1, <2>1, <2>2 DEF References
  <2>6. QED
    BY <2>3, <2>4, <2>5 DEF References
<1>5. Answers(m)
  BY <1>1, <1>2, AnswersBeside
<1>6. OnceStaged(m)
  <2>1. Unstaged(d, new) \/ Unstaged(d, now)
    <3>1. CASE new.partner = d.partner
      BY <3>1 DEF Advance
    <3>2. CASE new.partner # d.partner
      <4>1. new.partner[1] # d.partner[1]
        BY <1>1, <3>2, PartnerTuple
      <4>2. <<"partner", 1>> \notin others
        BY <1>1, <4>1, WrittenRows
      <4>3. QED
        BY <4>2 DEF Later
    <3>3. QED
      BY <3>1, <3>2
  <2>2. QED
    BY <1>1, <1>2, <2>1, OnceStagedBeside
<1>7. Recorded(m)
  <2>1. \A n \in RunIds :
           new.run[n] # d.run[n] => new.job[new.run[n].job] # d.job[new.run[n].job]
    BY DEF Advance, Tells
  <2>2. ASSUME NEW n \in RunIds, now.run[n] # d.run[n]
        PROVE  new.job[now.run[n].job] = d.job[now.run[n].job]
    <3>1. <<"job", now.run[n].job>> \in others
      BY <2>2 DEF Later
    <3>2. now.run[n] # NoRow
      BY <2>2 DEF Later, Grown
    <3>3. now.run[n].job \in JobIds
      BY <1>1, <3>2 DEF Shape, RunRow
    <3>4. QED
      BY <1>1, <3>1, <3>3, WrittenRows
  <2>3. QED
    BY <1>1, <1>2, <2>1, <2>2, RecordedBeside
<1>8. Shown(m)
  <2>1. \A j \in JobIds : new.job[j] # d.job[j] /\ new.job[j].delivery # None =>
           new.delivery[new.job[j].delivery] # d.delivery[new.job[j].delivery]
    BY DEF Advance, Tells
  <2>2. ASSUME NEW j \in JobIds, now.job[j] # d.job[j], now.job[j].delivery # None
        PROVE  new.delivery[now.job[j].delivery] = d.delivery[now.job[j].delivery]
    <3>1. <<"delivery", now.job[j].delivery>> \in others
      BY <2>2 DEF Later
    <3>2. now.job[j] # NoRow
      BY <2>2 DEF Later, Grown, JobGrows
    <3>3. now.job[j].delivery \in DeliveryIds
      BY <1>1, <2>2, <3>2 DEF References, IsDelivery
    <3>4. QED
      BY <1>1, <3>1, <3>3, WrittenRows
  <2>3. QED
    BY <1>2, <1>1, <2>1, <2>2, ShownBeside
<1>9. QED
  BY <1>3, <1>4, <1>5, <1>6, <1>7, <1>8 DEF DeliveriesOK

LEMMA UnstagedTwice ==
    ASSUME NEW d, NEW now, NEW e, Grown(d, now), Unstaged(d, now), Unstaged(now, e)
    PROVE  Unstaged(d, e)
  BY DEF Unstaged, Grown, DeliveryGrows, Kept, SameKey

(* One more of the others commits. *)
LEMMA LaterStill ==
    ASSUME NEW d, NEW now, NEW e, DeliveriesOK(d), DeliveriesOK(now), DeliveriesOK(e),
           NEW others, Later(d, now, others), Advance(now, e)
    PROVE  Later(d, e, others \cup Written(now, e))
<1> DEFINE o == others \cup Written(now, e)
<1>1. Shape(now) /\ Shape(e) /\ References(e)
  BY DEF DeliveriesOK
<1>2. Grown(d, now) /\ Grown(now, e) /\ Tells(now, e)
      /\ (e.partner = now.partner => Unstaged(now, e))
  BY DEF Later, Advance
<1>3. Grown(d, e)
  BY <1>2, GrownTwice
<1>4. /\ \A i \in DeliveryIds : <<"delivery", i>> \notin o => e.delivery[i] = d.delivery[i]
      /\ \A w \in WizardIds : <<"wizard", w>> \notin o => e.wizard[w] = d.wizard[w]
      /\ \A j \in JobIds : <<"job", j>> \notin o => e.job[j] = d.job[j]
      /\ \A r \in ReplyIds : <<"reply", r>> \notin o => e.reply[r] = d.reply[r]
      /\ \A n \in RunIds : <<"run", n>> \notin o => e.run[n] = d.run[n]
  BY <1>1, WrittenRows DEF Later
<1>5. <<"partner", 1>> \notin o => Unstaged(d, e)
  <2>1. SUFFICES ASSUME <<"partner", 1>> \notin others, <<"partner", 1>> \notin Written(now, e)
                 PROVE  Unstaged(d, e)
    OBVIOUS
  <2>2. e.partner[1] = now.partner[1]
    BY <1>1, <2>1, WrittenRows
  <2>3. e.partner = now.partner
    BY <1>1, <2>2, PartnerTuple
  <2>4. Unstaged(d, now)
    BY <2>1 DEF Later
  <2>5. QED
    BY <1>2, <2>3, <2>4, UnstagedTwice
<1>6. ASSUME NEW j \in JobIds, e.job[j] # d.job[j], e.job[j].delivery # None
      PROVE  <<"delivery", e.job[j].delivery>> \in o
  <2>1. e.job[j] # NoRow
    BY <1>3, <1>6 DEF Grown, JobGrows
  <2>2. e.job[j].delivery \in DeliveryIds
    BY <1>1, <1>6, <2>1 DEF References, IsDelivery
  <2>3. CASE e.job[j] = now.job[j]
    BY <1>6, <2>3 DEF Later
  <2>4. CASE e.job[j] # now.job[j]
    BY <1>1, <1>2, <1>6, <2>2, <2>4, WrittenRows DEF Tells
  <2>5. QED
    BY <2>3, <2>4
<1>7. ASSUME NEW n \in RunIds, e.run[n] # d.run[n]
      PROVE  <<"job", e.run[n].job>> \in o
  <2>1. e.run[n] # NoRow
    BY <1>3, <1>7 DEF Grown
  <2>2. e.run[n].job \in JobIds
    BY <1>1, <2>1 DEF Shape, RunRow
  <2>3. CASE e.run[n] = now.run[n]
    BY <1>7, <2>3 DEF Later
  <2>4. CASE e.run[n] # now.run[n]
    BY <1>1, <1>2, <2>2, <2>4, WrittenRows DEF Tells
  <2>5. QED
    BY <2>3, <2>4
<1> HIDE DEF o
<1>8. Later(d, e, o)
  BY <1>3, <1>4, <1>5, <1>6, <1>7 DEF Later
<1>9. QED
  BY <1>8 DEF o

LEMMA LaterAtOnce ==
    ASSUME NEW d
    PROVE  Later(d, d, {})
<1>1. Grown(d, d)
  BY GrowsAtOnce DEF Grown
<1>2. Unstaged(d, d)
  BY DEF Unstaged, SameKey
<1>3. QED
  BY <1>1, <1>2 DEF Later

(* What is kept of a commit: everything but the row of the partner.          *)
LEMMA SettledKeeps ==
    ASSUME NEW d, DeliveriesOK(d)
    PROVE  /\ Idle(Settled(d))
           /\ \A b, others : Later(b, d, others) => Later(b, Settled(d), others)
<1>1. PICK e : e = Settled(d)
  OBVIOUS
<1>2. e = Authenticating(d, FALSE)
  BY <1>1, PartnerRow DEF DeliveriesOK
<1>3. /\ DeliveriesOK(e) /\ e.partner = Authentication(FALSE)
      /\ e.delivery = d.delivery /\ e.wizard = d.wizard /\ e.job = d.job
      /\ e.reply = d.reply /\ e.run = d.run
  BY <1>2, AuthenticatingKeeps
<1>4. ASSUME NEW b, NEW others, Later(b, d, others)
      PROVE  Later(b, e, others)
  <2>1. Grown(b, e) /\ (Unstaged(b, d) => Unstaged(b, e))
    BY <1>3, <1>4 DEF Later, Grown, Unstaged
  <2>2. QED
    BY <1>3, <1>4, <2>1 DEF Later
<1>5. QED
  BY <1>1, <1>3, <1>4 DEF Idle

-----------------------------------------------------------------------------
(* The invariant, action by action. *)
DeliveryInv == Idle(db) /\ SlowOK

LEMMA InitDeliveries == Init => DeliveryInv
<1> SUFFICES ASSUME Init PROVE DeliveryInv
  OBVIOUS
<1> DEFINE none(S) == [i \in S |-> NoRow]
           template == [version |-> 1, required |-> TRUE]
<1>1. /\ db = Tables(Authentication(FALSE), <<template>>, none(DeliveryIds), none(WizardIds),
                     none(JobIds), none(ReplyIds), none(RunIds))
      /\ slow = NoTransaction
  BY DEF Init, Tables, Authentication
<1>2. \A S : none(S) = [i \in S |-> none(S)[i]] /\ \A i \in S : none(S)[i] = NoRow
  OBVIOUS
<1>3. template = [version |-> template.version, required |-> template.required]
  OBVIOUS
<1> HIDE DEF none, template
<1>4. /\ db.partner = Authentication(FALSE) /\ db.template = <<template>>
      /\ db.delivery = none(DeliveryIds) /\ db.wizard = none(WizardIds)
      /\ db.job = none(JobIds) /\ db.reply = none(ReplyIds) /\ db.run = none(RunIds)
      /\ db = Tables(db.partner, db.template, db.delivery, db.wizard, db.job, db.reply, db.run)
  BY <1>1 DEF Tables
<1>5. /\ DeliveryRow(NoRow) /\ WizardRow(NoRow) /\ JobRow(NoRow) /\ ReplyRow(NoRow)
      /\ RunRow(NoRow) /\ ~Kept(NoRow)
  BY DEF DeliveryRow, WizardRow, JobRow, ReplyRow, RunRow, Kept
<1>6. Shape(db)
  <2>1. db.template = <<db.template[1]>> /\ db.template[1] = template
    BY <1>4
  <2>2. QED
    BY <1>2, <1>3, <1>4, <1>5, <2>1 DEF Shape
<1>7. References(db) /\ Answers(db) /\ OnceStaged(db) /\ Recorded(db) /\ Shown(db)
  <2>1. \A i \in DeliveryIds : ~Kept(db.delivery[i])
    BY <1>2, <1>4, <1>5
  <2>2. /\ \A w \in WizardIds : db.wizard[w] = NoRow
        /\ \A j \in JobIds : db.job[j] = NoRow
        /\ \A r \in ReplyIds : db.reply[r] = NoRow
        /\ \A n \in RunIds : db.run[n] = NoRow
    BY <1>2, <1>4
  <2>3. QED
    BY <2>1, <2>2 DEF References, Answers, OnceStaged, Recorded, Shown
<1>8. SlowOK
  BY <1>1 DEF SlowOK, NoTransaction
<1>9. QED
  BY <1>4, <1>6, <1>7, <1>8 DEF DeliveryInv, Idle, DeliveriesOK

(* A command that commits at once, alone or beside the slow transaction.     *)
LEMMA RunKeeps ==
    ASSUME DeliveryInv, NEW c \in Commands, Run(c)
    PROVE  DeliveryInv'
<1>1. PICK e \in Outcomes(c, db) :
        /\ db' = Settled(e)
        /\ slow' = IF slow.running THEN [slow EXCEPT !.others = @ \cup Written(db, e)] ELSE slow
  BY DEF Run, CommitSettled
<1>2. slow.running => c # "purge"
  BY OverlapAssumption DEF Run
<1>3. /\ DeliveriesOK(db) /\ db.partner = Authentication(FALSE) /\ SlowOK
  BY DEF DeliveryInv, Idle
<1>4. DeliveriesOK(e) /\ (c # "purge" => Advance(db, e))
  BY <1>3, OutcomesKeep
<1>5. PICK f : f = Settled(e)
  OBVIOUS
<1>6. Idle(f) /\ \A b, others : Later(b, e, others) => Later(b, f, others)
  BY <1>4, <1>5, SettledKeeps
<1>7. SlowOK'
  <2>1. CASE ~slow.running
    BY <1>1, <2>1 DEF SlowOK
  <2>2. CASE slow.running
    <3>1. PICK d, new : Slowly(d, new)
      BY <1>3, <2>2 DEF SlowOK
    <3>2. /\ Idle(d) /\ DeliveriesOK(d) /\ DeliveriesOK(new) /\ Advance(d, new)
          /\ slow = [running |-> TRUE, others |-> slow.others, locked |-> {},
                     mine |-> Mine(d, new)]
          /\ Later(d, db, slow.others)
      BY <3>1 DEF Slowly, Idle
    <3>3. Later(d, e, slow.others \cup Written(db, e))
      BY <1>2, <1>3, <1>4, <2>2, <3>2, LaterStill
    <3>4. slow' = [running |-> TRUE, others |-> slow.others \cup Written(db, e), locked |-> {},
                   mine |-> Mine(d, new)]
      <4> DEFINE before == slow.others
                 after == before \cup Written(db, e)
                 mine == Mine(d, new)
      <4>1. slow = [running |-> TRUE, others |-> before, locked |-> {}, mine |-> mine]
        BY <3>2
      <4>2. slow' = [slow EXCEPT !.others = after]
        BY <1>1, <2>2
      <4> HIDE DEF before, after, mine
      <4>3. slow' = [running |-> TRUE, others |-> after, locked |-> {}, mine |-> mine]
        BY <4>1, <4>2
      <4>4. QED
        BY <4>3 DEF before, after, mine
    <3>5. slow'.others = slow.others \cup Written(db, e)
      BY <3>4
    <3>6. Later(d, f, slow'.others) /\ db' = f
      BY <1>1, <1>5, <1>6, <3>3, <3>5
    <3>7. Slowly(d, new)'
      BY <3>2, <3>4, <3>5, <3>6 DEF Slowly
    <3>8. QED
      BY <3>7 DEF SlowOK
  <2>3. QED
    BY <2>1, <2>2
<1>8. Idle(db)'
  BY <1>1, <1>5, <1>6
<1>9. QED
  BY <1>7, <1>8 DEF DeliveryInv

LEMMA RunSlowlyKeeps ==
    ASSUME DeliveryInv, NEW c \in Commands, RunSlowly(c)
    PROVE  DeliveryInv'
<1>1. PICK new \in Outcomes(c, db) :
        slow' = [running |-> TRUE, others |-> {}, locked |-> {}, mine |-> Mine(db, new)]
  BY DEF RunSlowly, Begin, BeginLocking, Mine
<1>2. db' = db /\ c # "purge"
  BY OverlapAssumption DEF RunSlowly, Begin, BeginLocking
<1>3. Idle(db) /\ DeliveriesOK(db) /\ db.partner = Authentication(FALSE)
  BY DEF DeliveryInv, Idle
<1>4. DeliveriesOK(new) /\ Advance(db, new)
  BY <1>2, <1>3, OutcomesKeep
<1>5. Later(db, db, {}) /\ slow'.others = {}
  BY <1>1, LaterAtOnce
<1>6. PICK d : d = db
  OBVIOUS
<1>7. Slowly(d, new)'
  BY <1>1, <1>2, <1>3, <1>4, <1>5, <1>6 DEF Slowly
<1>8. SlowOK'
  BY <1>7 DEF SlowOK
<1>9. Idle(db)'
  BY <1>2, <1>3, <1>6
<1>10. QED
  BY <1>8, <1>9 DEF DeliveryInv

(* The slow transaction commits into what is there, or fails as a whole.     *)
LEMMA RunEndsKeeps ==
    ASSUME DeliveryInv, RunEnds
    PROVE  DeliveryInv'
<1>1. /\ slow.running /\ slow' = NoTransaction
      /\ db' = IF Conflict \/ KeyTwice(Merged) THEN db ELSE Settled(Merged)
  BY DEF RunEnds, EndSettled
<1>2. Idle(db) /\ DeliveriesOK(db) /\ SlowOK
  BY DEF DeliveryInv, Idle
<1>3. PICK d, new : Slowly(d, new)
  BY <1>1, <1>2 DEF SlowOK
<1>4. /\ DeliveriesOK(d) /\ DeliveriesOK(new) /\ Advance(d, new)
      /\ slow.mine = Mine(d, new) /\ slow.locked = {} /\ Later(d, db, slow.others)
  BY <1>3 DEF Slowly, Idle
<1>5. PICK e : e = db'
  OBVIOUS
<1>6. Idle(e)
  <2>1. CASE Conflict \/ KeyTwice(Merged)
    BY <1>1, <1>2, <1>5, <2>1
  <2>2. CASE ~(Conflict \/ KeyTwice(Merged))
    <3>1. e = Settled(Merged)
      BY <1>1, <1>5, <2>2
    <3>2. Joined(d, new, db, Merged)
      BY <1>2, <1>4, MergedRows DEF DeliveriesOK
    <3>3. Written(d, new) \cap slow.others = {}
      BY <1>4, <2>2 DEF Conflict, Mine
    <3>4. DeliveriesOK(Merged)
      BY <1>2, <1>4, <3>2, <3>3, JoinedKeeps
    <3>5. QED
      BY <3>1, <3>4, SettledKeeps
  <2>3. QED
    BY <2>1, <2>2
<1>7. SlowOK'
  BY <1>1 DEF SlowOK, NoTransaction
<1>8. Idle(db)'
  BY <1>5, <1>6
<1>9. QED
  BY <1>7, <1>8 DEF DeliveryInv

LEMMA DeliveriesAlways == Spec => []DeliveryInv
<1>1. DeliveryInv /\ [Next]_vars => DeliveryInv'
  <2> SUFFICES ASSUME DeliveryInv, [Next]_vars PROVE DeliveryInv'
    OBVIOUS
  <2>1. CASE UNCHANGED vars
    <3>1. db' = db /\ slow' = slow
      BY <2>1 DEF vars
    <3>2. Idle(db)'
      <4>1. PICK d : d = db
        OBVIOUS
      <4>2. QED
        BY <3>1, <4>1 DEF DeliveryInv
    <3>3. SlowOK'
      <4>1. CASE slow.running
        <5>1. PICK d, new : Slowly(d, new)
          BY <4>1 DEF DeliveryInv, SlowOK
        <5>2. Slowly(d, new)'
          BY <3>1, <5>1 DEF Slowly
        <5>3. QED
          BY <5>2 DEF SlowOK
      <4>2. CASE ~slow.running
        BY <3>1, <4>2 DEF SlowOK
      <4>3. QED
        BY <4>1, <4>2
    <3>4. QED
      BY <3>2, <3>3 DEF DeliveryInv
  <2>2. CASE \E c \in Commands : Run(c)
    BY <2>2, RunKeeps
  <2>3. CASE \E c \in Commands : RunSlowly(c)
    BY <2>3, RunSlowlyKeeps
  <2>4. CASE RunEnds
    BY <2>4, RunEndsKeeps
  <2>5. QED
    BY <2>1, <2>2, <2>3, <2>4 DEF Next
<1>2. QED
  BY InitDeliveries, <1>1, PTL DEF Spec

-----------------------------------------------------------------------------
(* However often, late, at once or with another key a partner sends a        *)
(* request again, for any payloads, labels and keys: an answer to a key      *)
(* always names one delivery and one request until that is purged, and a     *)
(* payload is staged twice only if a delivery of it was finished once.       *)
THEOREM RetransmissionsAlwaysReuse == Spec => []RetransmissionsReuse
<1>1. DeliveryInv => RetransmissionsReuse
  <2> SUFFICES ASSUME DeliveryInv PROVE RetransmissionsReuse
    OBVIOUS
  <2>1. Shape(db) /\ Answers(db) /\ OnceStaged(db)
    BY DEF DeliveryInv, Idle, DeliveriesOK
  <2>2. /\ Deliveries(db) = {i \in DeliveryIds : Kept(db.delivery[i])}
        /\ Exists(db, "reply") = {r \in ReplyIds : db.reply[r] # NoRow}
    BY <2>1, RowsOf
  <2>3. ASSUME NEW r \in Exists(db, "reply"), NEW s \in Exists(db, "reply"),
               db.reply[r].key = db.reply[s].key
        PROVE  \/ /\ db.reply[r].delivery = db.reply[s].delivery
                  /\ db.reply[r].request = db.reply[s].request
               \/ {db.reply[r].delivery, db.reply[s].delivery} \ Deliveries(db) # {}
    <3> DEFINE i == db.reply[r].delivery
               k == db.reply[s].delivery
    <3>1. /\ db.reply[r].key # NoKey /\ i \in DeliveryIds /\ k \in DeliveryIds
      BY <2>1, <2>2 DEF Shape, ReplyRow
    <3>2. /\ Kept(db.delivery[i]) =>
                /\ db.delivery[i].key = db.reply[r].key
                /\ db.delivery[i].fingerprint = db.reply[r].request
          /\ Kept(db.delivery[k]) =>
                /\ db.delivery[k].key = db.reply[s].key
                /\ db.delivery[k].fingerprint = db.reply[s].request
      BY <2>1, <2>2 DEF Answers
    <3> HIDE DEF i, k
    <3>3. CASE Kept(db.delivery[i]) /\ Kept(db.delivery[k])
      <4>1. i = k
        BY <2>1, <2>3, <3>1, <3>2, <3>3 DEF OnceStaged
      <4>2. db.reply[r].request = db.reply[s].request
        BY <3>2, <3>3, <4>1
      <4>3. QED
        BY <4>1, <4>2 DEF i, k
    <3>4. CASE ~(Kept(db.delivery[i]) /\ Kept(db.delivery[k]))
      <4>1. {i, k} \ Deliveries(db) # {}
        BY <2>2, <3>4
      <4>2. QED
        BY <4>1 DEF i, k
    <3>5. QED
      BY <3>3, <3>4
  <2>4. ASSUME NEW i \in Deliveries(db), NEW j \in Deliveries(db), i # j,
               db.delivery[i].content = db.delivery[j].content
        PROVE  db.delivery[i].left \/ db.delivery[j].left
    BY <2>1, <2>2, <2>4 DEF OnceStaged
  <2>5. QED
    BY <2>3, <2>4 DEF RetransmissionsReuse
<1>2. QED
  BY <1>1, DeliveriesAlways, PTL

(* For any files, wizards, edits and templates, and any two commands that    *)
(* overlap: under a template that asks for approval only the approved file   *)
(* in the approved version is imported, once for an approval.                *)
THEOREM ImportsAlwaysApproved == Spec => []ImportsAsApproved
<1>1. DeliveryInv => ImportsAsApproved
  <2> SUFFICES ASSUME DeliveryInv PROVE ImportsAsApproved
    OBVIOUS
  <2>1. Shape(db) /\ Recorded(db)
    BY DEF DeliveryInv, Idle, DeliveriesOK
  <2>2. /\ Exists(db, "run") = {n \in RunIds : db.run[n] # NoRow}
        /\ Exists(db, "job") = {j \in JobIds : db.job[j] # NoRow}
    BY <2>1, RowsOf
  <2>3. ASSUME NEW n \in Exists(db, "run")
        PROVE  /\ db.run[n].job \in InJobState(db, {"completed", "completed_with_errors"})
               /\ db.job[db.run[n].job].content = db.run[n].content
               /\ db.job[db.run[n].job].version = db.run[n].version
    <3>1. Records(db, db.run[n]) /\ db.run[n].job \in JobIds
      BY <2>1, <2>2 DEF Recorded, Shape, RunRow
    <3>2. QED
      BY <2>2, <3>1 DEF Records, InJobState, Done
  <2>4. \A m, n \in Exists(db, "run") : db.run[m].job = db.run[n].job => m = n
    BY <2>1, <2>2 DEF Recorded
  <2>5. QED
    BY <2>3, <2>4 DEF ImportsAsApproved
<1>2. QED
  BY <1>1, DeliveriesAlways, PTL

(* With any jobs for a delivery, decided and imported in any order and by    *)
(* any two that overlap: what the delivery shows of approval and import is   *)
(* true of the job that it names.                                           *)
THEOREM DeliveriesAlwaysShowTheirJob == Spec => []DeliveryShowsItsJob
<1>1. DeliveryInv => DeliveryShowsItsJob
  <2> SUFFICES ASSUME DeliveryInv PROVE DeliveryShowsItsJob
    OBVIOUS
  <2>1. Shape(db) /\ Shown(db)
    BY DEF DeliveryInv, Idle, DeliveriesOK
  <2>2. ASSUME NEW i \in Deliveries(db), db.delivery[i].state \in DOMAIN ShownFor
        PROVE  /\ db.delivery[i].job # None
               /\ db.job[db.delivery[i].job].state = ShownFor[db.delivery[i].state]
               /\ db.job[db.delivery[i].job].delivery = i
    <3>1. i \in DeliveryIds /\ Kept(db.delivery[i])
      BY <2>1, RowsOf
    <3>2. ShowsJob(db, i, db.delivery[i].job, db.delivery[i].state)
      BY <2>1, <2>2, <3>1 DEF Shown
    <3>3. QED
      BY <3>2, IdsAreSome DEF ShowsJob
  <2>3. QED
    BY <2>2 DEF DeliveryShowsItsJob
<1>2. QED
  BY <1>1, DeliveriesAlways, PTL

-----------------------------------------------------------------------------
(* The job queue that failed deliveries share with report schedules. *)

(* A failed schedule has counted at least one failure, and a job nobody      *)
(* requested has all its attempts.                                           *)
JobsInv ==
    /\ JobsTypeOK
    /\ AttemptsLeft
    /\ FailureOnRecord
    /\ DeliveriesNeedOperator
    /\ \A r \in Reports : lastRun[r] = "failed" => failures[r] > 0
    /\ \A j \in Jobs : jobState[j] = "none" => attempts[j] = 0

(* What the constants say about each job. *)
LEMMA JobFacts ==
    /\ \A r \in Reports, n \in 1..MaxFailures : <<r, n>> \in Jobs
    /\ \A d \in FailedDeliveries : <<d, 0>> \in Jobs /\ Limit(<<d, 0>>) = 1
    /\ \A j \in Jobs : Limit(j) \in Nat \ {0}
    /\ \A j \in Jobs : (j[1] \in Reports) # (j[1] \in FailedDeliveries)
    /\ \A j \in Jobs : j[1] \in FailedDeliveries => j = <<j[1], 0>>
  BY JobsAssumption DEF Jobs, Limit

(* The initial states satisfy the inductive invariant. *)
LEMMA JobsInvInit == JobsInit => JobsInv
  BY JobsAssumption, JobFacts
  DEF JobsInit, JobsInv, JobsTypeOK, AttemptsLeft, FailureOnRecord, DeliveriesNeedOperator, Waiting

(* Schedules on their own cron, and sources that disappear. *)
LEMMA SourceStepKeepsInv ==
    ASSUME JobsInv,
           \/ \E r \in Reports, good \in BOOLEAN : RunReport(r, good)
           \/ \E s \in sources : DeleteSource(s)
    PROVE  JobsInv'
<1> USE JobsAssumption DEF JobsInv, JobsTypeOK, AttemptsLeft, FailureOnRecord,
                           DeliveriesNeedOperator, Waiting, reportVars, jobVars
<1>1. ASSUME NEW r \in Reports, NEW good \in BOOLEAN, RunReport(r, good)
      PROVE  JobsInv'
  BY <1>1 DEF RunReport
<1>2. ASSUME NEW s \in sources, DeleteSource(s)
      PROVE  JobsInv'
  BY <1>2 DEF DeleteSource
<1>3. QED
  BY <1>1, <1>2

(* What a request or an operator's retry does to one job: it is put in state *)
(* s with n attempts, and only its own schedule may have asked for it.       *)
PutJob(j, s, n) ==
    /\ s \in {"pending", "operator_action"}
    /\ n <= Limit(j) /\ (s = "pending" => n < Limit(j))
    /\ jobState' = [jobState EXCEPT ![j] = s]
    /\ attempts' = [attempts EXCEPT ![j] = n]
    /\ due' \in [Jobs -> BOOLEAN]
    /\ requested' \in [Reports -> BOOLEAN]
    /\ \A r \in Reports : requested'[r] => requested[r] \/ j = <<r, failures[r]>>
    /\ held' \subseteq Jobs
    /\ operatorSteps' \in [Jobs -> 0..MaxOperatorSteps]
    /\ lastRun' = lastRun /\ failures' = failures /\ sources' = sources

(* Such a step keeps the invariant. *)
LEMMA PutJobKeepsInv ==
    ASSUME JobsInv, NEW j \in Jobs, NEW s, NEW n \in Nat, PutJob(j, s, n)
    PROVE  JobsInv'
<1> USE JobsAssumption, JobFacts DEF PutJob
<1>1. Limit(j) \in Nat
  OBVIOUS
<1>2. JobsTypeOK'
  <2>1. attempts' \in [Jobs -> Nat]
    BY <1>1 DEF JobsInv, JobsTypeOK
  <2>2. \A k \in Jobs : attempts'[k] <= Limit(k)
    BY <1>1 DEF JobsInv, JobsTypeOK
  <2>3. QED
    BY <2>1, <2>2 DEF JobsInv, JobsTypeOK, Waiting
<1>3. AttemptsLeft'
  BY DEF JobsInv, JobsTypeOK, AttemptsLeft, Waiting
<1>4. FailureOnRecord'
  BY DEF JobsInv, JobsTypeOK, FailureOnRecord, Waiting
<1>5. DeliveriesNeedOperator'
  BY DEF JobsInv, JobsTypeOK, DeliveriesNeedOperator, Waiting
<1>6. /\ \A r \in Reports : lastRun'[r] = "failed" => failures'[r] > 0
      /\ \A k \in Jobs : jobState'[k] = "none" => attempts'[k] = 0
  BY DEF JobsInv, JobsTypeOK
<1>7. QED
  BY <1>2, <1>3, <1>4, <1>5, <1>6 DEF JobsInv

(* Requests for a retry, of schedules and of deliveries. *)
LEMMA RequestKeepsInv ==
    ASSUME JobsInv,
           \/ \E r \in Reports : QueueReportRetry(r)
           \/ \E d \in FailedDeliveries : RecoverDelivery(d)
    PROVE  JobsInv'
<1> USE JobsAssumption, JobFacts
<1>1. ASSUME NEW r \in Reports, QueueReportRetry(r)
      PROVE  JobsInv'
  <2> DEFINE j == <<r, failures[r]>>
  <2>1. /\ j \in Jobs
        /\ requested' = [requested EXCEPT ![r] = TRUE]
        /\ UNCHANGED <<lastRun, failures, sources, held>>
    BY <1>1 DEF QueueReportRetry, JobsInv, JobsTypeOK
  <2>2. jobState[j] \in {"none"} \cup Reopenable
        => /\ jobState' = [jobState EXCEPT ![j] = "pending"]
           /\ attempts' = [attempts EXCEPT ![j] = 0]
           /\ due' = [due EXCEPT ![j] = TRUE]
           /\ operatorSteps' \in [Jobs -> 0..MaxOperatorSteps]
    <3>1. CASE jobState[j] = "none"
      <4>1. /\ jobState' = [jobState EXCEPT ![j] = "pending"]
            /\ due' = [due EXCEPT ![j] = TRUE]
            /\ attempts' = attempts /\ operatorSteps' = operatorSteps
        BY <1>1, <3>1 DEF QueueReportRetry, Reopenable
      <4>2. attempts = [attempts EXCEPT ![j] = 0]
        BY <2>1, <3>1 DEF JobsInv, JobsTypeOK
      <4>3. QED
        BY <4>1, <4>2 DEF JobsInv, JobsTypeOK
    <3>2. CASE jobState[j] \in Reopenable
      <4>1. /\ jobState' = [jobState EXCEPT ![j] = "pending"]
            /\ due' = [due EXCEPT ![j] = TRUE]
            /\ attempts' = [attempts EXCEPT ![j] = 0]
            /\ operatorSteps' = [operatorSteps EXCEPT ![j] = @ + 1]
            /\ operatorSteps[j] < MaxOperatorSteps
        BY <1>1, <3>2 DEF QueueReportRetry, Reopenable
      <4>2. QED
        BY <2>1, <4>1 DEF JobsInv, JobsTypeOK
    <3>3. QED
      BY <3>1, <3>2
  <2>3. CASE jobState[j] \in {"none"} \cup Reopenable
    <3>1. \A p \in Reports : requested'[p] => requested[p] \/ j = <<p, failures[p]>>
      BY <2>1 DEF JobsInv, JobsTypeOK
    <3>2. Limit(j) \in Nat \ {0}
      BY <2>1
    <3>3. due' \in [Jobs -> BOOLEAN] /\ requested' \in [Reports -> BOOLEAN] /\ held' \subseteq Jobs
      BY <2>1, <2>2, <2>3 DEF JobsInv, JobsTypeOK
    <3>4. PutJob(j, "pending", 0)
      BY <2>1, <2>2, <2>3, <3>1, <3>2, <3>3 DEF PutJob
    <3>5. QED
      BY <2>1, <3>4, PutJobKeepsInv
  <2>4. CASE jobState[j] \notin {"none"} \cup Reopenable
    BY <1>1, <2>1, <2>4
    DEF QueueReportRetry, JobsInv, JobsTypeOK, AttemptsLeft, FailureOnRecord,
        DeliveriesNeedOperator, Reopenable, Waiting, jobVars
  <2>5. QED
    BY <2>3, <2>4
<1>2. ASSUME NEW d \in FailedDeliveries, RecoverDelivery(d)
      PROVE  JobsInv'
  <2> DEFINE j == <<d, 0>>
  <2>1. j \in Jobs /\ Limit(j) = 1 /\ attempts[j] = 0
    BY <1>2 DEF RecoverDelivery, JobsInv, JobsTypeOK, AttemptsLeft, Waiting
  <2>2. /\ jobState' = [jobState EXCEPT ![j] = "operator_action"]
        /\ attempts' = [attempts EXCEPT ![j] = 1]
        /\ due' = [due EXCEPT ![j] = FALSE]
        /\ UNCHANGED <<lastRun, failures, requested, sources, held, operatorSteps>>
    BY <1>2, <2>1 DEF RecoverDelivery, reportVars
  <2>3. PutJob(j, "operator_action", 1)
    BY <2>1, <2>2 DEF PutJob, JobsInv, JobsTypeOK
  <2>4. QED
    BY <2>1, <2>3, PutJobKeepsInv
<1>3. QED
  BY <1>1, <1>2

(* The operators' retries and the backoff. *)
LEMMA JobStepKeepsInv ==
    ASSUME JobsInv, NEW j \in Jobs, JobStep(j)
    PROVE  JobsInv'
<1> USE JobsAssumption, JobFacts
<1>1. CASE ClaimRetry(j)
  BY <1>1 DEF ClaimRetry, JobsInv, JobsTypeOK, AttemptsLeft, FailureOnRecord,
              DeliveriesNeedOperator, Waiting, reportVars, jobVars
<1>2. CASE CommitRetry(j)
  <2>1. Limit(j) \in Nat \ {0}
    OBVIOUS
  <2>2. /\ jobState' = [jobState EXCEPT ![j] = "pending"]
        /\ attempts' = [attempts EXCEPT ![j] = 0]
        /\ due' = [due EXCEPT ![j] = TRUE]
        /\ held' \subseteq Jobs
        /\ UNCHANGED <<lastRun, failures, requested, sources, operatorSteps>>
    BY <1>2 DEF CommitRetry, RetryAttempts, reportVars, JobsInv, JobsTypeOK
  <2>3. PutJob(j, "pending", 0)
    BY <2>1, <2>2 DEF PutJob, JobsInv, JobsTypeOK
  <2>4. QED
    BY <2>3, PutJobKeepsInv
<1>3. CASE AbandonRetry(j)
  BY <1>3 DEF AbandonRetry, JobsInv, JobsTypeOK, AttemptsLeft, FailureOnRecord,
              DeliveriesNeedOperator, Waiting, reportVars, jobVars
<1>4. CASE RetryDue(j)
  BY <1>4 DEF RetryDue, JobsInv, JobsTypeOK, AttemptsLeft, FailureOnRecord,
              DeliveriesNeedOperator, Waiting, reportVars
<1>5. QED
  BY <1>1, <1>2, <1>3, <1>4 DEF JobStep

(* A cron run: every job of the batch that is not held gets an outcome.      *)
LEMMA CronRunKeepsInv ==
    ASSUME JobsInv, NEW batch \in SUBSET Jobs, NEW good \in SUBSET Repeatable,
           NEW poisoned \in SUBSET batch, RunJobs(batch, good, poisoned)
    PROVE  JobsInv'
<1> USE JobsAssumption, JobFacts
<1> DEFINE run == batch \ held
           started == {j \in run : HasSource(j)}
           fixed == {j \in started : j[1] \in good}
<1>1. /\ batch \subseteq DueJobs /\ poisoned \subseteq started \ fixed
      /\ good \subseteq Reports
  BY DEF RunJobs, IsBatch, Repeatable
<1>2. \A j \in run : jobState[j] \in Waiting /\ attempts[j] < Limit(j)
  BY <1>1 DEF DueJobs, JobsInv, AttemptsLeft
<1>3. /\ attempts' \in [Jobs -> Nat]
      /\ \A j \in Jobs : attempts'[j] = IF j \in started THEN attempts[j] + 1 ELSE attempts[j]
  BY DEF RunJobs, JobsInv, JobsTypeOK
<1>4. \A j \in Jobs : jobState'[j] =
            IF j \in fixed THEN "done"
            ELSE IF j \in poisoned \cup (run \ started) THEN "operator_action"
            ELSE IF j \in run THEN FailedState(j)
            ELSE jobState[j]
  BY DEF RunJobs, JobsInv, JobsTypeOK, FailedState, Waiting
<1>5. /\ \A r \in Reports : (\E j \in fixed : j[1] = r) =>
            lastRun'[r] = "success" /\ failures'[r] = 0 /\ ~requested'[r]
      /\ \A r \in Reports : ~(\E j \in fixed : j[1] = r) =>
            lastRun'[r] = lastRun[r] /\ failures'[r] = failures[r] /\ requested'[r] = requested[r]
  BY DEF RunJobs, JobsInv, JobsTypeOK
<1>6. JobsTypeOK'
  <2>1. \A j \in Jobs : attempts'[j] <= Limit(j)
    BY <1>2, <1>3 DEF JobsInv, JobsTypeOK
  <2>2. /\ lastRun' \in [Reports -> {"never", "success", "failed"}]
        /\ failures' \in [Reports -> 0..MaxFailures]
    BY DEF RunJobs, JobsInv, JobsTypeOK
  <2>3. requested' \in [Reports -> BOOLEAN]
    BY DEF RunJobs, JobsInv, JobsTypeOK
  <2>4. /\ due' \in [Jobs -> BOOLEAN]
        /\ sources' = sources /\ held' = held /\ operatorSteps' = operatorSteps
    BY DEF RunJobs, JobsInv, JobsTypeOK
  <2>5. jobState' \in [Jobs -> {"none", "done", "operator_action"} \cup Waiting]
    BY DEF RunJobs, JobsInv, JobsTypeOK, FailedState, Waiting
  <2> HIDE DEF run, started, fixed
  <2>6. QED
    BY <1>3, <2>1, <2>2, <2>3, <2>4, <2>5 DEF JobsInv, JobsTypeOK
<1>7. ASSUME NEW j \in Jobs
      PROVE  /\ jobState'[j] \in Waiting => attempts'[j] < Limit(j)
             /\ jobState'[j] = "none" => attempts'[j] = 0
  <2>1. attempts[j] \in Nat /\ Limit(j) \in Nat
    BY DEF JobsInv, JobsTypeOK
  <2>2. CASE j \in run
    BY <1>1, <1>2, <1>3, <1>4, <2>1, <2>2 DEF FailedState, Waiting
  <2>3. CASE j \notin run
    BY <1>1, <1>3, <1>4, <2>3 DEF JobsInv, AttemptsLeft
  <2>4. QED
    BY <2>2, <2>3
<1>8. ASSUME NEW r \in Reports, requested'[r], lastRun'[r] = "failed"
      PROVE  /\ jobState'[<<r, failures'[r]>>] \in Waiting \cup {"operator_action"}
             /\ failures'[r] > 0
  <2>1. ~\E j \in fixed : j[1] = r
    BY <1>5, <1>8
  <2>2. requested[r] /\ lastRun[r] = "failed" /\ failures'[r] = failures[r]
    BY <1>5, <1>8, <2>1
  <2>3. /\ <<r, failures[r]>> \in Jobs \ fixed
        /\ jobState[<<r, failures[r]>>] \in Waiting \cup {"operator_action"}
    BY <2>1, <2>2 DEF JobsInv, JobsTypeOK, FailureOnRecord
  <2>4. QED
    BY <1>4, <2>2, <2>3 DEF FailedState, Waiting, JobsInv
<1>9. ASSUME NEW d \in FailedDeliveries
      PROVE  jobState'[<<d, 0>>] \notin {"done", "retry"}
  <2>1. <<d, 0>> \in Jobs \ fixed /\ Limit(<<d, 0>>) = 1 /\ attempts[<<d, 0>>] \in Nat
    BY <1>1 DEF JobsInv, JobsTypeOK
  <2>2. QED
    BY <1>4, <2>1 DEF FailedState, JobsInv, DeliveriesNeedOperator
<1>10. \A r \in Reports : lastRun'[r] = "failed" => failures'[r] > 0
  BY <1>5 DEF JobsInv
<1>11. QED
  BY <1>6, <1>7, <1>8, <1>9, <1>10
  DEF JobsInv, AttemptsLeft, FailureOnRecord, DeliveriesNeedOperator

(* A failure that was given to the queue is on record until its report       *)
(* succeeds, a waiting job has attempts left, and no delivery is replayed,   *)
(* whatever cron runs and operators do.                                      *)
THEOREM FailuresStayOnRecord ==
    JobsSpec => [](JobsTypeOK /\ FailureOnRecord /\ AttemptsLeft /\ DeliveriesNeedOperator)
<1>1. JobsInv /\ [JobsNext]_queueVars => JobsInv'
  <2> SUFFICES ASSUME JobsInv, [JobsNext]_queueVars PROVE JobsInv'
    OBVIOUS
  <2>1. CASE UNCHANGED queueVars
    BY <2>1 DEF queueVars, reportVars, jobVars, JobsInv, JobsTypeOK, AttemptsLeft, FailureOnRecord,
                DeliveriesNeedOperator
  <2>2. CASE JobsNext
    BY <2>2, SourceStepKeepsInv, RequestKeepsInv, JobStepKeepsInv, CronRunKeepsInv
    DEF JobsNext, CronRun
  <2>3. QED
    BY <2>1, <2>2
<1>2. JobsInv => JobsTypeOK /\ FailureOnRecord /\ AttemptsLeft /\ DeliveriesNeedOperator
  BY DEF JobsInv
<1>3. QED
  BY <1>1, <1>2, JobsInvInit, PTL DEF JobsSpec
=============================================================================
