------------------------ MODULE DutyCoverageProofs ------------------------
(***************************************************************************)
(* The officials of one match, for any number of officials, clubs, to-dos  *)
(* and coordinators, and any two commands that overlap.                    *)
(*                                                                         *)
(* A command first works on assignments and duties (Working), and most     *)
(* then bring the to-do up to date (Sync).  What it says about itself in   *)
(* the rows it writes (Advance) is what keeps two that overlap apart:      *)
(* whoever makes a to-do, or puts somebody in another one's place, writes  *)
(* the match as well, and every command on officials locks the match.      *)
(***************************************************************************)
EXTENDS DutyCoverage, FiniteSetTheorems, TLAPS

Tables(match, slot, assignment, duty, todo) ==
    [match |-> match, slot |-> slot, assignment |-> assignment, duty |-> duty, todo |-> todo]

MatchRow(x) ==
    /\ x = [plan |-> x.plan, stage |-> x.stage, owner |-> x.owner,
            signature |-> x.signature, write_date |-> x.write_date]
    /\ x.plan \in Nat \ {0}

(* Whoever accepted saw those terms, came for them, and is done only if he came. *)
AssignmentRow(x) ==
    x # NoRow =>
        /\ x = [state |-> x.state, official |-> x.official, accepted |-> x.accepted,
                seen |-> x.seen, present |-> x.present, replaces |-> x.replaces]
        /\ x.state \in {"draft", "confirmed", "done", "cancelled"}
        /\ x.accepted # NoTerms => x.seen = x.accepted
        /\ x.present # NoTerms => x.present = x.accepted
        /\ x.state = "done" => x.present # NoTerms

Shape(d) ==
    /\ d = Tables(d.match, d.slot, d.assignment, d.duty, d.todo)
    /\ d.match = <<d.match[1]>> /\ MatchRow(d.match[1])
    /\ d.slot = <<d.slot[1]>>
    /\ d.assignment = [a \in AssignmentIds |-> d.assignment[a]]
    /\ d.duty = [c \in Clubs |-> d.duty[c]]
    /\ d.todo = [t \in TodoIds |-> d.todo[t]]
    /\ \A a \in AssignmentIds : AssignmentRow(d.assignment[a])

(* A replaced assignment is there, and out for good. *)
Refers(d) ==
    \A a \in Assigned(d) :
        d.assignment[a].replaces # NoAssignment => d.assignment[a].replaces \in Assigned(d)
OutForGood(d) ==
    \A a \in Assigned(d) :
        Successors(d, a) # {} => a \notin Active(d) /\ \E b \in AssignmentIds : Successors(d, a) = {b}

(* The signature of a match is of assignments it has, and its one to-do has *)
(* the owner that the signature names.                                      *)
Signed(d) ==
    Match(d).signature # NoSignature => Match(d).signature.waiting \subseteq Assigned(d)
OneTodo(d) ==
    \A t \in Todos(d) :
        /\ Match(d).signature # NoSignature /\ d.todo[t].owner = Match(d).signature.owner
        /\ Todos(d) = {t}

Coordinated(d) == Match(d).owner # Nobody

DutyOK(d) ==
    /\ Shape(d) /\ Refers(d) /\ Signed(d) /\ OneTodo(d)
    /\ Coordinated(d) => OutForGood(d)

(* What a command leaves alone, and what it shows of the rest. *)
Advance(d, e) ==
    /\ Coordinated(e) = Coordinated(d)
    /\ \A a \in Assigned(d) :
          a \in Assigned(e) /\ e.assignment[a].replaces = d.assignment[a].replaces
    /\ e.match[1] = d.match[1] =>
          /\ \A t \in Todos(e) : e.todo[t] = d.todo[t]
          /\ Coordinated(d) => \A b \in Assigned(e) \ Assigned(d) :
                                   e.assignment[b].replaces = NoAssignment
    /\ \A a \in Assigned(e) :
          Evidence(e, a) \subseteq Evidence(d, a) \/ e.assignment[a].accepted.plan = Match(d).plan

(* An assignment before and after a command at work on d. *)
Proof(x) ==
    {<<"accepted", x.accepted>>, <<"present", x.present>>, <<"done", x.state = "done">>}
       \ {<<"accepted", NoTerms>>, <<"present", NoTerms>>, <<"done", FALSE>>}
Moves(d, x, y) ==
    \/ y = x
    \/ /\ x # NoRow /\ y # NoRow /\ y.replaces = x.replaces
       /\ Proof(y) \subseteq Proof(x) \/ y.accepted.plan = Match(d).plan
    \/ x = NoRow /\ \E o, r : y = NewAssignment(o, r)
Working(d, e) ==
    /\ Shape(e) /\ e.match = d.match /\ e.slot = d.slot /\ e.todo = d.todo
    /\ \A a \in AssignmentIds : Moves(d, d.assignment[a], e.assignment[a])
    /\ Refers(e) /\ (OutForGood(d) => OutForGood(e))

(* Nobody is replaced. *)
Plain(d, e) ==
    \A b \in Assigned(e) \ Assigned(d) : e.assignment[b].replaces = NoAssignment

Unmarked(d) == Match(d).write_date = FALSE

-----------------------------------------------------------------------------
(* Rows and ids. *)
LEMMA Ids ==
    /\ AssignmentIds \subseteq Nat /\ NoAssignment \notin AssignmentIds
    /\ TodoIds \subseteq Nat
    /\ Nobody \notin Coordinators
  BY CoverageAssumption DEF NoAssignment

LEMMA NewIds ==
    ASSUME NEW d, Shape(d)
    PROVE  /\ \A a \in NewId(d, "assignment") : a \in AssignmentIds /\ d.assignment[a] = NoRow
           /\ \A t \in NewId(d, "todo") : t \in TodoIds
<1>1. ASSUME NEW t, NEW i \in NewId(d, t), DOMAIN d[t] \subseteq Nat
      PROVE  i \in DOMAIN d[t] /\ d[t][i] = NoRow
  <2> DEFINE taken == {j \in DOMAIN d[t] :
                       d[t][j] # NoRow \/ (slow.running /\ <<t, j>> \in DOMAIN slow.mine)}
  <2>1. i \in DOMAIN d[t] /\ \A j \in taken : i > j
    BY <1>1 DEF NewId
  <2>2. i \in Nat
    BY <1>1, <2>1
  <2>3. i \notin taken
    BY <2>1, <2>2
  <2>4. QED
    BY <2>1, <2>3
<1>2. DOMAIN d.assignment = AssignmentIds /\ DOMAIN d.todo = TodoIds
  BY DEF Shape
<1>3. d["assignment"] = d.assignment /\ d["todo"] = d.todo
  OBVIOUS
<1>4. DOMAIN d["assignment"] \subseteq Nat /\ DOMAIN d["todo"] \subseteq Nat
  BY <1>2, <1>3, Ids
<1>5. QED
  BY <1>1, <1>2, <1>3, <1>4

(* Changed fields, as tables. *)
LEMMA FieldSet ==
    ASSUME NEW d, Shape(d)
    PROVE  /\ \A a, y : [d EXCEPT !.assignment[a] = y]
                 = Tables(d.match, d.slot, [d.assignment EXCEPT ![a] = y], d.duty, d.todo)
           /\ \A c, y : [d EXCEPT !.duty[c] = y]
                 = Tables(d.match, d.slot, d.assignment, [d.duty EXCEPT ![c] = y], d.todo)
           /\ \A D : [d EXCEPT !.duty = D]
                 = Tables(d.match, d.slot, d.assignment, D, d.todo)
           /\ \A t, y : [d EXCEPT !.todo[t] = y]
                 = Tables(d.match, d.slot, d.assignment, d.duty, [d.todo EXCEPT ![t] = y])
           /\ \A x : [d EXCEPT !.match[1] = x]
                 = Tables(<<x>>, d.slot, d.assignment, d.duty, d.todo)
           /\ \A x : [d EXCEPT !.slot[1] = x]
                 = Tables(d.match, <<x>>, d.assignment, d.duty, d.todo)
<1>1. /\ d = Tables(d.match, d.slot, d.assignment, d.duty, d.todo)
      /\ d.match = <<d.match[1]>> /\ d.slot = <<d.slot[1]>>
  BY DEF Shape
<1>2. /\ \A A : [d EXCEPT !.assignment = A] = Tables(d.match, d.slot, A, d.duty, d.todo)
      /\ \A D : [d EXCEPT !.duty = D] = Tables(d.match, d.slot, d.assignment, D, d.todo)
      /\ \A T : [d EXCEPT !.todo = T] = Tables(d.match, d.slot, d.assignment, d.duty, T)
      /\ \A M : [d EXCEPT !.match = M] = Tables(M, d.slot, d.assignment, d.duty, d.todo)
      /\ \A S : [d EXCEPT !.slot = S] = Tables(d.match, S, d.assignment, d.duty, d.todo)
  BY <1>1 DEF Tables
<1>3. ASSUME NEW a, NEW y
      PROVE  [d EXCEPT !.assignment[a] = y]
               = Tables(d.match, d.slot, [d.assignment EXCEPT ![a] = y], d.duty, d.todo)
  <2> DEFINE A == [d.assignment EXCEPT ![a] = y]
  <2>1. [d EXCEPT !.assignment[a] = y] = [d EXCEPT !.assignment = A]
    OBVIOUS
  <2> HIDE DEF A
  <2>2. [d EXCEPT !.assignment[a] = y] = Tables(d.match, d.slot, A, d.duty, d.todo)
    BY <1>2, <2>1
  <2>3. QED
    BY <2>2 DEF A
<1>4. ASSUME NEW c, NEW y
      PROVE  [d EXCEPT !.duty[c] = y]
               = Tables(d.match, d.slot, d.assignment, [d.duty EXCEPT ![c] = y], d.todo)
  <2> DEFINE D == [d.duty EXCEPT ![c] = y]
  <2>1. [d EXCEPT !.duty[c] = y] = [d EXCEPT !.duty = D]
    OBVIOUS
  <2> HIDE DEF D
  <2>2. [d EXCEPT !.duty[c] = y] = Tables(d.match, d.slot, d.assignment, D, d.todo)
    BY <1>2, <2>1
  <2>3. QED
    BY <2>2 DEF D
<1>5. ASSUME NEW t, NEW y
      PROVE  [d EXCEPT !.todo[t] = y]
               = Tables(d.match, d.slot, d.assignment, d.duty, [d.todo EXCEPT ![t] = y])
  <2> DEFINE T == [d.todo EXCEPT ![t] = y]
  <2>1. [d EXCEPT !.todo[t] = y] = [d EXCEPT !.todo = T]
    OBVIOUS
  <2> HIDE DEF T
  <2>2. [d EXCEPT !.todo[t] = y] = Tables(d.match, d.slot, d.assignment, d.duty, T)
    BY <1>2, <2>1
  <2>3. QED
    BY <2>2 DEF T
<1>6. ASSUME NEW x
      PROVE  [d EXCEPT !.match[1] = x] = Tables(<<x>>, d.slot, d.assignment, d.duty, d.todo)
  <2> DEFINE M == [d.match EXCEPT ![1] = x]
  <2>1. M = <<x>>
    BY <1>1
  <2>2. [d EXCEPT !.match[1] = x] = [d EXCEPT !.match = M]
    OBVIOUS
  <2> HIDE DEF M
  <2>3. QED
    BY <1>2, <2>1, <2>2
<1>7. ASSUME NEW x
      PROVE  [d EXCEPT !.slot[1] = x] = Tables(d.match, <<x>>, d.assignment, d.duty, d.todo)
  <2> DEFINE S == [d.slot EXCEPT ![1] = x]
  <2>1. S = <<x>>
    BY <1>1
  <2>2. [d EXCEPT !.slot[1] = x] = [d EXCEPT !.slot = S]
    OBVIOUS
  <2> HIDE DEF S
  <2>3. QED
    BY <1>2, <2>1, <2>2
<1>8. QED
  BY <1>2, <1>3, <1>4, <1>5, <1>6, <1>7

(* What assignments say does not depend on the rest. *)
LEMMA SameAssignments ==
    ASSUME NEW d, NEW e, e.assignment = d.assignment
    PROVE  /\ Assigned(e) = Assigned(d) /\ Active(e) = Active(d)
           /\ \A a : Successors(e, a) = Successors(d, a)
           /\ \A a : Evidence(e, a) = Evidence(d, a)
           /\ \A o : ActiveFor(e, o) = ActiveFor(d, o)
           /\ Refers(e) <=> Refers(d)
           /\ OutForGood(e) <=> OutForGood(d)
<1>1. Assigned(e) = Assigned(d) /\ Active(e) = Active(d)
  BY DEF Assigned, Active
<1>2. /\ \A a : Successors(e, a) = Successors(d, a)
      /\ \A a : Evidence(e, a) = Evidence(d, a)
      /\ \A o : ActiveFor(e, o) = ActiveFor(d, o)
  BY <1>1 DEF Successors, Evidence, ActiveFor
<1>3. QED
  BY <1>1, <1>2 DEF Refers, OutForGood

LEMMA EvidenceIsProof ==
    ASSUME NEW d, NEW a
    PROVE  /\ a \in Assigned(d) => Evidence(d, a) = Proof(d.assignment[a])
           /\ a \notin Assigned(d) => Evidence(d, a) = {}
  BY DEF Evidence, Proof

LEMMA FreshRow ==
    ASSUME NEW o, NEW r
    PROVE  LET x == NewAssignment(o, r) IN
           /\ x # NoRow /\ AssignmentRow(x) /\ x.replaces = r /\ x.accepted = NoTerms
           /\ x.state = "draft" /\ Proof(x) = {}
<1> DEFINE x == NewAssignment(o, r)
<1>1. x.state = "draft" /\ x.replaces = r /\ x.accepted = NoTerms /\ x.present = NoTerms
  BY DEF NewAssignment
<1>2. x # NoRow
  BY <1>1 DEF NoRow
<1>3. AssignmentRow(x)
  BY DEF AssignmentRow, NewAssignment
<1>4. Proof(x) = {}
  BY <1>1 DEF Proof
<1>5. QED
  BY <1>1, <1>2, <1>3, <1>4

-----------------------------------------------------------------------------
(* Work on assignments and duties. *)
LEMMA WorkingGrows ==
    ASSUME NEW d, NEW e, Working(d, e)
    PROVE  /\ \A a \in Assigned(d) :
                 a \in Assigned(e) /\ e.assignment[a].replaces = d.assignment[a].replaces
           /\ \A a \in Assigned(e) : \/ Evidence(e, a) \subseteq Evidence(d, a)
                                     \/ e.assignment[a].accepted.plan = Match(d).plan
           /\ \A b \in Assigned(e) \ Assigned(d) :
                 b \in Active(e) /\ e.assignment[b].accepted = NoTerms
<1>1. ASSUME NEW a \in Assigned(d)
      PROVE  a \in Assigned(e) /\ e.assignment[a].replaces = d.assignment[a].replaces
  <2>1. a \in AssignmentIds /\ d.assignment[a] # NoRow /\ Moves(d, d.assignment[a], e.assignment[a])
    BY DEF Assigned, Working
  <2>2. e.assignment[a] # NoRow /\ e.assignment[a].replaces = d.assignment[a].replaces
    BY <2>1 DEF Moves
  <2>3. QED
    BY <2>1, <2>2 DEF Assigned
<1>2. ASSUME NEW b \in Assigned(e) \ Assigned(d)
      PROVE  \E o, r : e.assignment[b] = NewAssignment(o, r)
  <2>1. /\ b \in AssignmentIds /\ d.assignment[b] = NoRow /\ e.assignment[b] # NoRow
        /\ Moves(d, d.assignment[b], e.assignment[b])
    BY DEF Assigned, Working
  <2>2. QED
    BY <2>1 DEF Moves
<1>3. ASSUME NEW b \in Assigned(e) \ Assigned(d)
      PROVE  /\ b \in Active(e) /\ e.assignment[b].accepted = NoTerms
             /\ Evidence(e, b) = {}
  <2>1. PICK o, r : e.assignment[b] = NewAssignment(o, r)
    BY <1>2
  <2>2. /\ e.assignment[b].state = "draft" /\ e.assignment[b].accepted = NoTerms
        /\ Proof(e.assignment[b]) = {}
    BY <2>1, FreshRow
  <2>3. QED
    BY <2>2, EvidenceIsProof DEF Active
<1>4. ASSUME NEW a \in Assigned(e), a \in Assigned(d)
      PROVE  \/ Evidence(e, a) \subseteq Evidence(d, a)
             \/ e.assignment[a].accepted.plan = Match(d).plan
  <2>1. Moves(d, d.assignment[a], e.assignment[a]) /\ d.assignment[a] # NoRow
    BY <1>4 DEF Working, Assigned
  <2>2. \/ Proof(e.assignment[a]) \subseteq Proof(d.assignment[a])
        \/ e.assignment[a].accepted.plan = Match(d).plan
    BY <2>1 DEF Moves
  <2>3. QED
    BY <1>4, <2>2, EvidenceIsProof
<1>5. QED
  BY <1>1, <1>3, <1>4

LEMMA PlainKeeps ==
    ASSUME NEW d, DutyOK(d), NEW e, Working(d, e), Coordinated(d) => Plain(d, e)
    PROVE  DutyOK(e) /\ Advance(d, e) /\ Match(e).plan = Match(d).plan
<1>1. /\ Shape(e) /\ e.match = d.match /\ e.slot = d.slot /\ e.todo = d.todo
      /\ Refers(e) /\ (OutForGood(d) => OutForGood(e))
  BY DEF Working
<1>2. Match(e) = Match(d) /\ Todos(e) = Todos(d) /\ Coordinated(e) = Coordinated(d)
  BY <1>1 DEF Match, Todos, Coordinated
<1>3. Assigned(d) \subseteq Assigned(e)
  BY WorkingGrows
<1>4. Signed(e) /\ OneTodo(e)
  BY <1>1, <1>2, <1>3 DEF DutyOK, Signed, OneTodo
<1>5. DutyOK(e)
  BY <1>1, <1>2, <1>4 DEF DutyOK
<1>6. Advance(d, e)
  <2>1. \A t \in Todos(e) : e.todo[t] = d.todo[t]
    BY <1>1
  <2>2. Coordinated(d) =>
          \A b \in Assigned(e) \ Assigned(d) : e.assignment[b].replaces = NoAssignment
    BY DEF Plain
  <2>3. QED
    BY <1>2, <2>1, <2>2, WorkingGrows DEF Advance
<1>7. QED
  BY <1>2, <1>5, <1>6

-----------------------------------------------------------------------------
(* The to-do. *)
MarkedRow(d, s) ==
    [plan |-> Match(d).plan, stage |-> Match(d).stage, owner |-> Match(d).owner,
     signature |-> s, write_date |-> TRUE]
Marked(d, s, T) == Tables(<<MarkedRow(d, s)>>, d.slot, d.assignment, d.duty, T)
NoTodos == [t \in TodoIds |-> NoRow]
ToDo(d, t) == [NoTodos EXCEPT ![t] = [state |-> "open", owner |-> Match(d).owner]]

LEMMA SignedRow ==
    ASSUME NEW r, MatchRow(r), NEW s
    PROVE  [r EXCEPT !.signature = s, !.write_date = TRUE]
             = [plan |-> r.plan, stage |-> r.stage, owner |-> r.owner,
                signature |-> s, write_date |-> TRUE]
<1>1. r = [plan |-> r.plan, stage |-> r.stage, owner |-> r.owner,
           signature |-> r.signature, write_date |-> r.write_date]
  BY DEF MatchRow
<1>2. PICK x : x = [r EXCEPT !.signature = s]
  OBVIOUS
<1>3. x = [plan |-> r.plan, stage |-> r.stage, owner |-> r.owner,
           signature |-> s, write_date |-> r.write_date]
  BY <1>1, <1>2
<1>4. PICK y : y = [x EXCEPT !.write_date = TRUE]
  OBVIOUS
<1>5. y = [plan |-> r.plan, stage |-> r.stage, owner |-> r.owner,
           signature |-> s, write_date |-> TRUE]
  BY <1>3, <1>4
<1>6. [r EXCEPT !.signature = s, !.write_date = TRUE] = y
  BY Zenon, <1>2, <1>4
<1>7. QED
  BY <1>5, <1>6

LEMMA EscalatedTables ==
    ASSUME NEW d, Shape(d), NEW s
    PROVE  Escalated(d, s) = Marked(d, s, NoTodos)
<1> DEFINE x == [d.match[1] EXCEPT !.signature = s, !.write_date = TRUE]
<1>1. MatchRow(d.match[1])
  BY DEF Shape
<1>2. x = MarkedRow(d, s)
  BY <1>1, SignedRow DEF MarkedRow, Match
<1>3. Escalated(d, s) = [d EXCEPT !.match[1] = x, !.todo = NoTodos]
  BY Zenon DEF Escalated, NoTodos
<1> HIDE DEF x
<1>4. PICK c : c = [d EXCEPT !.match[1] = x]
  OBVIOUS
<1>5. c = Tables(<<x>>, d.slot, d.assignment, d.duty, d.todo)
  BY <1>4, FieldSet
<1>6. PICK e : e = [c EXCEPT !.todo = NoTodos]
  OBVIOUS
<1>7. e = Tables(<<x>>, d.slot, d.assignment, d.duty, NoTodos)
  BY <1>5, <1>6 DEF Tables
<1>8. Escalated(d, s) = e
  BY Zenon, <1>3, <1>4, <1>6
<1>9. QED
  BY <1>2, <1>7, <1>8 DEF Marked

LEMMA MarkedShape ==
    ASSUME NEW d, Shape(d), NEW s, NEW T, T = [t \in TodoIds |-> T[t]],
           NEW e, e = Marked(d, s, T)
    PROVE  /\ Shape(e) /\ e.assignment = d.assignment /\ e.duty = d.duty /\ e.slot = d.slot
           /\ e.todo = T /\ e.match[1] = MarkedRow(d, s)
<1>1. /\ e.assignment = d.assignment /\ e.duty = d.duty /\ e.slot = d.slot
      /\ e.todo = T /\ e.match = <<MarkedRow(d, s)>>
      /\ e = Tables(e.match, e.slot, e.assignment, e.duty, e.todo)
  BY DEF Marked, Tables
<1>2. e.match[1] = MarkedRow(d, s) /\ e.match = <<e.match[1]>>
  BY <1>1
<1>3. MatchRow(d.match[1])
  BY DEF Shape
<1>4. MatchRow(MarkedRow(d, s))
  BY <1>3 DEF MatchRow, MarkedRow, Match
<1>5. /\ d.slot = <<d.slot[1]>>
      /\ d.assignment = [a \in AssignmentIds |-> d.assignment[a]]
      /\ d.duty = [c \in Clubs |-> d.duty[c]]
      /\ \A a \in AssignmentIds : AssignmentRow(d.assignment[a])
  BY DEF Shape
<1>6. Shape(e)
  BY <1>1, <1>2, <1>4, <1>5 DEF Shape
<1>7. QED
  BY <1>1, <1>2, <1>6

LEMMA SignatureOf ==
    ASSUME NEW d
    PROVE  /\ Signature(d) # NoSignature /\ Signature(d).owner = Match(d).owner
           /\ Signature(d).waiting \subseteq Assigned(d)
           /\ \A b \in Active(d) : d.assignment[b].accepted = NoTerms
                                      => b \in Signature(d).waiting
<1>1. /\ Signature(d).state = CoverageState(d) /\ Signature(d).owner = Match(d).owner
      /\ Signature(d).waiting = {a \in Active(d) : ~Ready(d, a)}
  BY DEF Signature
<1>2. CoverageState(d) # "none"
  BY DEF CoverageState
<1>3. Signature(d) # NoSignature
  BY <1>1, <1>2 DEF NoSignature
<1>4. \A b \in Active(d) : d.assignment[b].accepted = NoTerms => ~Ready(d, b)
  BY DEF Ready, Accepted
<1>5. Active(d) \subseteq Assigned(d)
  BY DEF Active
<1>6. QED
  BY <1>1, <1>3, <1>4, <1>5

LEMMA SyncCases ==
    ASSUME NEW d, Shape(d), NEW e \in Sync(d)
    PROVE  \/ ~Overdue(d) /\ e = Marked(d, NoSignature, NoTodos)
           \/ Overdue(d) /\ e = d /\ Match(d).owner = Nobody
           \/ Overdue(d) /\ e = d /\ Known(d)
           \/ Overdue(d) /\ \E t \in TodoIds : e = Marked(d, Signature(d), ToDo(d, t))
<1>1. CASE ~Overdue(d)
  BY <1>1, EscalatedTables DEF Sync
<1>2. CASE Overdue(d) /\ (Match(d).owner = Nobody \/ Known(d))
  BY <1>2 DEF Sync
<1>3. CASE Overdue(d) /\ ~(Match(d).owner = Nobody \/ Known(d))
  <2> DEFINE c == Escalated(d, Signature(d))
             row == [state |-> "open", owner |-> Match(d).owner]
  <2>1. PICK t \in NewId(c, "todo") : e = [c EXCEPT !.todo[t] = row]
    BY <1>3 DEF Sync
  <2>2. c = Marked(d, Signature(d), NoTodos) /\ NoTodos = [u \in TodoIds |-> NoTodos[u]]
    BY EscalatedTables DEF NoTodos
  <2> HIDE DEF c
  <2>3. /\ Shape(c) /\ c.assignment = d.assignment /\ c.duty = d.duty /\ c.slot = d.slot
        /\ c.todo = NoTodos
    BY <2>2, MarkedShape
  <2>4. t \in TodoIds
    BY <2>1, <2>3, NewIds
  <2>5. c.match = <<MarkedRow(d, Signature(d))>>
    BY <2>2 DEF Marked, Tables
  <2> HIDE DEF row
  <2>6. e = Tables(c.match, c.slot, c.assignment, c.duty, [c.todo EXCEPT ![t] = row])
    BY <2>1, <2>3, FieldSet
  <2>7. e = Marked(d, Signature(d), ToDo(d, t))
    BY <2>3, <2>5, <2>6 DEF Marked, ToDo, row
  <2>8. QED
    BY <1>3, <2>4, <2>7
<1>4. QED
  BY <1>1, <1>2, <1>3

(* To-dos of which at most one is there, for the owner in the signature. *)
LEMMA MarkedKeeps ==
    ASSUME NEW d, DutyOK(d), Unmarked(d), NEW f, Working(d, f), NEW s, NEW T,
           T = [t \in TodoIds |-> T[t]],
           s # NoSignature => s.waiting \subseteq Assigned(f),
           \A t \in TodoIds : T[t] # NoRow =>
               /\ s # NoSignature /\ T[t].owner = s.owner
               /\ \A u \in TodoIds : T[u] # NoRow => u = t,
           NEW e, e = Marked(f, s, T)
    PROVE  DutyOK(e) /\ Advance(d, e) /\ Match(e).plan = Match(d).plan
<1>1. Shape(f) /\ f.match = d.match /\ Refers(f) /\ (OutForGood(d) => OutForGood(f))
  BY DEF Working
<1>2. /\ Shape(e) /\ e.assignment = f.assignment
      /\ e.todo = T /\ e.match[1] = MarkedRow(f, s)
  BY <1>1, MarkedShape
<1>3. /\ Match(e).signature = s /\ Match(e).plan = Match(d).plan
      /\ Match(e).owner = Match(d).owner /\ Match(e).write_date = TRUE
  BY <1>1, <1>2 DEF Match, MarkedRow
<1>4. Coordinated(e) = Coordinated(d)
  BY <1>3 DEF Coordinated
<1>5. Refers(e) /\ (OutForGood(d) => OutForGood(e)) /\ Assigned(e) = Assigned(f)
  BY <1>1, <1>2, SameAssignments
<1>6. Signed(e)
  BY <1>3, <1>5 DEF Signed
<1>7. OneTodo(e)
  BY <1>2, <1>3 DEF OneTodo, Todos
<1>8. DutyOK(e)
  BY <1>2, <1>4, <1>5, <1>6, <1>7 DEF DutyOK
<1>9. e.match[1] # d.match[1]
  BY <1>3 DEF Unmarked, Match
<1>10. \A a \in Assigned(e) : \/ Evidence(e, a) \subseteq Evidence(d, a)
                              \/ e.assignment[a].accepted.plan = Match(d).plan
  <2>1. \A a : Evidence(e, a) = Evidence(f, a)
    BY <1>2, SameAssignments
  <2>2. QED
    BY <1>2, <1>5, <2>1, WorkingGrows
<1>11. \A a \in Assigned(d) :
          a \in Assigned(e) /\ e.assignment[a].replaces = d.assignment[a].replaces
  BY <1>2, <1>5, WorkingGrows
<1>12. Advance(d, e)
  BY <1>4, <1>9, <1>10, <1>11 DEF Advance
<1>13. QED
  BY <1>3, <1>8, <1>12

LEMMA SyncKeeps ==
    ASSUME NEW d, DutyOK(d), Unmarked(d), NEW f, Working(d, f), NEW e \in Sync(f)
    PROVE  DutyOK(e) /\ Advance(d, e) /\ Match(e).plan = Match(d).plan
<1>1. Shape(f) /\ f.match = d.match
  BY DEF Working
<1>2. CASE e = Marked(f, NoSignature, NoTodos)
  <2>1. NoTodos = [t \in TodoIds |-> NoTodos[t]] /\ \A t \in TodoIds : NoTodos[t] = NoRow
    BY DEF NoTodos
  <2>2. QED
    BY <1>2, <2>1, MarkedKeeps
<1>3. CASE e = f /\ Match(f).owner = Nobody
  <2>1. ~Coordinated(d)
    BY <1>1, <1>3 DEF Coordinated, Match
  <2>2. QED
    BY <1>3, <2>1, PlainKeeps
<1>4. CASE e = f /\ Known(f)
  <2>1. Plain(d, f)
    <3>1. SUFFICES ASSUME NEW b \in Assigned(f) \ Assigned(d) PROVE FALSE
      BY DEF Plain
    <3>2. b \in Active(f) /\ f.assignment[b].accepted = NoTerms
      BY <3>1, WorkingGrows
    <3>3. b \in Signature(f).waiting
      BY <3>2, SignatureOf
    <3>4. Match(d).signature = Signature(f)
      BY <1>1, <1>4 DEF Known, Match
    <3>5. Match(d).signature.waiting \subseteq Assigned(d)
      BY <3>4, SignatureOf DEF DutyOK, Signed
    <3>6. QED
      BY <3>1, <3>3, <3>4, <3>5
  <2>2. QED
    BY <1>4, <2>1, PlainKeeps
<1>5. ASSUME NEW t \in TodoIds, e = Marked(f, Signature(f), ToDo(f, t))
      PROVE  DutyOK(e) /\ Advance(d, e) /\ Match(e).plan = Match(d).plan
  <2> DEFINE T == ToDo(f, t)
             s == Signature(f)
  <2>1. /\ T = [u \in TodoIds |-> T[u]]
        /\ \A u \in TodoIds : T[u] = IF u = t THEN [state |-> "open", owner |-> Match(f).owner]
                                     ELSE NoRow
    BY DEF ToDo, NoTodos
  <2>2. s # NoSignature /\ s.owner = Match(f).owner /\ s.waiting \subseteq Assigned(f)
    BY SignatureOf
  <2> HIDE DEF T, s
  <2>3. \A u \in TodoIds : T[u] # NoRow =>
               /\ s # NoSignature /\ T[u].owner = s.owner
               /\ \A v \in TodoIds : T[v] # NoRow => v = u
    BY <2>1, <2>2
  <2>4. e = Marked(f, s, T)
    BY <1>5 DEF s, T
  <2>5. QED
    BY <2>1, <2>2, <2>3, <2>4, MarkedKeeps
<1>6. QED
  BY <1>1, <1>2, <1>3, <1>4, <1>5, SyncCases

-----------------------------------------------------------------------------
(* Which rows commands change. *)
LEMMA Worked ==
    ASSUME NEW d, DutyOK(d), NEW A, A = [a \in AssignmentIds |-> A[a]],
           NEW D, D = [c \in Clubs |-> D[c]],
           \A a \in AssignmentIds : AssignmentRow(A[a]) /\ Moves(d, d.assignment[a], A[a]),
           NEW e, e = Tables(d.match, d.slot, A, D, d.todo),
           Refers(e), OutForGood(d) => OutForGood(e)
    PROVE  Working(d, e)
<1>1. /\ e.match = d.match /\ e.slot = d.slot /\ e.todo = d.todo
      /\ e.assignment = A /\ e.duty = D
  BY DEF Tables
<1>2. /\ d.match = <<d.match[1]>> /\ MatchRow(d.match[1])
      /\ d.slot = <<d.slot[1]>> /\ d.todo = [t \in TodoIds |-> d.todo[t]]
  BY DEF DutyOK, Shape
<1>3. Shape(e)
  BY <1>1, <1>2 DEF Shape
<1>4. \A a \in AssignmentIds : Moves(d, d.assignment[a], e.assignment[a])
  BY <1>1
<1>5. QED
  BY <1>1, <1>3, <1>4 DEF Working

LEMMA DutiesOf ==
    ASSUME NEW d, DutyOK(d)
    PROVE  /\ d.assignment = [a \in AssignmentIds |-> d.assignment[a]]
           /\ d.duty = [c \in Clubs |-> d.duty[c]]
           /\ \A a \in AssignmentIds : AssignmentRow(d.assignment[a])
           /\ Shape(d) /\ Refers(d)
  BY DEF DutyOK, Shape

(* One row is changed: what is out comes back only if nobody replaced it. *)
LEMMA RowChanged ==
    ASSUME NEW d, DutyOK(d), NEW a \in Assigned(d), NEW y, AssignmentRow(y), y # NoRow,
           y.replaces = d.assignment[a].replaces,
           \/ Proof(y) \subseteq Proof(d.assignment[a])
           \/ y.accepted.plan = Match(d).plan,
           \/ y.state = "cancelled"
           \/ d.assignment[a].state # "cancelled"
           \/ Successors(d, a) = {},
           NEW e, e = [d EXCEPT !.assignment[a] = y]
    PROVE  Working(d, e) /\ Plain(d, e)
<1> DEFINE A == [d.assignment EXCEPT ![a] = y]
<1>1. a \in AssignmentIds /\ d.assignment[a] # NoRow
  BY DEF Assigned
<1>2. e = Tables(d.match, d.slot, A, d.duty, d.todo)
  <2>1. Shape(d)
    BY DutiesOf
  <2>2. \A b, x : [d EXCEPT !.assignment[b] = x]
                 = Tables(d.match, d.slot, [d.assignment EXCEPT ![b] = x], d.duty, d.todo)
    BY <2>1, FieldSet
  <2>3. QED
    BY Zenon, <2>2
<1>3. /\ A = [b \in AssignmentIds |-> A[b]]
      /\ \A b \in AssignmentIds : A[b] = IF b = a THEN y ELSE d.assignment[b]
  BY <1>1, DutiesOf
<1> HIDE DEF A
<1>4. e.assignment = A
  BY <1>2 DEF Tables
<1>5. \A b \in AssignmentIds : AssignmentRow(A[b]) /\ Moves(d, d.assignment[b], A[b])
  BY <1>1, <1>3, DutiesOf DEF Moves
<1>6. Assigned(e) = Assigned(d)
  BY <1>1, <1>3, <1>4 DEF Assigned
<1>7. \A b \in Assigned(e) : e.assignment[b].replaces = d.assignment[b].replaces
  BY <1>1, <1>3, <1>4, <1>6 DEF Assigned
<1>8. \A b : Successors(e, b) = Successors(d, b)
  BY <1>6, <1>7 DEF Successors
<1>9. Refers(e)
  BY <1>6, <1>7, DutiesOf DEF Refers
<1>10. ASSUME NEW b \in Active(e) PROVE b \in Active(d) \/ Successors(d, b) = {}
  <2>1. b \in AssignmentIds /\ b \in Assigned(d) /\ e.assignment[b].state # "cancelled"
    BY <1>6, <1>10 DEF Active, Assigned
  <2>2. CASE b = a
    BY <1>3, <1>4, <2>1, <2>2 DEF Active
  <2>3. CASE b # a
    BY <1>3, <1>4, <2>1, <2>3 DEF Active
  <2>4. QED
    BY <2>2, <2>3
<1>11. OutForGood(d) => OutForGood(e)
  BY <1>6, <1>8, <1>10 DEF OutForGood
<1>12. Working(d, e)
  BY <1>2, <1>3, <1>5, <1>9, <1>11, DutiesOf, Worked
<1>13. QED
  BY <1>6, <1>12 DEF Plain

(* Somebody is assigned, in nobody's place. *)
LEMMA RowAdded ==
    ASSUME NEW d, DutyOK(d), NEW o, NEW e \in Created(d, o, NoAssignment)
    PROVE  Working(d, e) /\ Plain(d, e)
<1> DEFINE y == NewAssignment(o, NoAssignment)
<1>1. PICK a \in NewId(d, "assignment") : e = [d EXCEPT !.assignment[a] = y]
  BY DEF Created
<1>2. a \in AssignmentIds /\ d.assignment[a] = NoRow
  BY DutiesOf, NewIds
<1>3. y # NoRow /\ AssignmentRow(y) /\ y.replaces = NoAssignment
  BY FreshRow
<1>4. Moves(d, d.assignment[a], y)
  BY <1>2 DEF Moves
<1> HIDE DEF y
<1> DEFINE A == [d.assignment EXCEPT ![a] = y]
<1>5. e = Tables(d.match, d.slot, A, d.duty, d.todo)
  <2>1. Shape(d)
    BY DutiesOf
  <2>2. \A b, x : [d EXCEPT !.assignment[b] = x]
                 = Tables(d.match, d.slot, [d.assignment EXCEPT ![b] = x], d.duty, d.todo)
    BY <2>1, FieldSet
  <2>3. QED
    BY Zenon, <1>1, <2>2
<1>6. /\ A = [b \in AssignmentIds |-> A[b]]
      /\ \A b \in AssignmentIds : A[b] = IF b = a THEN y ELSE d.assignment[b]
  BY <1>2, DutiesOf
<1> HIDE DEF A
<1>7. e.assignment = A
  BY <1>5 DEF Tables
<1>8. \A b \in AssignmentIds : AssignmentRow(A[b]) /\ Moves(d, d.assignment[b], A[b])
  BY <1>3, <1>4, <1>6, DutiesOf DEF Moves
<1>9. /\ Assigned(e) = Assigned(d) \cup {a} /\ a \notin Assigned(d)
      /\ e.assignment[a] = y
      /\ \A b \in Assigned(d) : b \in AssignmentIds /\ b # a /\ e.assignment[b] = d.assignment[b]
  BY <1>2, <1>3, <1>6, <1>7 DEF Assigned
<1>10. \A b : b # NoAssignment => Successors(e, b) = Successors(d, b)
  BY <1>3, <1>9 DEF Successors
<1>11. Refers(e)
  BY <1>3, <1>9, DutiesOf DEF Refers
<1>12. Successors(d, a) = {}
  <2>1. a # NoAssignment
    BY <1>2, Ids
  <2>2. QED
    BY <1>9, <2>1, DutiesOf DEF Successors, Refers
<1>13. ASSUME OutForGood(d), NEW b \in Assigned(e), Successors(e, b) # {}
       PROVE  b \notin Active(e) /\ \E k \in AssignmentIds : Successors(e, b) = {k}
  <2>1. b # NoAssignment
    BY <1>13, Ids DEF Assigned
  <2>2. b # a /\ b \in Assigned(d) /\ Successors(d, b) # {}
    BY <1>9, <1>10, <1>12, <1>13, <2>1
  <2>3. b \notin Active(d) /\ \E k \in AssignmentIds : Successors(d, b) = {k}
    BY <1>13, <2>2 DEF OutForGood
  <2>4. QED
    BY <1>9, <1>10, <2>1, <2>2, <2>3 DEF Active
<1>14. Working(d, e)
  <2>1. OutForGood(d) => OutForGood(e)
    BY <1>13 DEF OutForGood
  <2>2. QED
    BY <1>5, <1>6, <1>8, <1>11, <2>1, DutiesOf, Worked
<1>15. QED
  BY <1>3, <1>9, <1>14 DEF Plain

(* Duties alone are changed. *)
LEMMA DutiesChanged ==
    ASSUME NEW d, DutyOK(d), NEW f, Working(d, f), NEW D, D = [c \in Clubs |-> D[c]],
           NEW e, e = [f EXCEPT !.duty = D]
    PROVE  Working(d, e) /\ (Plain(d, f) => Plain(d, e))
<1>1. /\ Shape(f) /\ f.match = d.match /\ f.slot = d.slot /\ f.todo = d.todo
      /\ \A a \in AssignmentIds : Moves(d, d.assignment[a], f.assignment[a])
      /\ Refers(f) /\ (OutForGood(d) => OutForGood(f))
  BY DEF Working
<1>2. e = Tables(f.match, f.slot, f.assignment, D, f.todo)
  BY <1>1, FieldSet
<1>3. e.assignment = f.assignment
  BY <1>2 DEF Tables
<1>4. Refers(e) /\ (OutForGood(d) => OutForGood(e)) /\ Assigned(e) = Assigned(f)
  BY <1>1, <1>3, SameAssignments
<1>5. /\ f.assignment = [a \in AssignmentIds |-> f.assignment[a]]
      /\ \A a \in AssignmentIds : AssignmentRow(f.assignment[a])
  BY <1>1 DEF Shape
<1>6. Working(d, e)
  BY <1>1, <1>2, <1>4, <1>5, Worked
<1>7. QED
  BY <1>3, <1>4, <1>6 DEF Plain

LEMMA NothingChanged ==
    ASSUME NEW d, DutyOK(d)
    PROVE  Working(d, d) /\ Plain(d, d)
<1>1. \A a \in AssignmentIds : Moves(d, d.assignment[a], d.assignment[a])
  BY DEF Moves
<1>2. QED
  BY <1>1, DutiesOf DEF Working, Plain

(* Changed fields of an assignment. *)
Answered(x, st, ac, se, pr) ==
    [x EXCEPT !.state = st, !.accepted = ac, !.seen = se, !.present = pr]
InState(x, st) == [x EXCEPT !.state = st]
Attending(x, pr) == [x EXCEPT !.present = pr]

LEMMA RowFields ==
    ASSUME NEW x, AssignmentRow(x), x # NoRow, NEW st, NEW ac, NEW se, NEW pr
    PROVE  /\ Answered(x, st, ac, se, pr)
                = [state |-> st, official |-> x.official, accepted |-> ac, seen |-> se,
                   present |-> pr, replaces |-> x.replaces]
           /\ InState(x, st)
                = [state |-> st, official |-> x.official, accepted |-> x.accepted,
                   seen |-> x.seen, present |-> x.present, replaces |-> x.replaces]
           /\ Attending(x, pr)
                = [state |-> x.state, official |-> x.official, accepted |-> x.accepted,
                   seen |-> x.seen, present |-> pr, replaces |-> x.replaces]
<1>1. x = [state |-> x.state, official |-> x.official, accepted |-> x.accepted,
           seen |-> x.seen, present |-> x.present, replaces |-> x.replaces]
  BY DEF AssignmentRow
<1>2. PICK x1 : x1 = [x EXCEPT !.state = st]
  OBVIOUS
<1>3. x1 = [state |-> st, official |-> x.official, accepted |-> x.accepted,
            seen |-> x.seen, present |-> x.present, replaces |-> x.replaces]
  BY <1>1, <1>2
<1>4. PICK x2 : x2 = [x1 EXCEPT !.accepted = ac]
  OBVIOUS
<1>5. x2 = [state |-> st, official |-> x.official, accepted |-> ac,
            seen |-> x.seen, present |-> x.present, replaces |-> x.replaces]
  BY <1>3, <1>4
<1>6. PICK x3 : x3 = [x2 EXCEPT !.seen = se]
  OBVIOUS
<1>7. x3 = [state |-> st, official |-> x.official, accepted |-> ac,
            seen |-> se, present |-> x.present, replaces |-> x.replaces]
  BY <1>5, <1>6
<1>8. PICK x4 : x4 = [x3 EXCEPT !.present = pr]
  OBVIOUS
<1>9. x4 = [state |-> st, official |-> x.official, accepted |-> ac,
            seen |-> se, present |-> pr, replaces |-> x.replaces]
  BY <1>7, <1>8
<1>10. Answered(x, st, ac, se, pr) = x4
  BY Zenon, <1>2, <1>4, <1>6, <1>8 DEF Answered
<1>11. PICK z : z = [x EXCEPT !.present = pr]
  OBVIOUS
<1>12. z = [state |-> x.state, official |-> x.official, accepted |-> x.accepted,
            seen |-> x.seen, present |-> pr, replaces |-> x.replaces]
  BY <1>1, <1>11
<1>13. InState(x, st) = x1 /\ Attending(x, pr) = z
  BY Zenon, <1>2, <1>11 DEF InState, Attending
<1>14. QED
  BY <1>3, <1>9, <1>10, <1>12, <1>13

LEMMA OffRow ==
    ASSUME NEW x, AssignmentRow(x), x # NoRow
    PROVE  /\ Off(x) # NoRow /\ AssignmentRow(Off(x)) /\ Off(x).replaces = x.replaces
           /\ Off(x).state = "cancelled" /\ Proof(Off(x)) = {}
<1>1. Off(x) = [state |-> "cancelled", official |-> x.official, accepted |-> NoTerms,
                seen |-> NoTerms, present |-> NoTerms, replaces |-> x.replaces]
  <2>1. Off(x) = Answered(x, "cancelled", NoTerms, NoTerms, NoTerms)
    BY Zenon DEF Off, Answered
  <2>2. QED
    BY <2>1, RowFields
<1> DEFINE y == [state |-> "cancelled", official |-> x.official, accepted |-> NoTerms,
                 seen |-> NoTerms, present |-> NoTerms, replaces |-> x.replaces]
<1>2. /\ y.state = "cancelled" /\ y.replaces = x.replaces
      /\ y.accepted = NoTerms /\ y.present = NoTerms
  OBVIOUS
<1>3. y # NoRow
  BY <1>2 DEF NoRow
<1>4. AssignmentRow(y)
  BY DEF AssignmentRow
<1> HIDE DEF y
<1>5. Proof(y) = {}
  BY <1>2 DEF Proof
<1>6. Off(x) = y
  BY <1>1 DEF y
<1>7. QED
  BY <1>2, <1>3, <1>4, <1>5, <1>6

LEMMA NestedRow ==
    ASSUME NEW d, NEW a, NEW y, y = Off(d.assignment[a])
    PROVE  [d EXCEPT !.assignment[a] = Off(@)] = [d EXCEPT !.assignment[a] = y]
  BY Zenon

LEMMA CancelledWork ==
    ASSUME NEW d, DutyOK(d), NEW a \in Assigned(d)
    PROVE  Working(d, Cancelled(d, a)) /\ Plain(d, Cancelled(d, a))
<1>1. CASE a \notin Active(d)
  BY <1>1, NothingChanged DEF Cancelled
<1>2. CASE a \in Active(d)
  <2>1. AssignmentRow(d.assignment[a]) /\ d.assignment[a] # NoRow
    BY DutiesOf DEF Assigned
  <2>2. PICK y : y = Off(d.assignment[a])
    OBVIOUS
  <2>3. Cancelled(d, a) = [d EXCEPT !.assignment[a] = y]
    BY Zenon, <1>2, <2>2, NestedRow DEF Cancelled
  <2>4. /\ y # NoRow /\ AssignmentRow(y) /\ y.replaces = d.assignment[a].replaces
        /\ y.state = "cancelled" /\ Proof(y) = {}
    BY <2>1, <2>2, OffRow
  <2>5. QED
    BY <2>3, <2>4, RowChanged
<1>3. QED
  BY <1>1, <1>2

(* Somebody takes the place of one that nobody has replaced. *)
LEMMA RowReplaced ==
    ASSUME NEW d, DutyOK(d), NEW old \in Assigned(d), Successors(d, old) = {}, NEW o,
           NEW f \in Created(d, o, old)
    PROVE  Working(d, Cancelled(f, old))
<1> DEFINE y == NewAssignment(o, old)
           x == d.assignment[old]
           g == Cancelled(f, old)
<1>1. PICK a \in NewId(d, "assignment") : f = [d EXCEPT !.assignment[a] = y]
  BY DEF Created
<1>2. a \in AssignmentIds /\ d.assignment[a] = NoRow
  BY DutiesOf, NewIds
<1>3. y # NoRow /\ AssignmentRow(y) /\ y.replaces = old
  BY FreshRow
<1>4. Moves(d, d.assignment[a], y)
  BY <1>2 DEF Moves
<1>5. old \in AssignmentIds /\ x # NoRow /\ AssignmentRow(x) /\ old # a
  BY <1>2, DutiesOf DEF Assigned
<1> HIDE DEF y, x
<1> DEFINE F == [d.assignment EXCEPT ![a] = y]
<1>6. f = Tables(d.match, d.slot, F, d.duty, d.todo)
  <2>1. Shape(d)
    BY DutiesOf
  <2>2. \A b, r : [d EXCEPT !.assignment[b] = r]
                 = Tables(d.match, d.slot, [d.assignment EXCEPT ![b] = r], d.duty, d.todo)
    BY <2>1, FieldSet
  <2>3. QED
    BY Zenon, <1>1, <2>2
<1>7. /\ F = [b \in AssignmentIds |-> F[b]]
      /\ \A b \in AssignmentIds : F[b] = IF b = a THEN y ELSE d.assignment[b]
  BY <1>2, DutiesOf
<1> HIDE DEF F
<1>8. \E A, z :
        /\ g = Tables(d.match, d.slot, A, d.duty, d.todo)
        /\ A = [b \in AssignmentIds |-> A[b]]
        /\ A[a] = y /\ A[old] = z
        /\ \A b \in AssignmentIds \ {a, old} : A[b] = d.assignment[b]
        /\ AssignmentRow(z) /\ z # NoRow /\ z.replaces = x.replaces
        /\ z.state = "cancelled" /\ Proof(z) \subseteq Proof(x)
  <2>1. f.assignment = F /\ F[old] = x /\ F[a] = y
    BY <1>2, <1>5, <1>6, <1>7 DEF Tables, x
  <2>2. CASE old \notin Active(f)
    <3>1. g = f
      BY <2>2 DEF Cancelled
    <3>2. x.state = "cancelled"
      BY <1>5, <2>1, <2>2 DEF Active, Assigned
    <3> HIDE DEF g
    <3>3. QED
      BY <1>5, <1>6, <1>7, <2>1, <3>1, <3>2
  <2>3. CASE old \in Active(f)
    <3>1. PICK z : z = Off(x)
      OBVIOUS
    <3>2. z = Off(f.assignment[old])
      BY <2>1, <3>1
    <3>3. g = [f EXCEPT !.assignment[old] = z]
      BY Zenon, <2>3, <3>2, NestedRow DEF Cancelled
    <3>4. /\ AssignmentRow(z) /\ z # NoRow /\ z.replaces = x.replaces
          /\ z.state = "cancelled" /\ Proof(z) = {}
      BY <1>5, <3>1, OffRow
    <3>5. Shape(f)
      <4>1. /\ f.match = d.match /\ f.slot = d.slot /\ f.duty = d.duty /\ f.todo = d.todo
            /\ f = Tables(f.match, f.slot, f.assignment, f.duty, f.todo)
        BY <1>6 DEF Tables
      <4>2. \A b \in AssignmentIds : AssignmentRow(F[b])
        BY <1>3, <1>7, DutiesOf
      <4>3. Shape(d)
        BY DutiesOf
      <4>4. QED
        BY <1>7, <2>1, <4>1, <4>2, <4>3 DEF Shape
    <3> DEFINE A == [f.assignment EXCEPT ![old] = z]
    <3>6. g = Tables(f.match, f.slot, A, f.duty, f.todo)
      <4>1. \A b, r : [f EXCEPT !.assignment[b] = r]
                 = Tables(f.match, f.slot, [f.assignment EXCEPT ![b] = r], f.duty, f.todo)
        BY <3>5, FieldSet
      <4>2. QED
        BY Zenon, <3>3, <4>1
    <3>7. /\ A = [b \in AssignmentIds |-> A[b]]
          /\ \A b \in AssignmentIds : A[b] = IF b = old THEN z ELSE F[b]
      BY <1>5, <1>7, <2>1
    <3> HIDE DEF A, g
    <3>8. f.match = d.match /\ f.slot = d.slot /\ f.duty = d.duty /\ f.todo = d.todo
      BY <1>6 DEF Tables
    <3>9. /\ A[a] = y /\ A[old] = z
          /\ \A b \in AssignmentIds \ {a, old} : A[b] = d.assignment[b]
      BY <1>2, <1>5, <1>7, <2>1, <3>7
    <3>10. g = Tables(d.match, d.slot, A, d.duty, d.todo)
      BY <3>6, <3>8
    <3>11. QED
      BY <3>4, <3>7, <3>9, <3>10
  <2>4. QED
    BY <2>2, <2>3
<1> HIDE DEF g
<1>9. PICK A, z :
        /\ g = Tables(d.match, d.slot, A, d.duty, d.todo)
        /\ A = [b \in AssignmentIds |-> A[b]]
        /\ A[a] = y /\ A[old] = z
        /\ \A b \in AssignmentIds \ {a, old} : A[b] = d.assignment[b]
        /\ AssignmentRow(z) /\ z # NoRow /\ z.replaces = x.replaces
        /\ z.state = "cancelled" /\ Proof(z) \subseteq Proof(x)
  BY <1>8
<1>10. g.assignment = A
  BY <1>9 DEF Tables
<1>11. \A b \in AssignmentIds : AssignmentRow(A[b]) /\ Moves(d, d.assignment[b], A[b])
  <2>1. Moves(d, d.assignment[old], A[old])
    BY <1>5, <1>9 DEF Moves, x
  <2>2. \A b \in AssignmentIds \ {a, old} : Moves(d, d.assignment[b], A[b])
    BY <1>9 DEF Moves
  <2>3. QED
    BY <1>3, <1>4, <1>9, <2>1, <2>2, DutiesOf
<1>12. /\ Assigned(g) = Assigned(d) \cup {a} /\ a \notin Assigned(d)
       /\ \A b \in Assigned(d) : g.assignment[b].replaces = d.assignment[b].replaces
       /\ g.assignment[a].replaces = old
  <2>1. \A b \in AssignmentIds \ {a} : A[b] # NoRow <=> d.assignment[b] # NoRow
    BY <1>5, <1>9 DEF x
  <2>2. \A b \in AssignmentIds \ {a} : A[b].replaces = d.assignment[b].replaces
    BY <1>9 DEF x
  <2>3. A[a] # NoRow /\ A[a].replaces = old
    BY <1>3, <1>9
  <2>4. QED
    BY <1>2, <1>10, <2>1, <2>2, <2>3 DEF Assigned
<1>13. \A b : b # old => Successors(g, b) = Successors(d, b)
  BY <1>12 DEF Successors
<1>14. Successors(g, old) = {a}
  BY <1>12 DEF Successors
<1>15. Refers(g)
  BY <1>12, DutiesOf DEF Refers
<1>16. Successors(d, a) = {}
  <2>1. a # NoAssignment
    BY <1>2, Ids
  <2>2. QED
    BY <1>12, <2>1, DutiesOf DEF Successors, Refers
<1>17. ASSUME OutForGood(d), NEW b \in Assigned(g), Successors(g, b) # {}
       PROVE  b \notin Active(g) /\ \E k \in AssignmentIds : Successors(g, b) = {k}
  <2>1. CASE b = old
    BY <1>2, <1>9, <1>10, <1>14, <2>1 DEF Active
  <2>2. CASE b # old
    <3>1. b # a /\ b \in Assigned(d) /\ Successors(d, b) # {}
      BY <1>12, <1>13, <1>16, <1>17, <2>2
    <3>2. b \notin Active(d) /\ \E k \in AssignmentIds : Successors(d, b) = {k}
      BY <1>17, <3>1 DEF OutForGood
    <3>3. g.assignment[b] = d.assignment[b]
      BY <1>9, <1>10, <2>2, <3>1 DEF Assigned
    <3>4. QED
      BY <1>13, <2>2, <3>1, <3>2, <3>3 DEF Active
  <2>3. QED
    BY <2>1, <2>2
<1>18. OutForGood(d) => OutForGood(g)
  BY <1>17 DEF OutForGood
<1>19. Working(d, g)
  BY <1>9, <1>11, <1>15, <1>18, DutiesOf, Worked
<1>20. QED
  BY <1>19 DEF g

-----------------------------------------------------------------------------
(* What officials and coordinators do. *)
Kept(d, e) == DutyOK(e) /\ Advance(d, e) /\ Match(e).plan = Match(d).plan

LEMMA SyncedKept ==
    ASSUME NEW d, DutyOK(d), Unmarked(d), NEW S, \A f \in S : Working(d, f), NEW e \in Synced(S)
    PROVE  Kept(d, e)
<1>1. PICK f \in S : e \in Sync(f)
  BY DEF Synced
<1>2. QED
  BY <1>1, SyncKeeps DEF Kept

LEMMA PlainKept ==
    ASSUME NEW d, DutyOK(d), NEW e, Working(d, e), Plain(d, e)
    PROVE  Kept(d, e)
  BY PlainKeeps DEF Kept

LEMMA AssignKept ==
    ASSUME NEW d, DutyOK(d), NEW e \in Assign(d)
    PROVE  Kept(d, e)
<1>1. PICK o : e \in Created(d, o, NoAssignment)
  BY DEF Assign
<1>2. QED
  BY <1>1, RowAdded, PlainKept

LEMMA AcceptKept ==
    ASSUME NEW d, DutyOK(d), Unmarked(d), NEW e \in Accept(d)
    PROVE  Kept(d, e)
<1> DEFINE Row(r, seen) == Answered(r, "confirmed", Terms(d), seen, NoTerms)
           X == {x \in Outstanding(d) \X Pages(d) : Shown(d, x[2]) /\ Eligible(d, x[1])}
           Result(x) == [d EXCEPT !.assignment[x[1]] = Row(d.assignment[x[1]], x[2])]
<1>1. ASSUME NEW x \in X PROVE Working(d, Result(x))
  <2>1. PICK a \in Outstanding(d), seen \in Pages(d) : x = <<a, seen>>
    BY <1>1
  <2>2. seen = Terms(d) /\ x[1] = a /\ x[2] = seen
    BY <1>1, <2>1 DEF Shown
  <2>3. a \in Assigned(d) /\ d.assignment[a].state # "cancelled"
    BY <2>1 DEF Outstanding
  <2>4. AssignmentRow(d.assignment[a]) /\ d.assignment[a] # NoRow
    BY <2>3, DutiesOf DEF Assigned
  <2>5. PICK y : y = Row(d.assignment[a], seen)
    OBVIOUS
  <2>6. y = [state |-> "confirmed", official |-> d.assignment[a].official,
             accepted |-> Terms(d), seen |-> Terms(d),
             present |-> NoTerms, replaces |-> d.assignment[a].replaces]
    BY <2>2, <2>4, <2>5, RowFields
  <2>7. y # NoRow
    BY <2>6 DEF NoRow
  <2>8. AssignmentRow(y)
    BY <2>6 DEF AssignmentRow
  <2>9. y.accepted.plan = Match(d).plan /\ y.replaces = d.assignment[a].replaces
    BY <2>6 DEF Terms
  <2>10. Result(x) = [d EXCEPT !.assignment[a] = y]
    BY Zenon, <2>2, <2>5
  <2> HIDE DEF Result
  <2>11. QED
    BY <2>3, <2>7, <2>8, <2>9, <2>10, RowChanged
<1>2. Accept(d) = Synced({Result(x) : x \in X})
  BY Zenon DEF Accept, Answered
<1> HIDE DEF Result, X
<1>3. \A f \in {Result(x) : x \in X} : Working(d, f)
  BY <1>1
<1>4. QED
  BY <1>2, <1>3, SyncedKept

LEMMA DeclineKept ==
    ASSUME NEW d, DutyOK(d), Unmarked(d), NEW e \in Decline(d)
    PROVE  Kept(d, e)
<1> DEFINE X == {x \in Outstanding(d) \X Pages(d) : Shown(d, x[2])}
           Result(x) == [d EXCEPT !.assignment[x[1]] = Off(@)]
<1>1. ASSUME NEW x \in X PROVE Working(d, Result(x))
  <2>1. PICK a \in Outstanding(d) : x[1] = a
    BY <1>1
  <2>2. a \in Active(d)
    BY <2>1 DEF Outstanding, Active
  <2>3. Result(x) = Cancelled(d, a)
    BY Zenon, <2>1, <2>2 DEF Cancelled
  <2>4. QED
    BY <2>2, <2>3, CancelledWork DEF Active
<1>2. e \in Synced({Result(x) : x \in X})
  BY Zenon DEF Decline
<1> HIDE DEF Result, X
<1>3. \A f \in {Result(x) : x \in X} : Working(d, f)
  BY <1>1
<1>4. QED
  BY <1>2, <1>3, SyncedKept

(* One field of an assignment that is there. *)
LEMMA FieldChanged ==
    ASSUME NEW d, DutyOK(d), NEW a \in Assigned(d), NEW p
    PROVE  LET x == d.assignment[a] IN
           /\ \/ p = NoTerms /\ x.state # "done"
              \/ p = x.accepted /\ p.plan = Match(d).plan
              => /\ Working(d, [d EXCEPT !.assignment[a].present = p])
                 /\ Plain(d, [d EXCEPT !.assignment[a].present = p])
           /\ p = "done" /\ x.state = "confirmed" /\ x.present # NoTerms
                /\ x.accepted.plan = Match(d).plan
              => /\ Working(d, [d EXCEPT !.assignment[a].state = p])
                 /\ Plain(d, [d EXCEPT !.assignment[a].state = p])
<1> DEFINE x == d.assignment[a]
<1>1. AssignmentRow(x) /\ x # NoRow
  BY DutiesOf DEF Assigned
<1>2. ASSUME \/ p = NoTerms /\ x.state # "done"
             \/ p = x.accepted /\ p.plan = Match(d).plan
      PROVE  /\ Working(d, [d EXCEPT !.assignment[a].present = p])
             /\ Plain(d, [d EXCEPT !.assignment[a].present = p])
  <2>1. PICK y : y = Attending(x, p)
    OBVIOUS
  <2>2. y = [state |-> x.state, official |-> x.official, accepted |-> x.accepted,
             seen |-> x.seen, present |-> p, replaces |-> x.replaces]
    BY <1>1, <2>1, RowFields
  <2>3. [d EXCEPT !.assignment[a].present = p] = [d EXCEPT !.assignment[a] = y]
    BY Zenon, <2>1 DEF Attending
  <2> HIDE DEF x
  <2>4. /\ y.state = x.state /\ y.replaces = x.replaces /\ y.accepted = x.accepted
        /\ y.present = p /\ y.seen = x.seen
    BY <2>2
  <2>5. x.state \in {"draft", "confirmed", "done", "cancelled"}
    BY <1>1 DEF AssignmentRow
  <2>6. y # NoRow
    BY <2>4, <2>5 DEF NoRow
  <2>7. /\ x.accepted # NoTerms => x.seen = x.accepted
        /\ x.state = "done" => x.present # NoTerms
        /\ x.present # NoTerms => x.present = x.accepted
    BY <1>1 DEF AssignmentRow
  <2>8. NoTerms.plan = 0 /\ Match(d).plan # 0
    BY DutiesOf DEF NoTerms, Shape, MatchRow, Match
  <2>9. /\ p # NoTerms => p = x.accepted
        /\ x.state = "done" => p # NoTerms
    BY <1>2, <2>8
  <2>10. AssignmentRow(y)
    BY <2>2, <2>4, <2>5, <2>7, <2>9 DEF AssignmentRow
  <2>11. Proof(y) \subseteq Proof(x) \/ y.accepted.plan = Match(d).plan
    BY <1>2, <2>4 DEF Proof
  <2>12. y.state = "cancelled" \/ x.state # "cancelled"
    BY <2>4
  <2>13. \A f : f = [d EXCEPT !.assignment[a] = y] => Working(d, f) /\ Plain(d, f)
    BY <2>4, <2>6, <2>10, <2>11, <2>12, RowChanged DEF x
  <2>14. QED
    BY Zenon, <2>3, <2>13
<1>3. ASSUME p = "done", x.state = "confirmed", x.present # NoTerms,
             x.accepted.plan = Match(d).plan
      PROVE  /\ Working(d, [d EXCEPT !.assignment[a].state = p])
             /\ Plain(d, [d EXCEPT !.assignment[a].state = p])
  <2>1. PICK y : y = InState(x, p)
    OBVIOUS
  <2>2. y = [state |-> p, official |-> x.official, accepted |-> x.accepted,
             seen |-> x.seen, present |-> x.present, replaces |-> x.replaces]
    BY <1>1, <2>1, RowFields
  <2>3. [d EXCEPT !.assignment[a].state = p] = [d EXCEPT !.assignment[a] = y]
    BY Zenon, <2>1 DEF InState
  <2> HIDE DEF x
  <2>4. y.state = "done" /\ y.replaces = x.replaces /\ y.accepted = x.accepted
    BY <1>3, <2>2
  <2>5. y # NoRow
    BY <2>4 DEF NoRow
  <2>6. AssignmentRow(y)
    BY <1>1, <1>3, <2>2 DEF AssignmentRow
  <2>7. y.accepted.plan = Match(d).plan /\ x.state # "cancelled"
    BY <1>3, <2>4
  <2>8. \A f : f = [d EXCEPT !.assignment[a] = y] => Working(d, f) /\ Plain(d, f)
    BY <2>4, <2>5, <2>6, <2>7, RowChanged DEF x
  <2>9. QED
    BY Zenon, <2>3, <2>8
<1>4. QED
  BY Zenon, <1>2, <1>3

LEMMA PresentKept ==
    ASSUME NEW d, DutyOK(d), Unmarked(d), NEW e \in MarkPresent(d)
    PROVE  Kept(d, e)
<1> DEFINE X == {a \in Active(d) : Ready(d, a)}
           Result(a) == IF d.assignment[a].present # NoTerms THEN d
                        ELSE [d EXCEPT !.assignment[a].present = Terms(d)]
<1>1. ASSUME NEW a \in X PROVE Working(d, Result(a))
  <2>1. CASE d.assignment[a].present # NoTerms
    BY <2>1, NothingChanged
  <2>2. CASE d.assignment[a].present = NoTerms
    <3>1. a \in Assigned(d)
      BY <1>1 DEF Active
    <3>2. Terms(d) = d.assignment[a].accepted /\ Terms(d).plan = Match(d).plan
      BY <1>1 DEF Ready, Accepted, Terms
    <3>3. Working(d, [d EXCEPT !.assignment[a].present = Terms(d)])
      BY <3>1, <3>2, FieldChanged
    <3>4. QED
      BY Zenon, <2>2, <3>3
  <2>3. QED
    BY <2>1, <2>2
<1>2. MarkPresent(d) = Synced({Result(a) : a \in X})
  BY Zenon DEF MarkPresent
<1> HIDE DEF Result, X
<1>3. \A f \in {Result(a) : a \in X} : Working(d, f)
  BY <1>1
<1>4. QED
  BY <1>2, <1>3, SyncedKept

LEMMA AbsentKept ==
    ASSUME NEW d, DutyOK(d), NEW e \in ClearPresence(d)
    PROVE  Kept(d, e)
<1>1. PICK a \in {a \in Assigned(d) : d.assignment[a].state # "done"} :
         e = [d EXCEPT !.assignment[a].present = NoTerms]
  BY Zenon DEF ClearPresence
<1>2. a \in Assigned(d) /\ d.assignment[a].state # "done"
  OBVIOUS
<1>3. /\ Working(d, [d EXCEPT !.assignment[a].present = NoTerms])
      /\ Plain(d, [d EXCEPT !.assignment[a].present = NoTerms])
  BY <1>2, FieldChanged
<1>4. Working(d, e) /\ Plain(d, e)
  BY Zenon, <1>1, <1>3
<1>5. QED
  BY <1>4, PlainKept

LEMMA CompleteKept ==
    ASSUME NEW d, DutyOK(d), Unmarked(d), NEW e \in Complete(d)
    PROVE  Kept(d, e)
<1> DEFINE X == {a \in Active(d) : d.assignment[a].state = "confirmed" /\ Present(d, a)}
           Result(a) == [d EXCEPT !.assignment[a].state = "done"]
<1>1. ASSUME NEW a \in X PROVE Working(d, Result(a))
  <2>1. a \in Assigned(d)
    BY <1>1 DEF Active
  <2>2. /\ d.assignment[a].state = "confirmed" /\ d.assignment[a].present # NoTerms
        /\ d.assignment[a].accepted = Terms(d) /\ Terms(d).plan = Match(d).plan
    BY <1>1 DEF Present, Ready, Accepted, Terms
  <2>3. QED
    BY <2>1, <2>2, FieldChanged
<1>2. Complete(d) = Synced({Result(a) : a \in X})
  BY Zenon DEF Complete
<1> HIDE DEF Result, X
<1>3. \A f \in {Result(a) : a \in X} : Working(d, f)
  BY <1>1
<1>4. QED
  BY <1>2, <1>3, SyncedKept

LEMMA CancelKept ==
    ASSUME NEW d, DutyOK(d), Unmarked(d), NEW e \in Cancel(d)
    PROVE  Kept(d, e)
<1> DEFINE X == {a \in Assigned(d) : d.assignment[a].state # "done"}
<1>1. \A f \in {Cancelled(d, a) : a \in X} : Working(d, f)
  BY CancelledWork
<1>2. QED
  BY <1>1, SyncedKept DEF Cancel

LEMMA ResetKept ==
    ASSUME NEW d, DutyOK(d), NEW e \in Reset(d)
    PROVE  Kept(d, e)
<1> DEFINE X == {a \in Assigned(d) :
                     /\ Resettable(d, a)
                     /\ ActiveFor(d, d.assignment[a].official) \subseteq {a}}
<1>1. PICK a \in X :
         e = [d EXCEPT !.assignment[a] = NewAssignment(@.official, @.replaces)]
  BY Zenon DEF Reset
<1>2. a \in Assigned(d) /\ Successors(d, a) = {}
  BY DEF Resettable
<1>3. PICK y : y = NewAssignment(d.assignment[a].official, d.assignment[a].replaces)
  OBVIOUS
<1>4. e = [d EXCEPT !.assignment[a] = y]
  BY Zenon, <1>1, <1>3
<1>5. /\ y # NoRow /\ AssignmentRow(y) /\ y.replaces = d.assignment[a].replaces
      /\ Proof(y) = {}
  BY <1>3, FreshRow
<1>6. Working(d, e) /\ Plain(d, e)
  BY <1>2, <1>4, <1>5, RowChanged
<1>7. QED
  BY <1>6, PlainKept

(* One duty is written, or none. *)
DutyWritten(d, e) == e = d \/ \E c, y : e = [d EXCEPT !.duty[c] = y]

LEMMA DutyWork ==
    ASSUME NEW d, DutyOK(d), NEW f, Working(d, f), NEW e, DutyWritten(f, e)
    PROVE  Working(d, e) /\ (Plain(d, f) => Plain(d, e))
<1>1. CASE e = f
  BY <1>1
<1>2. ASSUME NEW c, NEW y, e = [f EXCEPT !.duty[c] = y]
      PROVE  Working(d, e) /\ (Plain(d, f) => Plain(d, e))
  <2>1. Shape(f)
    BY DEF Working
  <2>2. PICK D : D = [f.duty EXCEPT ![c] = y]
    OBVIOUS
  <2>3. D = [k \in Clubs |-> D[k]]
    BY <2>1, <2>2 DEF Shape
  <2>4. [f EXCEPT !.duty[c] = y] = Tables(f.match, f.slot, f.assignment, D, f.todo)
    <3>1. \A k, z : [f EXCEPT !.duty[k] = z]
              = Tables(f.match, f.slot, f.assignment, [f.duty EXCEPT ![k] = z], f.todo)
      BY <2>1, FieldSet
    <3>2. QED
      BY Zenon, <2>2, <3>1
  <2>5. [f EXCEPT !.duty = D] = Tables(f.match, f.slot, f.assignment, D, f.todo)
    <3>1. \A E : [f EXCEPT !.duty = E] = Tables(f.match, f.slot, f.assignment, E, f.todo)
      BY <2>1, FieldSet
    <3>2. QED
      BY Zenon, <3>1
  <2>6. e = [f EXCEPT !.duty = D]
    BY Zenon, <1>2, <2>4, <2>5
  <2>7. QED
    BY <2>3, <2>6, DutiesChanged
<1>3. QED
  BY Zenon, <1>1, <1>2 DEF DutyWritten

LEMMA DutyCommands ==
    ASSUME NEW d, NEW e
    PROVE  /\ e \in Nominate(d) \cup Reject(d) \cup CancelDuty(d) => DutyWritten(d, e)
           /\ \A c : e \in Request(d, c) \cup Reopen(d, c) => DutyWritten(d, e)
<1>1. ASSUME NEW c, NEW s, e = [d EXCEPT !.duty[c].state = s] PROVE DutyWritten(d, e)
  <2>1. PICK y : y = [d.duty[c] EXCEPT !.state = s]
    OBVIOUS
  <2>2. e = [d EXCEPT !.duty[c] = y]
    BY Zenon, <1>1, <2>1
  <2>3. QED
    BY Zenon, <2>2 DEF DutyWritten
<1>2. ASSUME NEW c, NEW y, e = [d EXCEPT !.duty[c] = y] PROVE DutyWritten(d, e)
  BY Zenon, <1>2 DEF DutyWritten
<1>3. ASSUME e \in Nominate(d) PROVE DutyWritten(d, e)
  <2> DEFINE Result(c, o) ==
                 [d EXCEPT !.duty[c] = [@ EXCEPT !.state = "nominated", !.nominee = o]]
             S == InDuty(d, {"open", "rejected"})
  <2>1. e \in UNION {{Result(c, o) : o \in Members[c]} : c \in S}
    BY Zenon, <1>3 DEF Nominate
  <2> HIDE DEF Result, S
  <2>2. PICK c, o : e = Result(c, o)
    BY <2>1
  <2>3. e = [d EXCEPT !.duty[c] = [@ EXCEPT !.state = "nominated", !.nominee = o]]
    BY Zenon, <2>2 DEF Result
  <2>4. PICK y : y = [d.duty[c] EXCEPT !.state = "nominated", !.nominee = o]
    OBVIOUS
  <2>5. e = [d EXCEPT !.duty[c] = y]
    BY Zenon, <2>3, <2>4
  <2>6. QED
    BY <1>2, <2>5
<1>4. ASSUME e \in Reject(d) PROVE DutyWritten(d, e)
  <2>1. PICK c : e = [d EXCEPT !.duty[c].state = "rejected"]
    BY Zenon, <1>4 DEF Reject
  <2>2. QED
    BY Zenon, <1>1, <2>1
<1>5. ASSUME e \in CancelDuty(d) PROVE DutyWritten(d, e)
  <2>1. PICK c : e = [d EXCEPT !.duty[c] = [state |-> "draft", nominee |-> Nobody,
                                            assignment |-> NoAssignment]]
    BY Zenon, <1>5 DEF CancelDuty
  <2>2. QED
    BY Zenon, <1>2, <2>1
<1>6. ASSUME NEW c, e \in Request(d, c) PROVE DutyWritten(d, e)
  <2>1. \/ e = [d EXCEPT !.duty[c] = [state |-> "open", nominee |-> Nobody,
                                      assignment |-> NoAssignment]]
        \/ e = [d EXCEPT !.duty[c].state = "open"]
        \/ e = d
    BY Zenon, <1>6 DEF Request
  <2>2. QED
    BY Zenon, <1>1, <1>2, <2>1 DEF DutyWritten
<1>7. ASSUME NEW c, e \in Reopen(d, c) PROVE DutyWritten(d, e)
  <2>1. e = [d EXCEPT !.duty[c].state = "rejected"]
    BY Zenon, <1>7 DEF Reopen
  <2>2. QED
    BY Zenon, <1>1, <2>1
<1>8. QED
  BY <1>3, <1>4, <1>5, <1>6, <1>7

LEMMA LinkWork ==
    ASSUME NEW d, DutyOK(d), NEW c, NEW e \in Link(d, c)
    PROVE  Working(d, e) /\ Plain(d, e)
<1> DEFINE o == d.duty[c].nominee
           F == IF ActiveFor(d, o) = {} THEN Created(d, o, NoAssignment) ELSE {d}
           Result(f, a) ==
               [f EXCEPT !.duty[c] = [@ EXCEPT !.state = "confirmed", !.assignment = a]]
<1>1. e \in UNION {{Result(f, a) : a \in ActiveFor(f, o)} : f \in F}
  BY Zenon DEF Link
<1> HIDE DEF Result
<1>2. PICK f, a : f \in F /\ e = Result(f, a)
  BY <1>1
<1>3. e = [f EXCEPT !.duty[c] = [@ EXCEPT !.state = "confirmed", !.assignment = a]]
  BY Zenon, <1>2 DEF Result
<1>4. PICK y : y = [f.duty[c] EXCEPT !.state = "confirmed", !.assignment = a]
  OBVIOUS
<1>5. e = [f EXCEPT !.duty[c] = y]
  BY Zenon, <1>3, <1>4
<1>6. DutyWritten(f, e)
  BY Zenon, <1>5 DEF DutyWritten
<1>7. f = d \/ f \in Created(d, o, NoAssignment)
  BY <1>2
<1> HIDE DEF o
<1>8. Working(d, f) /\ Plain(d, f)
  BY <1>7, RowAdded, NothingChanged
<1>9. QED
  BY <1>6, <1>8, DutyWork

LEMMA ReplaceWork ==
    ASSUME NEW d, DutyOK(d), NEW old \in Assigned(d), NEW o, NEW e \in Replace(d, old, o)
    PROVE  Working(d, e)
<1> DEFINE D(f) == [c \in Clubs |->
                      IF c \in Serves(d, old)
                      THEN [state |-> "confirmed", nominee |-> o,
                            assignment |-> CHOOSE a \in ActiveFor(f, o) : TRUE]
                      ELSE d.duty[c]]
           Result(f) == [Cancelled(f, old) EXCEPT !.duty = D(f)]
<1>1. Successors(d, old) = {} /\ e \in Replaced(d, old, o)
  BY DEF Replace
<1>2. e \in {Result(f) : f \in Created(d, o, old)}
  BY Zenon, <1>1 DEF Replaced
<1> HIDE DEF Result
<1>3. PICK f \in Created(d, o, old) : e = Result(f)
  BY <1>2
<1>4. PICK E : E = D(f)
  OBVIOUS
<1>5. E = [c \in Clubs |-> E[c]]
  BY <1>4
<1>6. PICK g : g = Cancelled(f, old)
  OBVIOUS
<1>7. e = [g EXCEPT !.duty = E]
  BY Zenon, <1>3, <1>4, <1>6 DEF Result
<1>8. Working(d, g)
  BY <1>1, <1>6, RowReplaced
<1>9. QED
  BY <1>5, <1>7, <1>8, DutiesChanged

LEMMA ResolveKept ==
    ASSUME NEW d, DutyOK(d), Unmarked(d), NEW e \in Apply(d)
    PROVE  Kept(d, e)
<1>1. ASSUME NEW o, NEW f \in AssignOne(d, o) PROVE Working(d, f)
  <2>1. f = d \/ f \in Created(d, o, NoAssignment)
    BY <1>1 DEF AssignOne
  <2>2. QED
    BY <2>1, RowAdded, NothingChanged
<1>2. ASSUME NEW c, NEW f \in Request(d, c) \cup Link(d, c) \cup Reopen(d, c)
      PROVE  Working(d, f)
  <2>1. CASE f \in Link(d, c)
    BY <2>1, LinkWork
  <2>2. CASE f \in Request(d, c) \cup Reopen(d, c)
    BY <2>2, DutyCommands, DutyWork, NothingChanged
  <2>3. QED
    BY <1>2, <2>1, <2>2
<1>3. ASSUME NEW f \in Resolutions(d) PROVE Working(d, f)
  <2>1. \/ \E o \in Officials : f \in AssignOne(d, o)
        \/ \E x \in Assigned(d) \X Officials : f \in Replace(d, x[1], x[2])
        \/ \E c \in Clubs : f \in Request(d, c) \cup Link(d, c) \cup Reopen(d, c)
    BY <1>3 DEF Resolutions
  <2>2. ASSUME NEW x \in Assigned(d) \X Officials, f \in Replace(d, x[1], x[2])
        PROVE  Working(d, f)
    <3>1. x[1] \in Assigned(d)
      OBVIOUS
    <3>2. QED
      BY <2>2, <3>1, ReplaceWork
  <2>3. QED
    BY <1>1, <1>2, <2>1, <2>2
<1>4. e \in Synced(Resolutions(d))
  BY DEF Apply
<1>5. QED
  BY <1>3, <1>4, SyncedKept

LEMMA ClubKept ==
    ASSUME NEW d, DutyOK(d), NEW e,
           \/ e \in Nominate(d) \cup Reject(d) \cup CancelDuty(d)
           \/ \E c : e \in Request(d, c) \cup Link(d, c) \cup Reopen(d, c)
    PROVE  Kept(d, e)
<1>1. CASE \E c : e \in Link(d, c)
  BY <1>1, LinkWork, PlainKept
<1>2. CASE DutyWritten(d, e)
  <2>1. Working(d, e) /\ Plain(d, e)
    BY <1>2, DutyWork, NothingChanged
  <2>2. QED
    BY <2>1, PlainKept
<1>3. QED
  BY <1>1, <1>2, DutyCommands

LEMMA EscalateKept ==
    ASSUME NEW d, DutyOK(d), Unmarked(d), NEW e \in Escalate(d)
    PROVE  Kept(d, e)
<1>1. Working(d, d) /\ Plain(d, d)
  BY NothingChanged
<1>2. e \in Sync(d) \/ e = d
  BY DEF Escalate
<1>3. QED
  BY <1>1, <1>2, PlainKept, SyncKeeps DEF Kept

-----------------------------------------------------------------------------
(* What the rest of the system writes. *)
LEMMA ElsewhereKept ==
    ASSUME NEW d, DutyOK(d), NEW e, e = Tables(<<e.match[1]>>, <<e.slot[1]>>, d.assignment,
                                              d.duty, e.todo),
           MatchRow(e.match[1]), e.todo = [t \in TodoIds |-> e.todo[t]],
           Match(e).signature = Match(d).signature, Coordinated(e) = Coordinated(d),
           \A t \in Todos(e) : e.todo[t] = d.todo[t]
    PROVE  DutyOK(e) /\ Advance(d, e) /\ e.assignment = d.assignment
<1>1. /\ e.assignment = d.assignment /\ e.duty = d.duty
      /\ e.match = <<e.match[1]>> /\ e.slot = <<e.slot[1]>>
  BY DEF Tables
<1>2. Shape(e)
  BY <1>1, DutiesOf DEF Shape
<1>3. /\ Assigned(e) = Assigned(d) /\ (Refers(e) <=> Refers(d))
      /\ (OutForGood(e) <=> OutForGood(d)) /\ \A a : Evidence(e, a) = Evidence(d, a)
  BY <1>1, SameAssignments
<1>4. Signed(e)
  BY <1>3 DEF Signed, DutyOK
<1>5. Todos(e) \subseteq Todos(d)
  BY DEF Todos
<1>6. OneTodo(e)
  BY <1>5 DEF OneTodo, DutyOK
<1>7. DutyOK(e)
  BY <1>2, <1>3, <1>4, <1>6 DEF DutyOK
<1>8. Advance(d, e)
  BY <1>1, <1>3 DEF Advance
<1>9. QED
  BY <1>1, <1>7, <1>8

Replanned(x, p, s) == [x EXCEPT !.plan = p, !.stage = s]
HandedTo(x, u) == [x EXCEPT !.owner = u]
InStage(x, s) == [x EXCEPT !.stage = s]

LEMMA MatchFields ==
    ASSUME NEW x, MatchRow(x), NEW p, NEW s, NEW u
    PROVE  /\ Replanned(x, p, s) = [plan |-> p, stage |-> s, owner |-> x.owner,
                                    signature |-> x.signature, write_date |-> x.write_date]
           /\ HandedTo(x, u) = [plan |-> x.plan, stage |-> x.stage, owner |-> u,
                                signature |-> x.signature, write_date |-> x.write_date]
           /\ InStage(x, s) = [plan |-> x.plan, stage |-> s, owner |-> x.owner,
                               signature |-> x.signature, write_date |-> x.write_date]
<1>1. x = [plan |-> x.plan, stage |-> x.stage, owner |-> x.owner,
           signature |-> x.signature, write_date |-> x.write_date]
  BY DEF MatchRow
<1>2. PICK y : y = [x EXCEPT !.plan = p]
  OBVIOUS
<1>3. y = [plan |-> p, stage |-> x.stage, owner |-> x.owner,
           signature |-> x.signature, write_date |-> x.write_date]
  BY <1>1, <1>2
<1>4. PICK z : z = [y EXCEPT !.stage = s]
  OBVIOUS
<1>5. z = [plan |-> p, stage |-> s, owner |-> x.owner,
           signature |-> x.signature, write_date |-> x.write_date]
  BY <1>3, <1>4
<1>6. Replanned(x, p, s) = z
  BY Zenon, <1>2, <1>4 DEF Replanned
<1>7. HandedTo(x, u) = [plan |-> x.plan, stage |-> x.stage, owner |-> u,
                        signature |-> x.signature, write_date |-> x.write_date]
  BY <1>1 DEF HandedTo
<1>8. InStage(x, s) = [plan |-> x.plan, stage |-> s, owner |-> x.owner,
                       signature |-> x.signature, write_date |-> x.write_date]
  BY <1>1 DEF InStage
<1>9. QED
  BY <1>5, <1>6, <1>7, <1>8

(* The row of the match, with its signature, and with an owner if it has one. *)
LEMMA MatchWritten ==
    ASSUME NEW d, DutyOK(d), NEW y, MatchRow(y), y.signature = Match(d).signature,
           (y.owner # Nobody) = Coordinated(d),
           NEW e, e = Tables(<<y>>, d.slot, d.assignment, d.duty, d.todo)
    PROVE  DutyOK(e) /\ Advance(d, e) /\ e.assignment = d.assignment
<1>1. e.match = <<y>> /\ e.slot = d.slot /\ e.todo = d.todo
  BY DEF Tables
<1>2. d.slot = <<d.slot[1]>> /\ d.todo = [t \in TodoIds |-> d.todo[t]]
  BY DutiesOf DEF Shape
<1>3. e.match[1] = y /\ e.slot = <<e.slot[1]>> /\ e.todo = [t \in TodoIds |-> e.todo[t]]
  BY <1>1, <1>2
<1>4. e = Tables(<<e.match[1]>>, <<e.slot[1]>>, d.assignment, d.duty, e.todo)
  BY <1>1, <1>2, <1>3
<1>5. Match(e).signature = Match(d).signature /\ Coordinated(e) = Coordinated(d)
  BY <1>3 DEF Match, Coordinated
<1>6. (\A t \in Todos(e) : e.todo[t] = d.todo[t]) /\ MatchRow(e.match[1])
  BY <1>1, <1>3
<1>7. QED
  BY <1>3, <1>4, <1>5, <1>6, ElsewhereKept

LEMMA MatchChanged ==
    ASSUME NEW d, DutyOK(d), NEW y, MatchRow(y), y.signature = Match(d).signature,
           (y.owner # Nobody) = Coordinated(d),
           NEW e, e = [d EXCEPT !.match[1] = y]
    PROVE  DutyOK(e) /\ Advance(d, e) /\ e.assignment = d.assignment
<1>1. Shape(d)
  BY DutiesOf
<1>2. \A x : [d EXCEPT !.match[1] = x] = Tables(<<x>>, d.slot, d.assignment, d.duty, d.todo)
  BY <1>1, FieldSet
<1>3. e = Tables(<<y>>, d.slot, d.assignment, d.duty, d.todo)
  BY Zenon, <1>2
<1>4. QED
  BY Zenon, <1>3, MatchWritten

LEMMA OthersKept ==
    ASSUME NEW d, DutyOK(d), NEW e,
           e \in Replan(d) \cup EditSlot(d) \cup HandOver(d) \cup Dismiss(d) \cup PlayMatch(d)
    PROVE  DutyOK(e) /\ Advance(d, e) /\ e.assignment = d.assignment
<1> DEFINE x == d.match[1]
<1>1. MatchRow(x) /\ x.plan \in Nat \ {0} /\ Match(d) = x
  BY DutiesOf DEF Shape, MatchRow, Match
<1>2. CASE e \in Replan(d)
  <2>1. PICK s : e = [d EXCEPT !.match[1] = [@ EXCEPT !.plan = x.plan + 1, !.stage = s]]
    BY Zenon, <1>2 DEF Replan, Match
  <2>2. PICK y : y = [x EXCEPT !.plan = x.plan + 1, !.stage = s]
    OBVIOUS
  <2>3. e = [d EXCEPT !.match[1] = y]
    BY Zenon, <2>1, <2>2
  <2> HIDE DEF x
  <2>4. y = [plan |-> x.plan + 1, stage |-> s, owner |-> x.owner,
             signature |-> x.signature, write_date |-> x.write_date]
    <3>1. y = Replanned(x, x.plan + 1, s)
      BY Zenon, <2>2 DEF Replanned
    <3>2. QED
      BY <1>1, <3>1, MatchFields
  <2>5. MatchRow(y)
    BY <1>1, <2>4 DEF MatchRow
  <2>6. y.signature = Match(d).signature /\ (y.owner # Nobody) = Coordinated(d)
    BY <1>1, <2>4 DEF Coordinated
  <2>7. QED
    BY <2>3, <2>5, <2>6, MatchChanged
<1>3. CASE e \in EditSlot(d)
  <2>1. PICK s : s = d.slot[1] + 1
    OBVIOUS
  <2>2. e = [d EXCEPT !.slot[1] = s]
    BY Zenon, <1>3, <2>1 DEF EditSlot
  <2>3. e = Tables(d.match, <<s>>, d.assignment, d.duty, d.todo)
    <3>1. Shape(d)
      BY DutiesOf
    <3>2. \A z : [d EXCEPT !.slot[1] = z]
                   = Tables(d.match, <<z>>, d.assignment, d.duty, d.todo)
      BY <3>1, FieldSet
    <3>3. QED
      BY Zenon, <2>2, <3>2
  <2>4. e.match = d.match /\ e.slot = <<s>> /\ e.todo = d.todo
    BY <2>3 DEF Tables
  <2>5. d.match = <<d.match[1]>> /\ d.todo = [t \in TodoIds |-> d.todo[t]]
    BY DutiesOf DEF Shape
  <2>6. /\ e = Tables(<<e.match[1]>>, <<e.slot[1]>>, d.assignment, d.duty, e.todo)
        /\ e.match[1] = d.match[1] /\ e.todo = [t \in TodoIds |-> e.todo[t]]
    BY <2>3, <2>4, <2>5
  <2>7. Match(e).signature = Match(d).signature /\ Coordinated(e) = Coordinated(d)
    BY <2>4 DEF Match, Coordinated
  <2>8. QED
    BY <1>1, <2>4, <2>6, <2>7, ElsewhereKept
<1>4. CASE e \in HandOver(d)
  <2>1. PICK u \in Coordinators : /\ Match(d).owner # Nobody
                                  /\ e = [d EXCEPT !.match[1].owner = u]
    BY Zenon, <1>4 DEF HandOver
  <2>2. PICK y : y = HandedTo(x, u)
    OBVIOUS
  <2>3. e = [d EXCEPT !.match[1] = y]
    BY Zenon, <2>1, <2>2 DEF HandedTo
  <2> HIDE DEF x
  <2>4. y = [plan |-> x.plan, stage |-> x.stage, owner |-> u,
             signature |-> x.signature, write_date |-> x.write_date]
    BY <1>1, <2>2, MatchFields
  <2>5. MatchRow(y)
    BY <1>1, <2>4 DEF MatchRow
  <2>6. y.signature = Match(d).signature /\ (y.owner # Nobody) = Coordinated(d)
    BY <1>1, <2>1, <2>4, Ids DEF Coordinated
  <2>7. QED
    BY <2>3, <2>5, <2>6, MatchChanged
<1>5. CASE e \in Dismiss(d)
  <2>1. PICK t \in Todos(d) : e = [d EXCEPT !.todo[t] = NoRow]
    BY Zenon, <1>5 DEF Dismiss
  <2>2. PICK T : T = [d.todo EXCEPT ![t] = NoRow]
    OBVIOUS
  <2>3. e = Tables(d.match, d.slot, d.assignment, d.duty, T)
    <3>1. Shape(d)
      BY DutiesOf
    <3>2. \A k, z : [d EXCEPT !.todo[k] = z]
                   = Tables(d.match, d.slot, d.assignment, d.duty, [d.todo EXCEPT ![k] = z])
      BY <3>1, FieldSet
    <3>3. QED
      BY Zenon, <2>1, <2>2, <3>2
  <2>4. e.match = d.match /\ e.slot = d.slot /\ e.todo = T
    BY <2>3 DEF Tables
  <2>5. /\ d.match = <<d.match[1]>> /\ d.slot = <<d.slot[1]>>
        /\ d.todo = [k \in TodoIds |-> d.todo[k]]
    BY DutiesOf DEF Shape
  <2>6. /\ T = [k \in TodoIds |-> T[k]]
        /\ \A k \in TodoIds : T[k] # NoRow => T[k] = d.todo[k]
    BY <2>2, <2>5
  <2>7. /\ e = Tables(<<e.match[1]>>, <<e.slot[1]>>, d.assignment, d.duty, e.todo)
        /\ e.match[1] = d.match[1] /\ e.todo = [k \in TodoIds |-> e.todo[k]]
    BY <2>3, <2>4, <2>5, <2>6
  <2>8. Match(e).signature = Match(d).signature /\ Coordinated(e) = Coordinated(d)
    BY <2>4 DEF Match, Coordinated
  <2>9. \A k \in Todos(e) : e.todo[k] = d.todo[k]
    BY <2>4, <2>6 DEF Todos
  <2>10. QED
    BY <1>1, <2>7, <2>8, <2>9, ElsewhereKept
<1>6. CASE e \in PlayMatch(d)
  <2>1. e = [d EXCEPT !.match[1].stage = "done"]
    BY Zenon, <1>6 DEF PlayMatch
  <2>2. PICK y : y = InStage(x, "done")
    OBVIOUS
  <2>3. e = [d EXCEPT !.match[1] = y]
    BY Zenon, <2>1, <2>2 DEF InStage
  <2> HIDE DEF x
  <2>4. y = [plan |-> x.plan, stage |-> "done", owner |-> x.owner,
             signature |-> x.signature, write_date |-> x.write_date]
    BY <1>1, <2>2, MatchFields
  <2>5. MatchRow(y)
    BY <1>1, <2>4 DEF MatchRow
  <2>6. y.signature = Match(d).signature /\ (y.owner # Nobody) = Coordinated(d)
    BY <1>1, <2>4 DEF Coordinated
  <2>7. QED
    BY <2>3, <2>5, <2>6, MatchChanged
<1>7. QED
  BY <1>2, <1>3, <1>4, <1>5, <1>6

(* Every command. *)
LEMMA OutcomesKept ==
    ASSUME NEW d, DutyOK(d), Unmarked(d), NEW c \in OfMatch \cup OfOthers, NEW e \in Outcomes(c, d)
    PROVE  /\ DutyOK(e) /\ Advance(d, e)
           /\ c \in OfOthers => e.assignment = d.assignment
           /\ c \notin OfOthers => Match(e).plan = Match(d).plan
<1>1. CASE c \in OfOthers
  <2>1. e \in Replan(d) \cup EditSlot(d) \cup HandOver(d) \cup Dismiss(d) \cup PlayMatch(d)
    BY <1>1 DEF Outcomes, OfOthers
  <2>2. QED
    BY <1>1, <2>1, OthersKept
<1>2. CASE c \notin OfOthers
  <2>1. c \in {"assign", "accept", "decline", "present", "absent", "complete", "cancel",
               "reset", "club", "resolve", "escalate"}
    BY <1>2 DEF OfMatch
  <2>2. \/ e \in Assign(d) \/ e \in Accept(d) \/ e \in Decline(d) \/ e \in MarkPresent(d)
        \/ e \in ClearPresence(d) \/ e \in Complete(d) \/ e \in Cancel(d) \/ e \in Reset(d)
        \/ e \in Nominate(d) \cup Reject(d) \cup CancelDuty(d)
                 \cup UNION {Request(d, k) \cup Link(d, k) \cup Reopen(d, k) : k \in Clubs}
        \/ e \in Apply(d) \/ e \in Escalate(d)
    BY <2>1 DEF Outcomes
  <2>3. \/ e \in Assign(d) \/ e \in Accept(d) \/ e \in Decline(d) \/ e \in MarkPresent(d)
        \/ e \in ClearPresence(d) \/ e \in Complete(d) \/ e \in Cancel(d) \/ e \in Reset(d)
        \/ e \in Nominate(d) \cup Reject(d) \cup CancelDuty(d)
        \/ \E k : e \in Request(d, k) \cup Link(d, k) \cup Reopen(d, k)
        \/ e \in Apply(d) \/ e \in Escalate(d)
    BY <2>2
  <2>4. Kept(d, e)
    BY <2>3, AssignKept, AcceptKept, DeclineKept, PresentKept, AbsentKept, CompleteKept,
       CancelKept, ResetKept, ClubKept, ResolveKept, EscalateKept
  <2>5. QED
    BY <1>2, <2>4 DEF Kept
<1>3. QED
  BY <1>1, <1>2

-----------------------------------------------------------------------------
(* Overlap.  What the others may have done since the snapshot, when these are *)
(* the rows that they wrote.                                                *)
Later(d, e, others) ==
    /\ <<"match", 1>> \notin others => e.match[1] = d.match[1]
    /\ \A a \in AssignmentIds :
          <<"assignment", a>> \notin others => e.assignment[a] = d.assignment[a]
    /\ \A a \in Assigned(d) :
          a \in Assigned(e) /\ e.assignment[a].replaces = d.assignment[a].replaces
    /\ Coordinated(e) = Coordinated(d)
    /\ <<"match", 1>> \notin others =>
          /\ \A t \in Todos(e) : e.todo[t] = d.todo[t]
          /\ Coordinated(d) => \A b \in Assigned(e) \ Assigned(d) :
                                   e.assignment[b].replaces = NoAssignment

(* A command on officials holds the match, and whoever it replaces.          *)
Held(d, new, locked) ==
    \/ new.assignment = d.assignment
    \/ /\ Match(new).plan = Match(d).plan /\ <<"match", 1>> \in locked
       /\ \A b \in Assigned(new) \ Assigned(d) :
             <<"assignment", new.assignment[b].replaces>> \in locked

Mine(d, new) == [row \in Written(d, new) |-> new[row[1]][row[2]]]
Slowly(d, new) ==
    /\ DutyOK(d) /\ Unmarked(d) /\ DutyOK(new) /\ Advance(d, new)
    /\ slow = [running |-> TRUE, others |-> slow.others, locked |-> slow.locked,
               mine |-> Mine(d, new)]
    /\ Held(d, new, slow.locked) /\ Later(d, db, slow.others)
SlowOK == slow.running => \E d, new : Slowly(d, new)

DutyInv == DutyOK(db) /\ Unmarked(db) /\ SlowOK

LEMMA WrittenRows ==
    ASSUME NEW d, Shape(d), NEW e
    PROVE  /\ <<"match", 1>> \in Written(d, e) <=> e.match[1] # d.match[1]
           /\ <<"slot", 1>> \in Written(d, e) <=> e.slot[1] # d.slot[1]
           /\ \A a \in AssignmentIds :
                 <<"assignment", a>> \in Written(d, e) <=> e.assignment[a] # d.assignment[a]
           /\ \A c \in Clubs : <<"duty", c>> \in Written(d, e) <=> e.duty[c] # d.duty[c]
           /\ \A t \in TodoIds : <<"todo", t>> \in Written(d, e) <=> e.todo[t] # d.todo[t]
<1>1. ASSUME NEW t \in DOMAIN d, NEW i \in DOMAIN d[t]
      PROVE  <<t, i>> \in Written(d, e) <=> e[t][i] # d[t][i]
  BY DEF Written
<1>2. /\ {"match", "slot", "assignment", "duty", "todo"} \subseteq DOMAIN d
      /\ d["match"] = d.match /\ d["slot"] = d.slot /\ d["assignment"] = d.assignment
      /\ d["duty"] = d.duty /\ d["todo"] = d.todo
      /\ e["match"] = e.match /\ e["slot"] = e.slot /\ e["assignment"] = e.assignment
      /\ e["duty"] = e.duty /\ e["todo"] = e.todo
  <2>1. d = Tables(d.match, d.slot, d.assignment, d.duty, d.todo)
    BY DEF Shape
  <2>2. QED
    BY <2>1 DEF Tables
<1>3. DOMAIN d.assignment = AssignmentIds /\ DOMAIN d.duty = Clubs /\ DOMAIN d.todo = TodoIds
  BY DEF Shape
<1>4. 1 \in DOMAIN d.match /\ 1 \in DOMAIN d.slot
  <2>1. d.match = <<d.match[1]>> /\ d.slot = <<d.slot[1]>>
    BY DEF Shape
  <2>2. QED
    BY <2>1
<1>5. QED
  BY <1>1, <1>2, <1>3, <1>4

(* Row by row: what the slow transaction wrote, or else what is there now.   *)
Chosen(old, new, at) == IF new # old THEN new ELSE at
Joined(d, new, at, j) ==
    /\ j = Tables(j.match, j.slot, j.assignment, j.duty, j.todo)
    /\ j.match = <<j.match[1]>> /\ j.match[1] = Chosen(d.match[1], new.match[1], at.match[1])
    /\ j.slot = <<j.slot[1]>>
    /\ j.assignment = [a \in AssignmentIds |->
                          Chosen(d.assignment[a], new.assignment[a], at.assignment[a])]
    /\ j.duty = [c \in Clubs |-> Chosen(d.duty[c], new.duty[c], at.duty[c])]
    /\ j.todo = [t \in TodoIds |-> Chosen(d.todo[t], new.todo[t], at.todo[t])]

LEMMA MergedRows ==
    ASSUME NEW d, Shape(d), NEW new, Shape(db), slow.mine = Mine(d, new)
    PROVE  Joined(d, new, db, Merged)
<1> DEFINE w == Written(d, new)
           row(t, i) == IF <<t, i>> \in w THEN new[t][i] ELSE db[t][i]
           j == [t \in DOMAIN db |-> [i \in DOMAIN db[t] |-> row(t, i)]]
<1>1. DOMAIN slow.mine = w /\ \A t, i : <<t, i>> \in w => slow.mine[<<t, i>>] = new[t][i]
  BY DEF Mine
<1>2. Merged = j
  BY <1>1 DEF Merged
<1>3. DOMAIN db = {"match", "slot", "assignment", "duty", "todo"}
  <2>1. db = Tables(db.match, db.slot, db.assignment, db.duty, db.todo)
    BY DEF Shape
  <2>2. QED
    BY <2>1 DEF Tables
<1> HIDE DEF row
<1>4. /\ j = Tables(j.match, j.slot, j.assignment, j.duty, j.todo)
      /\ j.match = [i \in DOMAIN db.match |-> row("match", i)]
      /\ j.slot = [i \in DOMAIN db.slot |-> row("slot", i)]
      /\ j.assignment = [i \in DOMAIN db.assignment |-> row("assignment", i)]
      /\ j.duty = [i \in DOMAIN db.duty |-> row("duty", i)]
      /\ j.todo = [i \in DOMAIN db.todo |-> row("todo", i)]
  BY <1>3 DEF Tables
<1> HIDE DEF j
<1>5. DOMAIN db.assignment = AssignmentIds /\ DOMAIN db.duty = Clubs /\ DOMAIN db.todo = TodoIds
  BY DEF Shape
<1>6. j.match = <<j.match[1]>> /\ j.match[1] = row("match", 1) /\ j.slot = <<j.slot[1]>>
  <2>1. db.match = <<db.match[1]>> /\ db.slot = <<db.slot[1]>>
    BY DEF Shape
  <2>2. DOMAIN db.match = 1..1 /\ DOMAIN db.slot = 1..1
    BY <2>1
  <2>3. QED
    BY <1>4, <2>2
<1>7. /\ row("match", 1) = Chosen(d.match[1], new.match[1], db.match[1])
      /\ \A a \in AssignmentIds : row("assignment", a)
            = Chosen(d.assignment[a], new.assignment[a], db.assignment[a])
      /\ \A c \in Clubs : row("duty", c) = Chosen(d.duty[c], new.duty[c], db.duty[c])
      /\ \A t \in TodoIds : row("todo", t) = Chosen(d.todo[t], new.todo[t], db.todo[t])
  BY WrittenRows DEF row, Chosen
<1>8. QED
  BY <1>2, <1>4, <1>5, <1>6, <1>7 DEF Joined

(* Two that overlap, and do not conflict.                                    *)
Apart(d, new, at, locked, others) ==
    /\ DutyOK(d) /\ DutyOK(new) /\ DutyOK(at) /\ Advance(d, new)
    /\ Held(d, new, locked) /\ Later(d, at, others)
    /\ Written(d, new) \cap others = {} /\ locked \cap others = {}

LEMMA JoinedAssigned ==
    ASSUME NEW d, NEW new, NEW at, NEW locked, NEW others, Apart(d, new, at, locked, others),
           NEW j, Joined(d, new, at, j)
    PROVE  /\ Assigned(j) = Assigned(new) \cup Assigned(at)
           /\ \A a \in Assigned(new) : j.assignment[a].replaces = new.assignment[a].replaces
           /\ \A a \in Assigned(at) : j.assignment[a].replaces = at.assignment[a].replaces
           /\ \A a \in AssignmentIds :
                 \/ j.assignment[a] = at.assignment[a] /\ new.assignment[a] = d.assignment[a]
                 \/ /\ new.assignment[a] # d.assignment[a]
                    /\ at.assignment[a] = d.assignment[a]
                    /\ j.assignment[a] = new.assignment[a]
<1>1. \A a \in AssignmentIds : j.assignment[a]
         = Chosen(d.assignment[a], new.assignment[a], at.assignment[a])
  BY DEF Joined
<1>2. \A a \in AssignmentIds :
         new.assignment[a] # d.assignment[a] => at.assignment[a] = d.assignment[a]
  BY WrittenRows DEF Apart, Later, DutyOK
<1>3. \A a \in Assigned(d) :
         /\ a \in Assigned(new) /\ new.assignment[a].replaces = d.assignment[a].replaces
         /\ a \in Assigned(at) /\ at.assignment[a].replaces = d.assignment[a].replaces
  BY DEF Apart, Advance, Later
<1>4. \A a \in AssignmentIds :
         \/ j.assignment[a] = at.assignment[a] /\ new.assignment[a] = d.assignment[a]
         \/ /\ new.assignment[a] # d.assignment[a]
            /\ at.assignment[a] = d.assignment[a]
            /\ j.assignment[a] = new.assignment[a]
  BY <1>1, <1>2 DEF Chosen
<1>5. ASSUME NEW a \in AssignmentIds
      PROVE  /\ a \in Assigned(j) <=> a \in Assigned(new) \/ a \in Assigned(at)
             /\ a \in Assigned(new) => j.assignment[a].replaces = new.assignment[a].replaces
             /\ a \in Assigned(at) => j.assignment[a].replaces = at.assignment[a].replaces
  <2>1. CASE a \in Assigned(d)
    <3>1. /\ new.assignment[a] # NoRow /\ at.assignment[a] # NoRow
          /\ new.assignment[a].replaces = at.assignment[a].replaces
      BY <1>3, <2>1 DEF Assigned
    <3>2. QED
      BY <1>3, <1>4, <2>1, <3>1 DEF Assigned
  <2>2. CASE a \notin Assigned(d)
    <3>1. d.assignment[a] = NoRow
      BY <2>2 DEF Assigned
    <3>2. QED
      BY <1>4, <3>1 DEF Assigned
  <2>3. QED
    BY <2>1, <2>2
<1>6. Assigned(j) \subseteq AssignmentIds /\ Assigned(new) \subseteq AssignmentIds
      /\ Assigned(at) \subseteq AssignmentIds
  BY DEF Assigned
<1>7. QED
  BY <1>4, <1>5, <1>6

(* The match and the to-do are both of one side.                            *)
LEMMA JoinedTodo ==
    ASSUME NEW d, NEW new, NEW at, NEW locked, NEW others, Apart(d, new, at, locked, others),
           NEW j, Joined(d, new, at, j)
    PROVE  \E s \in {new, at} : /\ j.match[1] = s.match[1]
                                /\ \A t \in Todos(j) : t \in Todos(s) /\ j.todo[t] = s.todo[t]
<1>1. /\ j.match[1] = Chosen(d.match[1], new.match[1], at.match[1])
      /\ \A t \in TodoIds : j.todo[t] = Chosen(d.todo[t], new.todo[t], at.todo[t])
  BY DEF Joined
<1>2. CASE new.match[1] # d.match[1]
  <2>1. <<"match", 1>> \notin others
    BY <1>2, WrittenRows DEF Apart, DutyOK
  <2>2. \A t \in Todos(at) : at.todo[t] = d.todo[t]
    BY <2>1 DEF Apart, Later
  <2>3. j.match[1] = new.match[1]
    BY <1>1, <1>2 DEF Chosen
  <2>4. ASSUME NEW t \in Todos(j) PROVE t \in Todos(new) /\ j.todo[t] = new.todo[t]
    BY <1>1, <2>2 DEF Chosen, Todos
  <2>5. QED
    BY <2>3, <2>4
<1>3. CASE new.match[1] = d.match[1]
  <2>1. \A t \in Todos(new) : new.todo[t] = d.todo[t]
    BY <1>3 DEF Apart, Advance
  <2>2. j.match[1] = at.match[1]
    BY <1>1, <1>3 DEF Chosen
  <2>3. ASSUME NEW t \in Todos(j) PROVE t \in Todos(at) /\ j.todo[t] = at.todo[t]
    BY <1>1, <2>1 DEF Chosen, Todos
  <2>4. QED
    BY <2>2, <2>3
<1>4. QED
  BY <1>2, <1>3

(* Whoever was replaced stays out, whichever side replaced him.              *)
LEMMA JoinedOut ==
    ASSUME NEW d, NEW new, NEW at, NEW locked, NEW others, Apart(d, new, at, locked, others),
           Coordinated(d), NEW j, Joined(d, new, at, j)
    PROVE  OutForGood(j)
<1>1. OutForGood(d) /\ OutForGood(new) /\ OutForGood(at)
  BY DEF Apart, Advance, Later, DutyOK
<1>2. CASE new.assignment = d.assignment
  <2>1. \A a \in AssignmentIds : j.assignment[a] = at.assignment[a]
    BY <1>2 DEF Joined, Chosen
  <2>2. /\ j.assignment = [a \in AssignmentIds |-> j.assignment[a]]
        /\ at.assignment = [a \in AssignmentIds |-> at.assignment[a]]
    BY DEF Joined, Apart, DutyOK, Shape
  <2>3. j.assignment = at.assignment
    BY <2>1, <2>2
  <2>4. QED
    BY <1>1, <2>3, SameAssignments
<1>3. CASE new.assignment # d.assignment
  <2>1. /\ <<"match", 1>> \in locked
        /\ \A b \in Assigned(new) \ Assigned(d) :
              <<"assignment", new.assignment[b].replaces>> \in locked
    BY <1>3 DEF Apart, Held
  <2>2. \A b \in Assigned(at) \ Assigned(d) : at.assignment[b].replaces = NoAssignment
    BY <2>1 DEF Apart, Later
  <2>3. \A a \in Assigned(d) :
           /\ a \in Assigned(new) /\ new.assignment[a].replaces = d.assignment[a].replaces
           /\ a \in Assigned(at) /\ at.assignment[a].replaces = d.assignment[a].replaces
    BY DEF Apart, Advance, Later
  <2>4. \A a : a # NoAssignment => Successors(at, a) = Successors(d, a)
    BY <2>2, <2>3 DEF Successors
  <2>5. \A a : a # NoAssignment => Successors(j, a) = Successors(new, a)
    BY <2>2, <2>3, JoinedAssigned DEF Successors
  <2>6. ASSUME NEW a \in Assigned(j), Successors(j, a) # {}
        PROVE  a \notin Active(j) /\ \E k \in AssignmentIds : Successors(j, a) = {k}
    <3>1. a \in AssignmentIds /\ a # NoAssignment
      BY Ids DEF Assigned
    <3>2. a \in Assigned(new)
      <4>1. PICK b : b \in Successors(new, a)
        BY <2>5, <2>6, <3>1
      <4>2. b \in Assigned(new) /\ new.assignment[b].replaces = a
        BY <4>1 DEF Successors
      <4>3. Refers(new)
        BY DEF Apart, DutyOK
      <4>4. QED
        BY <3>1, <4>2, <4>3 DEF Refers
    <3>3. a \notin Active(new) /\ \E k \in AssignmentIds : Successors(j, a) = {k}
      BY <1>1, <2>5, <2>6, <3>1, <3>2 DEF OutForGood
    <3>4. CASE new.assignment[a] # d.assignment[a]
      <4>1. j.assignment[a] = new.assignment[a]
        BY <3>1, <3>4, JoinedAssigned
      <4>2. QED
        BY <3>2, <3>3, <4>1 DEF Active
    <3>5. CASE new.assignment[a] = d.assignment[a]
      <4>1. j.assignment[a] = at.assignment[a] /\ a \in Assigned(d)
        BY <3>1, <3>2, <3>5, JoinedAssigned DEF Assigned
      <4>2. CASE Successors(d, a) # {}
        BY <1>1, <2>3, <2>4, <3>1, <3>3, <4>1, <4>2 DEF OutForGood, Active
      <4>3. CASE Successors(d, a) = {}
        <5>1. PICK b \in Assigned(new) \ Assigned(d) : new.assignment[b].replaces = a
          <6>1. PICK b : b \in Successors(new, a)
            BY <2>5, <2>6, <3>1
          <6>2. b \in Assigned(new) /\ new.assignment[b].replaces = a
            BY <6>1 DEF Successors
          <6>3. b \notin Assigned(d)
            BY <2>3, <4>3, <6>2 DEF Successors
          <6>4. QED
            BY <6>2, <6>3
        <5>2. <<"assignment", a>> \in locked
          BY <2>1, <5>1
        <5>3. at.assignment[a] = d.assignment[a]
          BY <3>1, <5>2 DEF Apart, Later
        <5>4. j.assignment[a] = new.assignment[a]
          BY <3>5, <4>1, <5>3
        <5>5. QED
          BY <3>2, <3>3, <5>4 DEF Active
      <4>4. QED
        BY <4>2, <4>3
    <3>6. QED
      BY <3>4, <3>5
  <2>7. QED
    BY <2>6 DEF OutForGood
<1>4. QED
  BY <1>2, <1>3

LEMMA JoinedSound ==
    ASSUME NEW d, NEW new, NEW at, NEW locked, NEW others, Apart(d, new, at, locked, others),
           NEW j, Joined(d, new, at, j)
    PROVE  DutyOK(j)
<1>1. PICK s \in {new, at} : /\ j.match[1] = s.match[1]
                             /\ \A t \in Todos(j) : t \in Todos(s) /\ j.todo[t] = s.todo[t]
  BY JoinedTodo
<1>2. DutyOK(new) /\ DutyOK(at) /\ DutyOK(s)
  BY DEF Apart
<1>3. Shape(j)
  <2>1. MatchRow(j.match[1])
    BY <1>1, <1>2 DEF DutyOK, Shape
  <2>2. \A a \in AssignmentIds : AssignmentRow(j.assignment[a])
    BY <1>2, JoinedAssigned DEF DutyOK, Shape
  <2>3. QED
    BY <2>1, <2>2 DEF Joined, Shape
<1>4. Refers(j)
  <2>1. Refers(new) /\ Refers(at)
    BY <1>2 DEF DutyOK
  <2>2. QED
    BY <2>1, JoinedAssigned DEF Refers
<1>5. Match(j) = Match(s) /\ Coordinated(j) = Coordinated(s)
  BY <1>1 DEF Match, Coordinated
<1>6. Signed(j)
  <2>1. Assigned(s) \subseteq Assigned(j)
    BY JoinedAssigned
  <2>2. QED
    BY <1>2, <1>5, <2>1 DEF DutyOK, Signed
<1>7. OneTodo(j)
  BY <1>1, <1>2, <1>5 DEF DutyOK, OneTodo
<1>8. Coordinated(j) => OutForGood(j)
  <2>1. Coordinated(s) = Coordinated(d)
    BY DEF Apart, Advance, Later
  <2>2. QED
    BY <1>5, <2>1, JoinedOut
<1>9. QED
  BY <1>3, <1>4, <1>6, <1>7, <1>8 DEF DutyOK

(* What the slow one adds to the evidence is for the plan that is in force.  *)
Timely(at, e) ==
    \A a \in Assigned(e) :
        \/ Evidence(e, a) \subseteq Evidence(at, a)
        \/ e.assignment[a].accepted.plan = Match(e).plan

LEMMA JoinedTimely ==
    ASSUME NEW d, NEW new, NEW at, NEW locked, NEW others, Apart(d, new, at, locked, others),
           NEW j, Joined(d, new, at, j)
    PROVE  Timely(at, j)
<1> SUFFICES ASSUME NEW a \in Assigned(j)
             PROVE  \/ Evidence(j, a) \subseteq Evidence(at, a)
                    \/ j.assignment[a].accepted.plan = Match(j).plan
  BY DEF Timely
<1>1. a \in AssignmentIds /\ j.assignment[a] # NoRow
  BY DEF Assigned
<1>2. CASE j.assignment[a] = at.assignment[a]
  <2>1. a \in Assigned(at)
    BY <1>1, <1>2 DEF Assigned
  <2>2. QED
    BY <1>2, <2>1, EvidenceIsProof
<1>3. CASE j.assignment[a] # at.assignment[a]
  <2>1. /\ new.assignment[a] # d.assignment[a] /\ at.assignment[a] = d.assignment[a]
        /\ j.assignment[a] = new.assignment[a]
    BY <1>1, <1>3, JoinedAssigned
  <2>2. /\ Match(new).plan = Match(d).plan /\ <<"match", 1>> \in locked
    BY <2>1 DEF Apart, Held
  <2>3. Match(j).plan = Match(d).plan
    <3>1. at.match[1] = d.match[1]
      BY <2>2 DEF Apart, Later
    <3>2. Match(j) = Match(new) \/ Match(j) = Match(d)
      BY <3>1 DEF Joined, Chosen, Match
    <3>3. QED
      BY <2>2, <3>2
  <2>4. a \in Assigned(new) /\ (a \in Assigned(at) <=> a \in Assigned(d))
    BY <1>1, <2>1 DEF Assigned
  <2>5. Evidence(j, a) = Evidence(new, a) /\ Evidence(at, a) = Evidence(d, a)
    BY <2>1, <2>4, EvidenceIsProof
  <2>6. \/ Evidence(new, a) \subseteq Evidence(d, a)
        \/ new.assignment[a].accepted.plan = Match(d).plan
    BY <2>4 DEF Apart, Advance
  <2>7. QED
    BY <2>1, <2>3, <2>5, <2>6
<1>4. QED
  BY <1>2, <1>3

-----------------------------------------------------------------------------
(* A row that was written as it stood. *)
LEMMA SettledKeeps ==
    ASSUME NEW e, DutyOK(e), NEW s, s = Settled(e)
    PROVE  /\ DutyOK(s) /\ Unmarked(s)
           /\ s.assignment = e.assignment /\ s.todo = e.todo
           /\ s.duty = e.duty /\ s.slot = e.slot
           /\ Match(s).plan = Match(e).plan /\ Match(s).stage = Match(e).stage
           /\ Match(s).owner = Match(e).owner /\ Match(s).signature = Match(e).signature
           /\ Unmarked(e) => s.match[1] = e.match[1]
<1>1. PICK y : y = [e.match[1] EXCEPT !.write_date = FALSE]
  OBVIOUS
<1>2. MatchRow(e.match[1]) /\ Match(e) = e.match[1] /\ Shape(e)
  BY DutiesOf DEF Shape, Match
<1>3. e.match[1] = [plan |-> e.match[1].plan, stage |-> e.match[1].stage,
                    owner |-> e.match[1].owner, signature |-> e.match[1].signature,
                    write_date |-> e.match[1].write_date]
  BY <1>2 DEF MatchRow
<1>4. y = [plan |-> e.match[1].plan, stage |-> e.match[1].stage,
           owner |-> e.match[1].owner, signature |-> e.match[1].signature,
           write_date |-> FALSE]
  <2> DEFINE x == e.match[1]
  <2>1. x = [plan |-> x.plan, stage |-> x.stage, owner |-> x.owner,
             signature |-> x.signature, write_date |-> x.write_date]
    BY <1>3
  <2>2. y = [x EXCEPT !.write_date = FALSE]
    BY <1>1
  <2> HIDE DEF x
  <2>3. y = [plan |-> x.plan, stage |-> x.stage, owner |-> x.owner,
             signature |-> x.signature, write_date |-> FALSE]
    BY <2>1, <2>2
  <2>4. QED
    BY <2>3 DEF x
<1>5. s = [e EXCEPT !.match[1] = y]
  BY Zenon, <1>1 DEF Settled
<1>6. s = Tables(<<y>>, e.slot, e.assignment, e.duty, e.todo)
  <2>1. \A x : [e EXCEPT !.match[1] = x] = Tables(<<x>>, e.slot, e.assignment, e.duty, e.todo)
    BY <1>2, FieldSet
  <2>2. QED
    BY Zenon, <1>5, <2>1
<1>7. /\ s.match[1] = y /\ s.assignment = e.assignment /\ s.todo = e.todo
      /\ s.duty = e.duty /\ s.slot = e.slot /\ Match(s) = y
  BY <1>6 DEF Tables, Match
<1>8. /\ y.plan = Match(e).plan /\ y.stage = Match(e).stage /\ y.owner = Match(e).owner
      /\ y.signature = Match(e).signature /\ y.write_date = FALSE
  BY <1>2, <1>4
<1>9. MatchRow(y)
  BY <1>2, <1>4 DEF MatchRow
<1>10. (y.owner # Nobody) = Coordinated(e)
  BY <1>8 DEF Coordinated
<1>11. DutyOK(s)
  <2>1. PICK f : f = s
    OBVIOUS
  <2>2. f = Tables(<<y>>, e.slot, e.assignment, e.duty, e.todo)
    BY <1>6, <2>1
  <2>3. DutyOK(f)
    BY <1>8, <1>9, <1>10, <2>2, MatchWritten
  <2>4. QED
    BY <2>1, <2>3
<1>12. Unmarked(s)
  BY <1>7, <1>8 DEF Unmarked
<1>13. Unmarked(e) => y = e.match[1]
  BY <1>2, <1>3, <1>4 DEF Unmarked
<1>14. QED
  BY <1>7, <1>8, <1>11, <1>12, <1>13

LEMMA LaterAtOnce ==
    ASSUME NEW d
    PROVE  Later(d, d, {})
  BY DEF Later

(* One more of the others commits. *)
LEMMA LaterStill ==
    ASSUME NEW d, Unmarked(d), NEW at, DutyOK(at), NEW e, DutyOK(e), Advance(at, e),
           NEW others, Later(d, at, others), NEW s, s = Settled(e)
    PROVE  Later(d, s, others \cup Written(at, e))
<1> DEFINE o == others \cup Written(at, e)
<1>1. /\ s.assignment = e.assignment /\ s.todo = e.todo
      /\ Match(s).owner = Match(e).owner
      /\ Unmarked(e) => s.match[1] = e.match[1]
  BY SettledKeeps
<1>2. Shape(at)
  BY DEF DutyOK
<1>3. Assigned(s) = Assigned(e) /\ Coordinated(s) = Coordinated(e) /\ Todos(s) = Todos(e)
  BY <1>1 DEF Assigned, Coordinated, Todos
<1>4. <<"match", 1>> \notin o => e.match[1] = at.match[1] /\ at.match[1] = d.match[1]
  BY <1>2, WrittenRows DEF Later
<1>5. <<"match", 1>> \notin o => s.match[1] = d.match[1]
  <2>1. e.match[1] = d.match[1] => Unmarked(e)
    BY DEF Unmarked, Match
  <2>2. QED
    BY <1>1, <1>4, <2>1
<1>6. \A a \in AssignmentIds :
         <<"assignment", a>> \notin o => s.assignment[a] = d.assignment[a]
  BY <1>1, <1>2, WrittenRows DEF Later
<1>7. \A a \in Assigned(d) :
         a \in Assigned(s) /\ s.assignment[a].replaces = d.assignment[a].replaces
  BY <1>1, <1>3 DEF Later, Advance
<1>8. Coordinated(s) = Coordinated(d)
  BY <1>3 DEF Later, Advance
<1>9. ASSUME <<"match", 1>> \notin o, NEW t \in Todos(s) PROVE s.todo[t] = d.todo[t]
  <2>1. e.todo[t] = at.todo[t]
    BY <1>3, <1>4, <1>9 DEF Advance
  <2>2. t \in Todos(at)
    BY <1>1, <1>9, <2>1 DEF Todos
  <2>3. QED
    BY <1>1, <1>9, <2>1, <2>2 DEF Later
<1>10. ASSUME <<"match", 1>> \notin o, Coordinated(d), NEW b \in Assigned(s) \ Assigned(d)
       PROVE  s.assignment[b].replaces = NoAssignment
  <2>1. CASE b \in Assigned(at)
    <3>1. at.assignment[b].replaces = NoAssignment
      BY <1>10, <2>1 DEF Later
    <3>2. QED
      BY <1>1, <2>1, <3>1 DEF Advance
  <2>2. CASE b \notin Assigned(at)
    <3>1. Coordinated(at) /\ e.match[1] = at.match[1]
      BY <1>4, <1>10 DEF Later
    <3>2. QED
      BY <1>1, <1>3, <1>10, <2>2, <3>1 DEF Advance
  <2>3. QED
    BY <2>1, <2>2
<1> HIDE DEF o
<1>11. Later(d, s, o)
  BY <1>5, <1>6, <1>7, <1>8, <1>9, <1>10 DEF Later
<1>12. QED
  BY <1>11 DEF o

-----------------------------------------------------------------------------
(* The invariant, action by action. *)
LEMMA InitDuty == Init => DutyInv
<1> SUFFICES ASSUME Init PROVE DutyInv
  OBVIOUS
<1>1. PICK u \in Owners :
         db = [match |-> <<[plan |-> 1, stage |-> "live", owner |-> u,
                            signature |-> NoSignature, write_date |-> FALSE]>>,
               slot |-> <<1>>,
               assignment |-> [a \in AssignmentIds |-> NoRow],
               duty |-> [c \in Clubs |-> NoRow],
               todo |-> [t \in TodoIds |-> NoRow]]
  BY DEF Init
<1>2. PICK d : d = db
  OBVIOUS
<1>3. /\ d.match = <<[plan |-> 1, stage |-> "live", owner |-> u,
                      signature |-> NoSignature, write_date |-> FALSE]>>
      /\ d.slot = <<1>>
      /\ d.assignment = [a \in AssignmentIds |-> NoRow]
      /\ d.duty = [c \in Clubs |-> NoRow] /\ d.todo = [t \in TodoIds |-> NoRow]
      /\ d = Tables(d.match, d.slot, d.assignment, d.duty, d.todo)
  BY <1>1, <1>2 DEF Tables
<1>4. d.match[1] = [plan |-> 1, stage |-> "live", owner |-> u,
                    signature |-> NoSignature, write_date |-> FALSE]
  BY <1>3
<1>5. MatchRow(d.match[1]) /\ Unmarked(d) /\ Match(d).signature = NoSignature
  BY <1>4 DEF MatchRow, Unmarked, Match
<1>6. Assigned(d) = {} /\ Todos(d) = {}
  BY <1>3 DEF Assigned, Todos
<1>7. Shape(d)
  <2>1. \A a \in AssignmentIds : AssignmentRow(d.assignment[a])
    BY <1>3 DEF AssignmentRow
  <2>2. /\ d.match = <<d.match[1]>> /\ d.slot = <<d.slot[1]>>
        /\ d.assignment = [a \in AssignmentIds |-> d.assignment[a]]
        /\ d.duty = [c \in Clubs |-> d.duty[c]]
        /\ d.todo = [t \in TodoIds |-> d.todo[t]]
    BY <1>3
  <2>3. QED
    BY <1>3, <1>5, <2>1, <2>2 DEF Shape
<1>8. DutyOK(d)
  BY <1>5, <1>6, <1>7 DEF DutyOK, Refers, Signed, OneTodo, OutForGood
<1>9. SlowOK
  BY DEF Init, SlowOK, NoTransaction
<1>10. QED
  BY <1>2, <1>5, <1>8, <1>9 DEF DutyInv

(* A command that commits at once, alone or beside the slow transaction.     *)
LEMMA RunKeeps ==
    ASSUME DutyInv, NEW c \in OfMatch \cup OfOthers, Run(c)
    PROVE  DutyInv' /\ Timely(db, db')
<1>1. PICK e \in Outcomes(c, db) :
        /\ db' = Settled(e)
        /\ slow' = IF slow.running THEN [slow EXCEPT !.others = @ \cup Written(db, e)] ELSE slow
  BY DEF Run, CommitSettled
<1>2. PICK at, s : at = db /\ s = db'
  OBVIOUS
<1>3. DutyOK(at) /\ Unmarked(at) /\ e \in Outcomes(c, at) /\ s = Settled(e)
  BY <1>1, <1>2 DEF DutyInv
<1>4. /\ DutyOK(e) /\ Advance(at, e)
      /\ c \in OfOthers => e.assignment = at.assignment
      /\ c \notin OfOthers => Match(e).plan = Match(at).plan
  BY <1>3, OutcomesKept
<1>5. /\ DutyOK(s) /\ Unmarked(s) /\ s.assignment = e.assignment
      /\ Match(s).plan = Match(e).plan
  BY <1>3, <1>4, SettledKeeps
<1>6. Timely(at, s)
  <2>1. Assigned(s) = Assigned(e) /\ \A a : Evidence(s, a) = Evidence(e, a)
    BY <1>5, SameAssignments
  <2>2. CASE c \in OfOthers
    <3>1. \A a : Evidence(e, a) = Evidence(at, a)
      BY <1>4, <2>2, SameAssignments
    <3>2. QED
      BY <2>1, <3>1 DEF Timely
  <2>3. CASE c \notin OfOthers
    BY <1>4, <1>5, <2>1, <2>3 DEF Timely, Advance
  <2>4. QED
    BY <2>2, <2>3
<1>7. SlowOK'
  <2>1. CASE ~slow.running
    BY <1>1, <2>1 DEF SlowOK
  <2>2. CASE slow.running
    <3>1. PICK d, new : Slowly(d, new)
      BY <2>2 DEF DutyInv, SlowOK
    <3>2. /\ DutyOK(d) /\ Unmarked(d) /\ DutyOK(new) /\ Advance(d, new)
          /\ slow = [running |-> TRUE, others |-> slow.others, locked |-> slow.locked,
                     mine |-> Mine(d, new)]
          /\ Held(d, new, slow.locked) /\ Later(d, at, slow.others)
      BY <1>2, <3>1 DEF Slowly
    <3>3. Later(d, s, slow.others \cup Written(at, e))
      BY <1>3, <1>4, <3>2, LaterStill
    <3>4. /\ slow' = [running |-> TRUE, others |-> slow.others \cup Written(at, e),
                      locked |-> slow.locked, mine |-> Mine(d, new)]
      <4> DEFINE before == slow.others
                 after == before \cup Written(at, e)
                 mine == Mine(d, new)
                 locked == slow.locked
      <4>1. slow = [running |-> TRUE, others |-> before, locked |-> locked, mine |-> mine]
        BY <3>2
      <4>2. slow' = [slow EXCEPT !.others = after]
        BY <1>1, <1>2, <2>2
      <4> HIDE DEF before, after, mine, locked
      <4>3. slow' = [running |-> TRUE, others |-> after, locked |-> locked, mine |-> mine]
        BY <4>1, <4>2
      <4>4. QED
        BY <4>3 DEF before, after, mine, locked
    <3>5. /\ slow'.others = slow.others \cup Written(at, e) /\ slow'.locked = slow.locked
      BY <3>4
    <3>6. Later(d, s, slow'.others) /\ Held(d, new, slow'.locked)
      BY <3>2, <3>3, <3>5
    <3>7. slow' = [running |-> TRUE, others |-> slow'.others, locked |-> slow'.locked,
                   mine |-> Mine(d, new)]
      BY <3>4, <3>5
    <3>8. Slowly(d, new)'
      BY <1>2, <3>2, <3>6, <3>7 DEF Slowly
    <3>9. QED
      BY <3>8 DEF SlowOK
  <2>3. QED
    BY <2>1, <2>2
<1>8. DutyOK(db)' /\ Unmarked(db)'
  BY <1>2, <1>5
<1>9. QED
  BY <1>2, <1>6, <1>7, <1>8 DEF DutyInv

LEMMA RunSlowlyKeeps ==
    ASSUME DutyInv, NEW c \in OfMatch \cup OfOthers, RunSlowly(c)
    PROVE  DutyInv' /\ db' = db
<1>1. PICK new \in Outcomes(c, db) :
        slow' = [running |-> TRUE, others |-> {}, locked |-> Locks(c, new),
                 mine |-> Mine(db, new)]
  BY DEF RunSlowly, BeginLocking, Mine
<1>2. db' = db
  BY DEF RunSlowly, BeginLocking
<1>3. PICK d : d = db
  OBVIOUS
<1>4. DutyOK(d) /\ Unmarked(d) /\ new \in Outcomes(c, d)
  BY <1>3 DEF DutyInv
<1>5. /\ DutyOK(new) /\ Advance(d, new)
      /\ c \in OfOthers => new.assignment = d.assignment
      /\ c \notin OfOthers => Match(new).plan = Match(d).plan
  BY <1>4, OutcomesKept
<1>6. Held(d, new, Locks(c, new))
  BY <1>3, <1>5 DEF Held, Locks
<1>7. slow'.others = {} /\ slow'.locked = Locks(c, new)
  BY <1>1
<1>8. Later(d, d, slow'.others) /\ Held(d, new, slow'.locked)
  BY <1>6, <1>7, LaterAtOnce
<1>9. slow' = [running |-> TRUE, others |-> slow'.others, locked |-> slow'.locked,
               mine |-> Mine(d, new)]
  BY <1>1, <1>3, <1>7
<1>10. Slowly(d, new)'
  BY <1>2, <1>3, <1>4, <1>5, <1>8, <1>9 DEF Slowly
<1>11. SlowOK'
  BY <1>10 DEF SlowOK
<1>12. DutyOK(db)' /\ Unmarked(db)'
  BY <1>2, <1>3, <1>4
<1>13. QED
  BY <1>2, <1>11, <1>12 DEF DutyInv

(* The slow transaction commits into what is there, or fails as a whole.     *)
LEMMA RunEndsKeeps ==
    ASSUME DutyInv, RunEnds
    PROVE  DutyInv' /\ Timely(db, db')
<1>1. /\ slow.running /\ slow' = NoTransaction
      /\ db' = IF Conflict \/ TwiceActive(Merged) THEN db ELSE Settled(Merged)
  BY DEF RunEnds, EndSettled
<1>2. PICK d, new : Slowly(d, new)
  BY <1>1 DEF DutyInv, SlowOK
<1>3. /\ DutyOK(d) /\ Unmarked(d) /\ DutyOK(new) /\ Advance(d, new)
      /\ slow.mine = Mine(d, new)
      /\ Held(d, new, slow.locked) /\ Later(d, db, slow.others)
  BY <1>2 DEF Slowly
<1>4. PICK at, s : at = db /\ s = db'
  OBVIOUS
<1>5. DutyOK(at) /\ Unmarked(at)
  BY <1>4 DEF DutyInv
<1>6. DutyOK(s) /\ Unmarked(s) /\ Timely(at, s)
  <2>1. CASE s = at
    BY <1>5, <2>1 DEF Timely
  <2>2. CASE ~Conflict /\ s = Settled(Merged)
    <3>1. Shape(db)
      BY <1>4, <1>5 DEF DutyOK
    <3>2. PICK j : j = Merged
      OBVIOUS
    <3>3. Joined(d, new, at, j)
      BY <1>3, <1>4, <3>1, <3>2, MergedRows DEF DutyOK
    <3>4. Written(d, new) \cap slow.others = {} /\ slow.locked \cap slow.others = {}
      BY <1>3, <2>2 DEF Conflict, Mine
    <3>5. PICK locked, others : locked = slow.locked /\ others = slow.others
      OBVIOUS
    <3>6. Apart(d, new, at, locked, others)
      BY <1>3, <1>4, <1>5, <3>4, <3>5 DEF Apart
    <3>7. DutyOK(j) /\ Timely(at, j)
      BY <3>3, <3>6, JoinedSound, JoinedTimely
    <3>8. s = Settled(j)
      BY <2>2, <3>2
    <3>9. /\ DutyOK(s) /\ Unmarked(s) /\ s.assignment = j.assignment
          /\ Match(s).plan = Match(j).plan
      BY <3>7, <3>8, SettledKeeps
    <3>10. Assigned(s) = Assigned(j) /\ \A a : Evidence(s, a) = Evidence(j, a)
      BY <3>9, SameAssignments
    <3>11. QED
      BY <3>7, <3>9, <3>10 DEF Timely
  <2>3. QED
    BY <1>1, <1>4, <2>1, <2>2
<1>7. SlowOK'
  BY <1>1 DEF SlowOK, NoTransaction
<1>8. DutyOK(db)' /\ Unmarked(db)'
  BY <1>4, <1>6
<1>9. QED
  BY <1>4, <1>6, <1>7, <1>8 DEF DutyInv

LEMMA StutterKeeps ==
    ASSUME DutyInv, db' = db, slow' = slow
    PROVE  DutyInv'
<1>1. DutyOK(db)' /\ Unmarked(db)'
  <2>1. PICK d : d = db
    OBVIOUS
  <2>2. DutyOK(d) /\ Unmarked(d) /\ db' = d
    BY <2>1 DEF DutyInv
  <2>3. QED
    BY <2>2
<1>2. SlowOK'
  <2>1. CASE slow.running
    <3>1. PICK d, new : Slowly(d, new)
      BY <2>1 DEF DutyInv, SlowOK
    <3>2. Slowly(d, new)'
      BY <3>1 DEF Slowly
    <3>3. QED
      BY <3>2 DEF SlowOK
  <2>2. CASE ~slow.running
    BY <2>2 DEF SlowOK
  <2>3. QED
    BY <2>1, <2>2
<1>3. QED
  BY <1>1, <1>2 DEF DutyInv

LEMMA DutyAlways == Spec => []DutyInv
<1>1. DutyInv /\ [Next]_vars => DutyInv'
  <2> SUFFICES ASSUME DutyInv, [Next]_vars PROVE DutyInv'
    OBVIOUS
  <2>1. CASE UNCHANGED vars
    BY <2>1, StutterKeeps DEF vars
  <2>2. CASE \E c \in OfMatch \cup OfOthers : Run(c)
    BY <2>2, RunKeeps
  <2>3. CASE \E c \in OfMatch \cup OfOthers : RunSlowly(c)
    BY <2>3, RunSlowlyKeeps
  <2>4. CASE RunEnds
    BY <2>4, RunEndsKeeps
  <2>5. CASE TimePasses
    BY <2>5, StutterKeeps DEF TimePasses
  <2>6. CASE \E o \in Officials : FitnessChanges(o)
    BY <2>6, StutterKeeps DEF FitnessChanges
  <2>7. QED
    BY <2>1, <2>2, <2>3, <2>4, <2>5, <2>6 DEF Next
<1>2. QED
  BY <1>1, InitDuty, PTL DEF Spec

(* An assignment that was replaced stays out, and one other takes its place, *)
(* however commands, cancellations, resets and resolutions overlap:         *)
(* action_replace in the dialog, and the locks of _coverage_lock.           *)
THEOREM ReplacedStaysOut == Spec => []ReplacedForGood
<1>1. DutyInv => ReplacedForGood
  <2> SUFFICES ASSUME DutyInv, Match(db).owner # Nobody, NEW a \in Assigned(db),
                      Successors(db, a) # {}
               PROVE  a \notin Active(db) /\ Cardinality(Successors(db, a)) = 1
    BY DEF ReplacedForGood
  <2>1. OutForGood(db)
    BY DEF DutyInv, DutyOK, Coordinated
  <2>2. a \notin Active(db) /\ \E b \in AssignmentIds : Successors(db, a) = {b}
    BY <2>1 DEF OutForGood
  <2>3. PICK b : Successors(db, a) = {b}
    BY <2>2
  <2>4. Cardinality({b}) = 1
    BY FS_Singleton
  <2>5. QED
    BY <2>2, <2>3, <2>4
<1>2. QED
  BY <1>1, DutyAlways, PTL

(* Whoever counts as accepted saw the terms in force, whoever counts as      *)
(* present came for them, and evidence is recorded for the plan in force or  *)
(* not at all: action_accept, action_mark_present and action_complete, alone *)
(* or slow.                                                                 *)
THEOREM EvidenceAlwaysOnTerms == Spec => EvidenceOnTheseTerms
<1> DEFINE OnTheseTerms(at, s) ==
               \A a \in Assigned(s) :
                   LET r == s.assignment[a] IN
                   /\ Accepted(s, a) => r.seen = Terms(s)
                   /\ Accepted(s, a) /\ r.present # NoTerms => r.present = Terms(s)
                   /\ Evidence(s, a) \ Evidence(at, a) # {} =>
                         /\ r.accepted.plan = Match(s).plan
                         /\ r.state = "done" => r.present = r.accepted
<1>1. ASSUME NEW at, NEW s, DutyOK(s), Timely(at, s) PROVE OnTheseTerms(at, s)
  <2> SUFFICES ASSUME NEW a \in Assigned(s)
               PROVE  LET r == s.assignment[a] IN
                      /\ Accepted(s, a) => r.seen = Terms(s)
                      /\ Accepted(s, a) /\ r.present # NoTerms => r.present = Terms(s)
                      /\ Evidence(s, a) \ Evidence(at, a) # {} =>
                            /\ r.accepted.plan = Match(s).plan
                            /\ r.state = "done" => r.present = r.accepted
    OBVIOUS
  <2>1. AssignmentRow(s.assignment[a]) /\ s.assignment[a] # NoRow
    BY <1>1, DutiesOf DEF Assigned
  <2>2. \/ Evidence(s, a) \subseteq Evidence(at, a)
        \/ s.assignment[a].accepted.plan = Match(s).plan
    BY <1>1 DEF Timely
  <2>3. LET r == s.assignment[a] IN
        /\ r.accepted # NoTerms => r.seen = r.accepted
        /\ r.present # NoTerms => r.present = r.accepted
        /\ r.state = "done" => r.present # NoTerms
    BY <2>1 DEF AssignmentRow
  <2>4. Accepted(s, a) => s.assignment[a].accepted # NoTerms /\ s.assignment[a].accepted = Terms(s)
    BY DEF Accepted
  <2>5. QED
    BY <2>2, <2>3, <2>4
<1>2. DutyInv /\ DutyInv' /\ [Next]_vars => [OnTheseTerms(db, db')]_vars
  <2> SUFFICES ASSUME DutyInv, DutyInv', Next PROVE OnTheseTerms(db, db')
    OBVIOUS
  <2>1. PICK at, s : at = db /\ s = db'
    OBVIOUS
  <2>2. DutyOK(s)
    BY <2>1 DEF DutyInv
  <2>3. db' = db => Timely(at, s)
    BY <2>1 DEF Timely
  <2>4. Timely(at, s)
    BY <2>1, <2>3, RunKeeps, RunSlowlyKeeps, RunEndsKeeps DEF Next, TimePasses, FitnessChanges
  <2>5. OnTheseTerms(at, s)
    BY <1>1, <2>2, <2>4
  <2>6. QED
    BY <2>1, <2>5
<1>3. [OnTheseTerms(db, db')]_vars =>
         [\A a \in Assigned(db') :
              LET r == db'.assignment[a] IN
              /\ Accepted(db', a) => r.seen = Terms(db')
              /\ Accepted(db', a) /\ r.present # NoTerms => r.present = Terms(db')
              /\ Evidence(db', a) \ Evidence(db, a) # {} =>
                    /\ r.accepted.plan = Match(db').plan
                    /\ r.state = "done" => r.present = r.accepted]_vars
  OBVIOUS
<1> HIDE DEF OnTheseTerms
<1>4. QED
  BY <1>2, <1>3, DutyAlways, PTL DEF Spec, EvidenceOnTheseTerms

-----------------------------------------------------------------------------
(* What the to-do is about: neither the signature, nor write_date, nor the    *)
(* to-do itself.                                                            *)
LEMMA CoverageStays ==
    ASSUME NEW d, NEW s, db' = s, now' = now, fit' = fit,
           Match(s).plan = Match(d).plan, Match(s).stage = Match(d).stage,
           Match(s).owner = Match(d).owner,
           s.slot = d.slot, s.assignment = d.assignment, s.duty = d.duty
    PROVE  (Overdue(db)' <=> Overdue(d)) /\ Signature(db)' = Signature(d)
<1>1. /\ Active(db)' = Active(d) /\ Owed(db)' = Owed(d)
      /\ (IsCurrent(db)' <=> IsCurrent(d))
  <2>1. Assigned(db)' = Assigned(d)
    BY DEF Assigned
  <2>2. QED
    BY <2>1 DEF Active, Owed, IsCurrent, Match
<1>2. \A a : Accepted(db, a)' <=> Accepted(d, a)
  BY DEF Accepted, Terms, Match
<1>3. \A a : Eligible(db, a)' <=> Eligible(d, a)
  BY <1>1 DEF Eligible, NoIssues
<1>4. \A a : Ready(db, a)' <=> Ready(d, a)
  BY <1>2, <1>3 DEF Ready
<1>5. \A a : Present(db, a)' <=> Present(d, a)
  BY <1>4 DEF Present
<1>6. PendingDuties(db)' = PendingDuties(d)
  BY <1>1, <1>4 DEF PendingDuties
<1>7. Requirement(db)' = Requirement(d)
  BY <1>1 DEF Requirement
<1>8. {a \in Active(db) : ~Ready(db, a)}' = {a \in Active(d) : ~Ready(d, a)}
  BY <1>1, <1>4
<1>9. {a \in Active(db) : Present(db, a)}' = {a \in Active(d) : Present(d, a)}
  BY <1>1, <1>5
<1>10. Cardinality(Active(db))' = Cardinality(Active(d))
  BY <1>1
<1>11. CoverageState(db)' = CoverageState(d)
  BY <1>1, <1>4, <1>6, <1>7, <1>10 DEF CoverageState
<1>12. Absent(db)' = Absent(d)
  BY <1>7, <1>9 DEF Absent
<1>13. Overdue(db)' <=> Overdue(d)
  BY <1>1, <1>11, <1>12 DEF Overdue, Match
<1>14. Signature(db)' = Signature(d)
  BY <1>6, <1>7, <1>8, <1>10, <1>11, <1>12 DEF Signature, Match
<1>15. QED
  BY <1>13, <1>14

LEMMA CronCatchesUp ==
    ASSUME NEW d, DutyOK(d), NEW f \in Escalate(d), DutyOK(f)
    PROVE  /\ Match(f).plan = Match(d).plan /\ Match(f).stage = Match(d).stage
           /\ Match(f).owner = Match(d).owner
           /\ f.slot = d.slot /\ f.assignment = d.assignment /\ f.duty = d.duty
           /\ ~Overdue(d) => Todos(f) = {}
           /\ Overdue(d) /\ Match(d).owner # Nobody =>
                 /\ Match(f).signature = Signature(d)
                 /\ \E t \in TodoIds : Todos(f) = {t} /\ f.todo[t].owner = Match(d).owner
<1>1. Shape(d) /\ OneTodo(d)
  BY DEF DutyOK
<1>2. ASSUME NEW s, NEW T, T = [t \in TodoIds |-> T[t]], f = Marked(d, s, T)
      PROVE  /\ Match(f).plan = Match(d).plan /\ Match(f).stage = Match(d).stage
             /\ Match(f).owner = Match(d).owner /\ Match(f).signature = s
             /\ f.slot = d.slot /\ f.assignment = d.assignment /\ f.duty = d.duty
             /\ f.todo = T
  <2>1. /\ f.slot = d.slot /\ f.assignment = d.assignment /\ f.duty = d.duty /\ f.todo = T
        /\ f.match[1] = MarkedRow(d, s)
    BY <1>1, <1>2, MarkedShape
  <2>2. QED
    BY <2>1 DEF MarkedRow, Match
<1>3. NoTodos = [t \in TodoIds |-> NoTodos[t]] /\ \A t \in TodoIds : NoTodos[t] = NoRow
  BY DEF NoTodos
<1>4. CASE ~CronDomain(d)
  <2>1. f = d /\ ~Overdue(d) /\ Match(d).signature = NoSignature
    BY <1>4 DEF Escalate, CronDomain, Overdue
  <2>2. Todos(d) = {}
    BY <1>1, <2>1 DEF OneTodo
  <2>3. QED
    BY <2>1, <2>2
<1>5. CASE ~Overdue(d) /\ f = Marked(d, NoSignature, NoTodos)
  <2>1. f.todo = NoTodos
    BY <1>2, <1>3, <1>5
  <2>2. Todos(f) = {}
    BY <1>3, <2>1 DEF Todos
  <2>3. QED
    BY <1>2, <1>3, <1>5, <2>2
<1>6. CASE Overdue(d) /\ f = d /\ Match(d).owner = Nobody
  BY <1>6
<1>7. CASE Overdue(d) /\ f = d /\ Known(d)
  <2>1. Match(d).signature = Signature(d) /\ Todos(d) # {}
    BY <1>7 DEF Known
  <2>2. PICK t : t \in Todos(d)
    BY <2>1
  <2>3. Todos(d) = {t} /\ d.todo[t].owner = Match(d).signature.owner
    BY <1>1, <2>2 DEF OneTodo
  <2>4. d.todo[t].owner = Match(d).owner /\ t \in TodoIds
    BY <2>1, <2>2, <2>3, SignatureOf DEF Todos
  <2>5. QED
    BY <1>7, <2>1, <2>3, <2>4
<1>8. ASSUME NEW t \in TodoIds, Overdue(d), f = Marked(d, Signature(d), ToDo(d, t))
      PROVE  /\ Match(f).plan = Match(d).plan /\ Match(f).stage = Match(d).stage
             /\ Match(f).owner = Match(d).owner
             /\ f.slot = d.slot /\ f.assignment = d.assignment /\ f.duty = d.duty
             /\ Match(f).signature = Signature(d)
             /\ Todos(f) = {t} /\ f.todo[t].owner = Match(d).owner
  <2> DEFINE T == ToDo(d, t)
             row == [state |-> "open", owner |-> Match(d).owner]
  <2>1. /\ T = [u \in TodoIds |-> T[u]]
        /\ \A u \in TodoIds : T[u] = IF u = t THEN row ELSE NoRow
    BY DEF ToDo, NoTodos
  <2>2. row # NoRow /\ row.owner = Match(d).owner
    BY DEF NoRow
  <2>3. f = Marked(d, Signature(d), T)
    BY <1>8
  <2> HIDE DEF T, row
  <2>4. f.todo = T
    BY <1>2, <2>1, <2>3
  <2>5. Todos(f) = {t} /\ f.todo[t].owner = Match(d).owner
    BY <2>1, <2>2, <2>4 DEF Todos
  <2>6. QED
    BY <1>2, <2>1, <2>3, <2>5
<1>9. CASE CronDomain(d)
  <2>1. f \in Sync(d)
    BY <1>9 DEF Escalate
  <2>2. \/ ~Overdue(d) /\ f = Marked(d, NoSignature, NoTodos)
        \/ Overdue(d) /\ f = d /\ Match(d).owner = Nobody
        \/ Overdue(d) /\ f = d /\ Known(d)
        \/ Overdue(d) /\ \E t \in TodoIds : f = Marked(d, Signature(d), ToDo(d, t))
    BY <1>1, <2>1, SyncCases
  <2>3. CASE Overdue(d) /\ \E t \in TodoIds : f = Marked(d, Signature(d), ToDo(d, t))
    BY <1>8, <2>3
  <2>4. QED
    BY <1>5, <1>6, <1>7, <2>2, <2>3
<1>10. QED
  BY <1>4, <1>9

(* Each run of the cron leaves the coordinator of an overdue match with one  *)
(* to-do, about what is missing now, and without one once nothing is:       *)
(* cron_escalate_coverage and _coverage_sync_escalations.                   *)
THEOREM TodosAlwaysCatchUp == Spec => []TodosCatchUp
<1>1. Init => TodosCatchUp
  BY DEF Init, TodosCatchUp
<1>2. ASSUME DutyInv, Run("escalate") PROVE TodosCatchUp'
  <2>1. PICK f \in Escalate(db) : db' = Settled(f)
    BY <1>2 DEF Run, CommitSettled, Outcomes
  <2>2. PICK d, s : d = db /\ s = db'
    OBVIOUS
  <2>3. DutyOK(d) /\ Unmarked(d) /\ f \in Escalate(d) /\ s = Settled(f)
    BY <1>2, <2>1, <2>2 DEF DutyInv
  <2>4. DutyOK(f)
    BY <2>3, EscalateKept DEF Kept
  <2>5. /\ Match(f).plan = Match(d).plan /\ Match(f).stage = Match(d).stage
        /\ Match(f).owner = Match(d).owner
        /\ f.slot = d.slot /\ f.assignment = d.assignment /\ f.duty = d.duty
        /\ ~Overdue(d) => Todos(f) = {}
        /\ Overdue(d) /\ Match(d).owner # Nobody =>
              /\ Match(f).signature = Signature(d)
              /\ \E t \in TodoIds : Todos(f) = {t} /\ f.todo[t].owner = Match(d).owner
    BY <2>3, <2>4, CronCatchesUp
  <2>6. /\ s.assignment = f.assignment /\ s.todo = f.todo /\ s.duty = f.duty /\ s.slot = f.slot
        /\ Match(s).plan = Match(f).plan /\ Match(s).stage = Match(f).stage
        /\ Match(s).owner = Match(f).owner /\ Match(s).signature = Match(f).signature
    BY <2>3, <2>4, SettledKeeps
  <2>7. now' = now /\ fit' = fit
    BY <1>2 DEF Run
  <2>8. (Overdue(db)' <=> Overdue(d)) /\ Signature(db)' = Signature(d)
    BY <2>2, <2>5, <2>6, <2>7, CoverageStays
  <2>9. Todos(db)' = Todos(f) /\ Match(db)' = Match(s) /\ db'.todo = f.todo
    BY <2>2, <2>6 DEF Todos, Match
  <2>10. QED
    BY <2>5, <2>6, <2>8, <2>9 DEF TodosCatchUp
<1>3. ASSUME TodosCatchUp, db' = db, now' = now, fit' = fit, checked' = checked
      PROVE  TodosCatchUp'
  <2>1. PICK d : d = db
    OBVIOUS
  <2>2. db' = d
    BY <1>3, <2>1
  <2>3. (Overdue(db)' <=> Overdue(d)) /\ Signature(db)' = Signature(d)
    BY <1>3, <2>2, CoverageStays
  <2>4. Todos(db)' = Todos(d) /\ Match(db)' = Match(d)
    BY <2>2 DEF Todos, Match
  <2>5. QED
    BY <1>3, <2>1, <2>2, <2>3, <2>4 DEF TodosCatchUp
<1>4. ASSUME checked' = FALSE PROVE TodosCatchUp'
  BY <1>4 DEF TodosCatchUp
<1>5. DutyInv /\ TodosCatchUp /\ [Next]_vars => TodosCatchUp'
  <2> SUFFICES ASSUME DutyInv, TodosCatchUp, [Next]_vars PROVE TodosCatchUp'
    OBVIOUS
  <2>1. CASE UNCHANGED vars
    BY <1>3, <2>1 DEF vars
  <2>2. ASSUME NEW c \in OfMatch \cup OfOthers, Run(c) PROVE TodosCatchUp'
    <3>1. CASE c = "escalate"
      BY <1>2, <2>2, <3>1
    <3>2. CASE c # "escalate"
      BY <1>4, <2>2, <3>2 DEF Run
    <3>3. QED
      BY <3>1, <3>2
  <2>3. ASSUME NEW c \in OfMatch \cup OfOthers, RunSlowly(c) PROVE TodosCatchUp'
    BY <1>3, <2>3, RunSlowlyKeeps DEF RunSlowly
  <2>4. CASE RunEnds
    BY <1>4, <2>4 DEF RunEnds
  <2>5. CASE TimePasses
    BY <1>4, <2>5 DEF TimePasses
  <2>6. CASE \E o \in Officials : FitnessChanges(o)
    BY <1>4, <2>6 DEF FitnessChanges
  <2>7. QED
    BY <2>1, <2>2, <2>3, <2>4, <2>5, <2>6 DEF Next
<1>6. QED
  BY <1>1, <1>5, DutyAlways, PTL DEF Spec
=============================================================================
