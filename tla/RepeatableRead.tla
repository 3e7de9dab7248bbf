--------------------------- MODULE RepeatableRead ---------------------------
(***************************************************************************)
(* Transactions under REPEATABLE READ, as PostgreSQL runs them for Odoo.   *)
(*                                                                         *)
(* A database is a record of tables, a table a function from ids to rows.  *)
(* A command is the set of databases that it may leave behind.  One at a   *)
(* time may be slow: it reads only the snapshot it began with, and others  *)
(* commit before the rows it wrote are put into the database as it is then. *)
(* If somebody else wrote a row in between that it wrote, or locked, it    *)
(* fails as a whole (and Odoo starts it again on a new snapshot): whether  *)
(* the others were first, or wait for the lock and then write.  Rows that  *)
(* it only read may have changed: the write skew that this level of        *)
(* isolation permits.  Nor does a lock on a row that nobody writes help.   *)
(***************************************************************************)
EXTENDS Naturals

VARIABLES
    db,    \* the tables
    slow   \* the slow transaction, or NoTransaction

NoRow == [state |-> "none"]
NoTransaction == [running |-> FALSE]

Written(before, after) ==
    UNION {{<<t, i>> : i \in {i \in DOMAIN before[t] : after[t][i] # before[t][i]}} :
           t \in DOMAIN before}

(* Ids come from a sequence: they rise, and no two transactions get the same. *)
NewId(d, t) ==
    LET taken == {i \in DOMAIN d[t] :
                     d[t][i] # NoRow \/ (slow.running /\ <<t, i>> \in DOMAIN slow.mine)}
        later == {i \in DOMAIN d[t] : \A j \in taken : i > j}
    IN {i \in later : \A j \in later : i <= j}

(* Settled(new): what is kept of a row that was written as it stood.        *)
CommitSettled(outcomes, Settled(_)) ==
    \E new \in outcomes :
        /\ db' = Settled(new)
        /\ slow' = IF slow.running THEN [slow EXCEPT !.others = @ \cup Written(db, new)]
                   ELSE slow

Commit(outcomes) == CommitSettled(outcomes, LAMBDA d : d)

(* SELECT ... FOR UPDATE on the rows Locks(new), of which it may write some. *)
BeginLocking(outcomes, Locks(_)) ==
    /\ ~slow.running
    /\ \E new \in outcomes :
          slow' = [running |-> TRUE, others |-> {}, locked |-> Locks(new),
                   mine |-> [row \in Written(db, new) |-> new[row[1]][row[2]]]]
    /\ UNCHANGED db

Begin(outcomes) == BeginLocking(outcomes, LAMBDA new : {})

Conflict == (DOMAIN slow.mine \cup slow.locked) \cap slow.others # {}
Merged ==
    [t \in DOMAIN db |->
        [i \in DOMAIN db[t] |->
            IF <<t, i>> \in DOMAIN slow.mine THEN slow.mine[<<t, i>>] ELSE db[t][i]]]

(* Forbidden(d): a unique index, which sees what others committed, is broken. *)
EndSettled(Forbidden(_), Settled(_)) ==
    /\ slow.running
    /\ db' = IF Conflict \/ Forbidden(Merged) THEN db ELSE Settled(Merged)
    /\ slow' = NoTransaction

End == EndSettled(LAMBDA d : FALSE, LAMBDA d : d)
=============================================================================
