---------------------------- MODULE ResultLedger ----------------------------
(***************************************************************************)
(* What the result workflow promises about official results, without any   *)
(* of its steps: a result becomes official with one score and enough       *)
(* distinct signatures, stays exactly as it is, and is withdrawn before    *)
(* anything else can be published in its place.                            *)
(***************************************************************************)
EXTENDS Naturals, FiniteSets

CONSTANTS Matches, Users, Scores, NotOfficial

VARIABLES
    quorum,        \* how many different people an official result needs
    official,      \* official[m]: the published score, or NotOfficial
    signatures     \* signatures[m]: who answers for it

ledgerVars == <<quorum, official, signatures>>

Init ==
    /\ quorum \in 1..3
    /\ official = [m \in Matches |-> NotOfficial]
    /\ signatures = [m \in Matches |-> {}]

Publish(m, s, who) ==
    /\ official[m] = NotOfficial
    /\ Cardinality(who) >= quorum
    /\ official' = [official EXCEPT ![m] = s]
    /\ signatures' = [signatures EXCEPT ![m] = who]
    /\ UNCHANGED quorum

Withdraw(m) ==
    /\ official[m] # NotOfficial
    /\ official' = [official EXCEPT ![m] = NotOfficial]
    /\ signatures' = [signatures EXCEPT ![m] = {}]
    /\ UNCHANGED quorum

Next ==
    \E m \in Matches :
        \/ \E s \in Scores, who \in SUBSET Users : Publish(m, s, who)
        \/ Withdraw(m)

Spec == Init /\ [][Next]_ledgerVars
=============================================================================
