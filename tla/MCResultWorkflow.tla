-------------------------- MODULE MCResultWorkflow --------------------------
(* One match, three people and every workflow policy of an edition. *)
EXTENDS ResultWorkflow, TLC

CONSTANTS m1, u1, u2, u3, nil, win

AllPolicies == {p \in Policies :
    ~p.exists => ~p.verification /\ ~p.approval /\ ~p.selfVerify /\ ~p.selfApprove}
Everyone == {u1, u2, u3}
Permute == Permutations(Everyone)
=============================================================================
