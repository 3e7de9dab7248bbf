-------------------------- MODULE MCOfficialTables --------------------------
(* One stage with its linked table, a plain table over the same matches, and *)
(* recompute jobs of two priorities; one person holds every duty.            *)
EXTENDS OfficialTables, TLC

CONSTANTS m1, m2, u1, nil, win, plain, stage, j1, j2

NoReview == [exists |-> TRUE, verification |-> FALSE, approval |-> FALSE,
             selfVerify |-> FALSE, selfApprove |-> FALSE]
NoReviewEdition == {NoReview}
BothEditions == {NoReview, [NoReview EXCEPT !.verification = TRUE, !.approval = TRUE,
                                            !.selfVerify = TRUE, !.selfApprove = TRUE]}

EveryMatch == [t \in Tables |-> Matches]
MatchSymmetry == Permutations(Matches)
TwoPriorities == [j \in Jobs |-> IF j = j1 THEN 10 ELSE 50]
StageJobs == [j \in Jobs |-> stage]
=============================================================================
