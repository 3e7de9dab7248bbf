------------------------ MODULE MCSchedulePublication ------------------------
(* One match day with a fixture whose teams are known and one that waits for *)
(* a result, two slots and two people.                                      *)
EXTENDS SchedulePublication, TLC

CONSTANTS final, opening, planner, director

Independent == [review |-> TRUE, self |-> FALSE, publish |-> FALSE]
Streamlined == [review |-> FALSE, self |-> TRUE, publish |-> TRUE]
BothPolicies == {Independent, Streamlined}

Alike == Permutations(People)

(* All but the creation of a schedule, its submission, changes of slots and *)
(* plan, results that decide teams, and what deletes rows that others name. *)
Guarded == Commands \ {"create", "submit", "calendar", "result", "restart", "delete"}
=============================================================================
