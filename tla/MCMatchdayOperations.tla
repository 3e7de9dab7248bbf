----------------------- MODULE MCMatchdayOperations -------------------------
(* A match of the plan and a final whose teams come late, on two slots.      *)
EXTENDS MatchdayOperations, TLC

CONSTANTS opening, final

TwoSlots == opening :> 1 @@ final :> 2
=============================================================================
