--------------------------- MODULE MCOperationJobs ---------------------------
(* One or two report schedules and an inbound delivery. *)
EXTENDS OperationJobs

CONSTANTS r1, r2, d1
=============================================================================
