------------------------ MODULE MCParticipantDelivery ------------------------
(* One event of a participant and one day of digests. *)
EXTENDS ParticipantDelivery

CONSTANTS e1, day1
=============================================================================
