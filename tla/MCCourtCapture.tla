--------------------------- MODULE MCCourtCapture ---------------------------
(* Two devices at one match. *)
EXTENDS CourtCapture

CONSTANTS tablet1, tablet2, low, high
=============================================================================
