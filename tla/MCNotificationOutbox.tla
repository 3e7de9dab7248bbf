------------------------ MODULE MCNotificationOutbox ------------------------
(* Two logs; a reconciliation batch that holds both, or one of them. *)
EXTENDS NotificationOutbox

CONSTANTS n1, n2
=============================================================================
