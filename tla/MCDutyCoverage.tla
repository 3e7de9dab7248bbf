--------------------------- MODULE MCDutyCoverage ---------------------------
(* One match, one club that owes an official, and two coordinators. *)
EXTENDS DutyCoverage, TLC

CONSTANTS member, referee, club, c1, c2

ClubMembers == [c \in Clubs |-> {member}]
=============================================================================
