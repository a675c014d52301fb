------------------------------- MODULE MCAsk --------------------------------
(* Instances of Ask for TLC. *)
EXTENDS Ask

CONSTANTS r1, r2, s1

OneRequest == {r1}
TwoRequests == {r1, r2}
OneSession == {s1}
SameSession == [r \in Requests |-> s1]

NoTraces == {"logs", "metrics", "incident"}
OnlyLogs == {"logs"}
=============================================================================
