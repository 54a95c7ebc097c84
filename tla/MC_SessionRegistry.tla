------------------------- MODULE MC_SessionRegistry -------------------------
(* Instances of SessionRegistry: one request at a time, or two that race.  *)
EXTENDS SessionRegistry

CONSTANTS r1, r2, o1, o2, o3, p1, p2

TwoRequests == {r1, r2}
MCObjects == {o1, o2, o3}
MCProcs == {p1, p2}
=============================================================================
