--------------------------- MODULE MC_SessionView ---------------------------
(* Instances of SessionView: a user block, a text or call, and a result.   *)
EXTENDS SessionView

CONSTANT s1

OneServe == {s1}
MCResults == {3}
=============================================================================
