-------------------------- MODULE MC_TurnLifecycle --------------------------
(* Instances of TurnLifecycle: one request slot is a client that waits for *)
(* each request to be handled; two are a second tab, or the usage probe    *)
(* the client fires by itself, overlapping a send.                         *)
EXTENDS TurnLifecycle

CONSTANTS h1, h2, q1, q2

OneSlot == {h1}
TwoSlots == {h1, h2}
TwoSpawns == {q1, q2}
=============================================================================
