----------------------------- MODULE MCIntentLeases -----------------------------
(* An instance of IntentLeases for TLC: one process nests, another competes. *)
EXTENDS IntentLeases, TLC

CONSTANTS c1, c2, c3, c4, p1, p2

MCProcOf == [c \in Call |-> IF c = c4 THEN p2 ELSE p1]
=============================================================================
