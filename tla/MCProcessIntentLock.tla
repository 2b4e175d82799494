--------------------------- MODULE MCProcessIntentLock ---------------------------
(* An instance of ProcessIntentLock for TLC.  File names                     *)
(* with equal tickets sort against the order the attempts are declared in.   *)
EXTENDS ProcessIntentLock, TLC

CONSTANTS a1, a2, p1, p2, p3, pidA, pidB

(* Two attempts; p2 makes none, but may start behind the PID p1 had. *)
RecycledOwner == (a1 :> p1) @@ (a2 :> p3)
RecycledPidOf == (p1 :> pidA) @@ (p2 :> pidA) @@ (p3 :> pidB)

MCRank == [a \in Attempt |-> IF a = a1 THEN 2 ELSE 1]
=============================================================================
