-------------------------- MODULE MCScheduledReplies --------------------------
(* Two replies of one chat, the second due after the first. *)
EXTENDS ScheduledReplies, TLC

CONSTANTS c1, c2, r1, r2, p1, p2

MCSendAt == (r1 :> 1) @@ (r2 :> 2)
Restarts == (p1 :> 3) @@ (p2 :> 1)
OneChat == (r1 :> c1) @@ (r2 :> c1)
=============================================================================
