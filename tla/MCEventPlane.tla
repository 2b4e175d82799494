---------------------------- MODULE MCEventPlane ----------------------------
(* Small instances of EventPlane for TLC. *)
EXTENDS EventPlane, TLC

TopicSymmetry == Permutations(Topics)
=============================================================================
