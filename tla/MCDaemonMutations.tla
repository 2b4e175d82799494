-------------------------- MODULE MCDaemonMutations --------------------------
(* Small instances of DaemonMutations for TLC. *)
EXTENDS DaemonMutations, TLC

RequestSymmetry == Permutations(Requests)
=============================================================================
