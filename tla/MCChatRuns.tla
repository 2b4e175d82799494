----------------------------- MODULE MCChatRuns -----------------------------
(* Small instances of ChatRuns for TLC. *)
EXTENDS ChatRuns, TLC

RunSymmetry == Permutations(Runs)
=============================================================================
