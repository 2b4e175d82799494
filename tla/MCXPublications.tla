----------------------------- MODULE MCXPublications -----------------------------
(* A small instance for TLC: calls are interchangeable. *)
EXTENDS XPublications, TLC

CallSymmetry == Permutations(Call)
=============================================================================
