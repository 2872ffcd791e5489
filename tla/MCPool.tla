------------------------------- MODULE MCPool -------------------------------
(* Small instances of Pool. *)
EXTENDS Pool, TLC

Symmetry == Permutations(Jobs) \cup Permutations(Workers)
=============================================================================
