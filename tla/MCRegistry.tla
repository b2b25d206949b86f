----------------------------- MODULE MCRegistry -----------------------------
(* Instances of Registry for TLC. *)
EXTENDS Registry, TLC

CONSTANTS a, p1, p2

MCNames == {a}
MCProcs == {p1, p2}
Symmetry == Permutations(Procs)
=============================================================================
