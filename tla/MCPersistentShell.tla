------------------------- MODULE MCPersistentShell -------------------------
(* Instances of PersistentShell for TLC. *)
EXTENDS PersistentShell, TLC

CONSTANTS c1, c2

MCOne == {c1}
MCTwo == {c1, c2}
Symmetry == Permutations(Cmds)
=============================================================================
