--------------------------- MODULE ClientDirectory ---------------------------
(***************************************************************************)
(* What the manager promises about the names of clients: a name is absent, *)
(* listed, or leaving, when Remove has taken it off the list and its       *)
(* record is still there.  Only an absent name can be added, so nobody     *)
(* takes over a record that is being deleted, and a listed one leaves by   *)
(* Remove alone.  A restart loses nothing that is listed, and lists again  *)
(* what had not quite left.                                                *)
(***************************************************************************)
EXTENDS Naturals

CONSTANT Names

VARIABLES
  status,   \* each name: "absent", "listed" or "leaving"
  restarts  \* restarts so far

vars == <<status, restarts>>

Init == status = [n \in Names |-> "absent"] /\ restarts = 0

Moves(n, from, to) ==
  /\ status[n] = from /\ status' = [status EXCEPT ![n] = to]
  /\ UNCHANGED restarts

Add(n)    == Moves(n, "absent", "listed")
Remove(n) == Moves(n, "listed", "leaving")
\* The record goes; it may also stay, when something else still refers to it.
Forget(n) == Moves(n, "leaving", "absent")

Restart ==
  /\ restarts' = restarts + 1
  /\ status' = [n \in Names |-> IF status[n] = "absent" THEN "absent" ELSE "listed"]

Next == Restart \/ \E n \in Names : Add(n) \/ Remove(n) \/ Forget(n)

Spec == Init /\ [][Next]_vars
=============================================================================
