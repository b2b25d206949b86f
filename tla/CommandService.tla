--------------------------- MODULE CommandService ---------------------------
(***************************************************************************)
(* What PersistentShell (internal/ssh/shell.go) promises to a caller of    *)
(* Run, without buffer, sentinels, reader or timers: commands run one at a *)
(* time on the remote shell, a success is only reported for a command the  *)
(* remote shell finished, and a command that fails takes the shell with    *)
(* it, so that nothing it leaves behind reaches a later command.           *)
(***************************************************************************)
CONSTANT Cmds  \* the calls of Run

VARIABLES
  state,     \* each command: "new", "running", "ok" or "failed"
  finished,  \* the commands the remote shell has finished
  dead       \* the shell takes no more commands

vars == <<state, finished, dead>>

Init == state = [c \in Cmds |-> "new"] /\ finished = {} /\ dead = FALSE

Submit(c) ==
  /\ state[c] = "new" /\ ~dead
  /\ \A d \in Cmds : state[d] # "running"
  /\ state' = [state EXCEPT ![c] = "running"]
  /\ UNCHANGED <<finished, dead>>

Reject(c) ==
  /\ state[c] = "new" /\ dead
  /\ state' = [state EXCEPT ![c] = "failed"]
  /\ UNCHANGED <<finished, dead>>

\* The remote shell may finish a command its caller has given up on.
Finish(c) ==
  /\ state[c] # "new" /\ c \notin finished
  /\ finished' = finished \cup {c}
  /\ UNCHANGED <<state, dead>>

Reply(c) ==
  /\ state[c] = "running" /\ c \in finished
  /\ state' = [state EXCEPT ![c] = "ok"]
  /\ UNCHANGED <<finished, dead>>

Fail(c) ==
  /\ state[c] = "running"
  /\ state' = [state EXCEPT ![c] = "failed"]
  /\ dead' = TRUE
  /\ UNCHANGED finished

Die == dead' = TRUE /\ UNCHANGED <<state, finished>>

Next == Die \/ \E c \in Cmds : Submit(c) \/ Reject(c) \/ Finish(c) \/ Reply(c) \/ Fail(c)

Spec == Init /\ [][Next]_vars
=============================================================================
