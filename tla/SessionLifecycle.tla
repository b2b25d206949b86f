-------------------------- MODULE SessionLifecycle --------------------------
(***************************************************************************)
(* What the comments of RemoteSession (internal/ssh/client.go) promise of  *)
(* a session, without goroutines, locks or keepalives: connections come    *)
(* one at a time, a command shell is bound to the newest one, and a        *)
(* session that is down has no shell.                                      *)
(***************************************************************************)
EXTENDS Naturals

VARIABLES
  phase,  \* "down", "up", or "closing": no client is published any more
  last,   \* the newest connection
  bound   \* the connection the command shell runs on, 0 for no shell

vars == <<phase, last, bound>>

Init == phase = "down" /\ last = 0 /\ bound = 0

\* A connection is published over a session that is down, never over another.
Publish ==
  /\ phase = "down" /\ bound = 0
  /\ phase' = "up" /\ last' = last + 1
  /\ UNCHANGED bound

\* A shell starts on the newest connection; one that was starting when the
\* session began to close may still appear.
OpenShell ==
  /\ phase # "down" /\ bound = 0
  /\ bound' = last
  /\ UNCHANGED <<phase, last>>

ShutShell ==
  /\ bound # 0
  /\ bound' = 0
  /\ UNCHANGED <<phase, last>>

Close ==
  /\ phase # "closing"
  /\ phase' = "closing"
  /\ UNCHANGED <<last, bound>>

\* Nothing of the session survives its closing.
Finish ==
  /\ phase = "closing"
  /\ phase' = "down" /\ bound' = 0
  /\ UNCHANGED last

Next == Publish \/ OpenShell \/ ShutShell \/ Close \/ Finish

Spec == Init /\ [][Next]_vars
=============================================================================
