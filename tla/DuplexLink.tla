------------------------------ MODULE DuplexLink ------------------------------
(***************************************************************************)
(* What a relay promises to the SSH client above it: two streams, one in   *)
(* each direction, that deliver what was sent, in order and at most once,  *)
(* while the link is open, and nothing once it is over.  A stream may stop *)
(* anywhere, so what was sent and not delivered is lost when it ends.      *)
(***************************************************************************)
EXTENDS Naturals, Sequences

CONSTANT MaxChunk  \* bound: chunks sent in a direction

VARIABLES
  phase,          \* "new", "open" or "over"
  sentUp, gotUp,  \* towards the target: chunks sent, and the ones it got
  sentDown, gotDown

vars == <<phase, sentUp, gotUp, sentDown, gotDown>>

Init ==
  /\ phase = "new"
  /\ sentUp = 0 /\ gotUp = <<>>
  /\ sentDown = 0 /\ gotDown = <<>>

Open ==
  /\ phase = "new" /\ phase' = "open"
  /\ UNCHANGED <<sentUp, gotUp, sentDown, gotDown>>

\* The chunk sent n-th has the number n.
SendUp ==
  /\ phase = "open" /\ sentUp < MaxChunk
  /\ sentUp' = sentUp + 1
  /\ UNCHANGED <<phase, gotUp, sentDown, gotDown>>

DeliverUp ==
  /\ phase = "open" /\ Len(gotUp) < sentUp
  /\ gotUp' = Append(gotUp, Len(gotUp) + 1)
  /\ UNCHANGED <<phase, sentUp, sentDown, gotDown>>

\* The far side may go on sending into a link that is over.
SendDown ==
  /\ phase # "new" /\ sentDown < MaxChunk
  /\ sentDown' = sentDown + 1
  /\ UNCHANGED <<phase, sentUp, gotUp, gotDown>>

DeliverDown ==
  /\ phase = "open" /\ Len(gotDown) < sentDown
  /\ gotDown' = Append(gotDown, Len(gotDown) + 1)
  /\ UNCHANGED <<phase, sentUp, gotUp, sentDown>>

End ==
  /\ phase = "open" /\ phase' = "over"
  /\ UNCHANGED <<sentUp, gotUp, sentDown, gotDown>>

Next == Open \/ SendUp \/ DeliverUp \/ SendDown \/ DeliverDown \/ End

Spec == Init /\ [][Next]_vars
=============================================================================
