----------------------------- MODULE Relay_proofs -----------------------------
(***************************************************************************)
(* RelayInv is an invariant of Relay, both streams arrive whole up to the  *)
(* chunk they are at, and the relay implements DuplexLink, for any number  *)
(* of callers of Close, candidates and chunks.                             *)
(***************************************************************************)
EXTENDS Relay, SequenceTheorems, TLAPS

\* What a read takes from the front of the buffer.
LEMMA Front ==
  ASSUME NEW s \in Seq(Chunks), s # <<>>
  PROVE  /\ Head(s) \in Chunks /\ Head(s) = s[1]
         /\ Tail(s) \in Seq(Chunks) /\ Len(s) \in Nat \ {0} /\ Len(Tail(s)) = Len(s) - 1
         /\ \A i \in 1..Len(Tail(s)) : Tail(s)[i] = s[i + 1]
BY HeadTailProperties

\* What arrives at its end.
LEMMA Back ==
  ASSUME NEW s \in Seq(Chunks), NEW e \in Chunks
  PROVE  /\ Append(s, e) \in Seq(Chunks) /\ Len(s) \in Nat /\ Len(Append(s, e)) = Len(s) + 1
         /\ \A i \in 1..Len(s) + 1 : Append(s, e)[i] = IF i <= Len(s) THEN s[i] ELSE e
OBVIOUS

\* Lengths are numbers.
LEMMA Lengths ==
  ASSUME TypeOK
  PROVE  Len(gotUp) \in Nat /\ Len(gotDown) \in Nat /\ Len(stdout) \in Nat
BY DEF TypeOK

\* Nothing has been sent before Connect.
LEMMA InitInv == ASSUME Init PROVE TypeOK /\ RelayInv
<1>1. <<>> \in Seq(Chunks) /\ Len(<<>>) = 0
  OBVIOUS
<1>2. TypeOK
  <2>1. 0 \in 0..Candidates /\ 0 \in 0..MaxChunk
    BY RelayAssumption
  <2>2. stdout \in Seq(Chunks) /\ gotUp \in Seq(Chunks) /\ gotDown \in Seq(Chunks)
    BY <1>1 DEF Init
  <2>3. chan \in [Cands -> {"none", "open", "closing", "closed"}]
    BY DEF Init
  <2>4. /\ pc \in [Closers -> {"idle", "cleanup", "take", "close", "wait", "returned"}]
        /\ mine \in [Closers -> 0..Candidates]
    BY <2>1 DEF Init
  <2> QED BY <2>1, <2>2, <2>3, <2>4 DEF Init, TypeOK
<1>3. ConnectInv
  BY RelayAssumption DEF Init, ConnectInv, Up, Cands
<1>4. CloseInv
  BY DEF Init, CloseInv, Up, Owns
<1>5. StreamInv
  BY <1>1 DEF Init, StreamInv, OutHeld, InHeld
<1> QED BY <1>2, <1>3, <1>4, <1>5 DEF RelayInv

\* Connect: the streams are empty until a candidate has started.
LEMMA ConnectKeeps ==
  ASSUME TypeOK, RelayInv, ~crashed, Connect
  PROVE  TypeOK' /\ RelayInv'
<1> USE RelayAssumption DEF RelayInv, Up
<1>1. CASE ConnectPipe
  <2> USE <1>1 DEF ConnectPipe, MakePipe, connectVars, chanVars, closeVars, outVars, inVars, streamVars
  <2>1. TypeOK'
    BY DEF TypeOK
  <2>2. ConnectInv'
    BY DEF ConnectInv
  <2>3. CloseInv'
    BY DEF ConnectInv, CloseInv, Owns
  <2>4. StreamInv'
    BY DEF StreamInv, OutHeld, InHeld
  <2> QED BY <2>1, <2>2, <2>3, <2>4
<1>2. CASE CandidateFails
  <2> USE <1>2 DEF CandidateFails, HasCandidate, CloseChannel, pipeVars, closeVars, outVars, inVars, streamVars
  <2>1. TypeOK'
    BY DEF TypeOK, Cands
  <2>2. ConnectInv'
    BY DEF TypeOK, ConnectInv, Cands
  <2>3. CloseInv'
    BY DEF ConnectInv, CloseInv, Owns
  <2>4. StreamInv'
    BY DEF StreamInv, OutHeld, InHeld
  <2> QED BY <2>1, <2>2, <2>3, <2>4
<1>3. CASE CandidateStarts
  <2> USE <1>3 DEF CandidateStarts, HasCandidate, pipeVars, closeVars, streamVars
  <2>1. tried + 1 \in Cands
    BY DEF TypeOK, Cands
  <2>2. TypeOK'
    BY <2>1 DEF TypeOK, Cands
  <2>3. ConnectInv'
    BY <2>1 DEF TypeOK, ConnectInv, Cands
  <2>4. CloseInv'
    BY <2>1 DEF TypeOK, ConnectInv, CloseInv, Owns, Cands
  <2>5. StreamInv'
    BY DEF ConnectInv, StreamInv, OutHeld, InHeld
  <2> QED BY <2>2, <2>3, <2>4, <2>5
<1>4. CASE NoCandidate
  <2> USE <1>4 DEF NoCandidate, CleanupConn, chanVars, closeVars, outVars, inVars, streamVars
  <2>1. TypeOK'
    BY DEF TypeOK
  <2>2. ConnectInv'
    BY DEF ConnectInv
  <2>3. CloseInv'
    BY DEF ConnectInv, CloseInv, Owns
  <2>4. StreamInv'
    BY DEF StreamInv, OutHeld, InHeld
  <2> QED BY <2>1, <2>2, <2>3, <2>4
<1> QED BY <1>1, <1>2, <1>3, <1>4 DEF Connect

\* What a bridge or a Close writes keeps its type.
LEMMA OutTyped ==
  ASSUME TypeOK, outPc' \in {"off", "read", "load", "write", "ended"}, done' \in BOOLEAN,
         crashed' \in BOOLEAN,
         UNCHANGED <<connectVars, chanVars, pipeVars, closeVars, outBuf, stdout, inVars, streamVars, client>>
  PROVE  TypeOK'
BY DEF TypeOK, connectVars, chanVars, pipeVars, closeVars, inVars, streamVars

LEMMA InTyped ==
  ASSUME TypeOK, inPc' \in {"off", "load", "read", "write", "ended"}, crashed' \in BOOLEAN,
         UNCHANGED <<connectVars, chanVars, pipeVars, closeVars, outVars, inBuf, streamVars, client>>
  PROVE  TypeOK'
BY DEF TypeOK, connectVars, chanVars, pipeVars, closeVars, outVars, streamVars

LEMMA ChanTyped ==
  ASSUME TypeOK, chan' \in [Cands -> {"none", "open", "closing", "closed"}],
         UNCHANGED <<connectVars, session, proc, pipeVars, closeVars, outVars, inVars, streamVars, client, crashed>>
  PROVE  TypeOK'
BY DEF TypeOK, connectVars, pipeVars, closeVars, outVars, inVars, streamVars

LEMMA CloseTyped ==
  ASSUME TypeOK, NEW c \in Closers,
         NEW l \in {"idle", "cleanup", "take", "close", "wait", "returned"}, pc' = [pc EXCEPT ![c] = l],
         closed' \in BOOLEAN, connB' \in BOOLEAN, pipe' \in BOOLEAN,
         UNCHANGED <<connectVars, chanVars, mine, outVars, inVars, streamVars, client, crashed>>
  PROVE  TypeOK'
BY DEF TypeOK, connectVars, chanVars, outVars, inVars, streamVars

\* bridgeStdout: the chunk it holds is the next one the client gets.
LEMMA StdoutKeeps ==
  ASSUME TypeOK, RelayInv, ~crashed, BridgeStdout
  PROVE  TypeOK' /\ RelayInv'
<1> USE RelayAssumption DEF RelayInv, Up, connectVars, chanVars, pipeVars, closeVars, inVars
<1>1. CASE OutRead
  <2> USE <1>1 DEF OutRead, streamVars
  <2>1. TypeOK'
    BY Front DEF TypeOK, Chunks
  <2>2. ConnectInv'
    BY DEF ConnectInv
  <2>3. CloseInv'
    BY DEF CloseInv, Owns
  <2>4. StreamInv'
    <3>1. stdout \in Seq(Chunks)
      BY DEF TypeOK
    <3>2. outBuf' = Len(gotDown) + 1 /\ OutHeld = 0 /\ OutHeld' = 1
      BY <3>1, Front, Lengths DEF StreamInv, OutHeld
    <3>3. sentDown' = Len(gotDown') + OutHeld' + Len(stdout')
      BY <3>1, <3>2, Front, Lengths DEF StreamInv
    <3>4. \A i \in 1..Len(stdout') : stdout'[i] = Len(gotDown') + OutHeld' + i
      <4> SUFFICES ASSUME NEW i \in 1..Len(stdout')
                   PROVE  stdout'[i] = Len(gotDown') + OutHeld' + i
        OBVIOUS
      <4>1. Len(stdout') = Len(stdout) - 1 /\ Len(stdout) \in Nat /\ stdout'[i] = stdout[i + 1]
        BY <3>1, Front
      <4>2. i + 1 \in 1..Len(stdout)
        BY <4>1
      <4>3. stdout[i + 1] = Len(gotDown) + 0 + (i + 1)
        BY <3>2, <4>2 DEF StreamInv
      <4> QED BY <3>2, <4>1, <4>3, Lengths
    <3> QED BY <3>2, <3>3, <3>4 DEF StreamInv, InHeld
  <2> QED BY <2>1, <2>2, <2>3, <2>4
<1>2. CASE OutEOF \/ OutRefused
  <2> USE <1>2 DEF OutEOF, OutRefused, CloseDone, streamVars
  <2>1. TypeOK'
    <3>1. done' \in BOOLEAN /\ crashed' \in BOOLEAN
      BY DEF TypeOK
    <3> QED BY <3>1, OutTyped
  <2>2. ConnectInv'
    BY DEF ConnectInv
  <2>3. CloseInv'
    BY DEF CloseInv, Owns
  <2>4. StreamInv'
    BY DEF StreamInv, InHeld
  <2> QED BY <2>1, <2>2, <2>3, <2>4
<1>3. CASE OutLoad
  <2> USE <1>3 DEF OutLoad, streamVars
  <2>1. TypeOK'
    <3>1. done' \in BOOLEAN /\ crashed' \in BOOLEAN
      BY DEF TypeOK
    <3> QED BY <3>1, OutTyped
  <2>2. ConnectInv'
    BY DEF ConnectInv
  <2>3. CloseInv'
    BY DEF ConnectInv, CloseInv, Owns
  <2>4. StreamInv'
    BY DEF StreamInv, OutHeld, InHeld
  <2> QED BY <2>1, <2>2, <2>3, <2>4
<1>4. CASE OutWrite
  <2> USE <1>4 DEF OutWrite, NextRead
  <2>1. outBuf \in Chunks /\ gotDown \in Seq(Chunks)
    BY Lengths DEF TypeOK, StreamInv, Chunks
  <2>2. TypeOK'
    BY <2>1, Back DEF TypeOK
  <2>3. ConnectInv'
    BY DEF ConnectInv
  <2>4. CloseInv'
    BY DEF CloseInv, Owns
  <2>5. StreamInv'
    BY <2>1, Back, Lengths DEF StreamInv, OutHeld, InHeld
  <2> QED BY <2>2, <2>3, <2>4, <2>5
<1> QED BY <1>1, <1>2, <1>3, <1>4 DEF BridgeStdout

\* bridgeStdin: the same for the chunk on its way to the process.
LEMMA StdinKeeps ==
  ASSUME TypeOK, RelayInv, ~crashed, BridgeStdin
  PROVE  TypeOK' /\ RelayInv'
<1> USE RelayAssumption DEF RelayInv, Up, connectVars, chanVars, pipeVars, closeVars, outVars
<1>1. CASE InLoad
  <2> USE <1>1 DEF InLoad, streamVars
  <2>1. TypeOK'
    <3>1. crashed' \in BOOLEAN
      BY DEF TypeOK
    <3> QED BY <3>1, InTyped
  <2>2. ConnectInv'
    BY DEF ConnectInv
  <2>3. CloseInv'
    BY DEF ConnectInv, CloseInv, Owns
  <2>4. StreamInv'
    BY DEF StreamInv, OutHeld, InHeld
  <2> QED BY <2>1, <2>2, <2>3, <2>4
<1>2. CASE InRead
  <2> USE <1>2 DEF InRead
  <2>1. TypeOK'
    BY DEF TypeOK
  <2>2. ConnectInv'
    BY DEF ConnectInv
  <2>3. CloseInv'
    BY DEF CloseInv, Owns
  <2>4. StreamInv'
    BY Lengths DEF TypeOK, StreamInv, OutHeld, InHeld
  <2> QED BY <2>1, <2>2, <2>3, <2>4
<1>3. CASE InReadProbe
  <2> USE <1>3 DEF InReadProbe, streamVars
  <2>1. TypeOK'
    BY DEF TypeOK
  <2>2. ConnectInv'
    BY DEF ConnectInv
  <2>3. CloseInv'
    BY DEF CloseInv, Owns
  <2>4. StreamInv'
    BY DEF StreamInv, OutHeld, InHeld
  <2> QED BY <2>1, <2>2, <2>3, <2>4
<1>4. CASE InEOF \/ InRefused
  <2> USE <1>4 DEF InEOF, InRefused, streamVars
  <2>1. TypeOK'
    <3>1. crashed' \in BOOLEAN
      BY DEF TypeOK
    <3> QED BY <3>1, InTyped
  <2>2. ConnectInv'
    BY DEF ConnectInv
  <2>3. CloseInv'
    BY DEF CloseInv, Owns
  <2>4. StreamInv'
    BY DEF StreamInv, OutHeld
  <2> QED BY <2>1, <2>2, <2>3, <2>4
<1>5. CASE InWrite
  <2> USE <1>5 DEF InWrite
  <2>1. inBuf # 0 => inBuf \in Chunks
    BY DEF TypeOK, Chunks
  <2>2. gotUp \in Seq(Chunks)
    BY DEF TypeOK
  <2>3. TypeOK'
    BY <2>1, <2>2, Back DEF TypeOK
  <2>4. ConnectInv'
    BY DEF ConnectInv
  <2>5. CloseInv'
    BY DEF CloseInv, Owns
  <2>6. StreamInv'
    BY <2>1, <2>2, Back, Lengths DEF StreamInv, OutHeld, InHeld
  <2> QED BY <2>3, <2>4, <2>5, <2>6
<1> QED BY <1>1, <1>2, <1>3, <1>4, <1>5 DEF BridgeStdin

\* The SSH client only closes its end of the pipe.
LEMMA ClientKeeps ==
  ASSUME TypeOK, RelayInv, ~crashed, Client
  PROVE  TypeOK' /\ RelayInv'
<1> USE DEF RelayInv, Up, Client, Handshake, HandshakeFails, HangUp,
            connectVars, chanVars, pipeVars, closeVars, outVars, inVars, streamVars
<1>1. TypeOK'
  <2>1. client' \in {"ready", "failed", "closed"} /\ pipe' \in BOOLEAN
    BY DEF TypeOK
  <2> QED BY <2>1 DEF TypeOK
<1>2. ConnectInv'
  BY DEF ConnectInv
<1>3. CloseInv'
  BY DEF ConnectInv, CloseInv, Owns
<1>4. StreamInv'
  BY DEF StreamInv, OutHeld, InHeld
<1> QED BY <1>1, <1>2, <1>3, <1>4

\* The jump host: a channel that is not open never opens again.
LEMMA JumpKeeps ==
  ASSUME TypeOK, RelayInv, ~crashed, Jump
  PROVE  TypeOK' /\ RelayInv'
<1> USE RelayAssumption DEF RelayInv, Up, connectVars, pipeVars, closeVars, inVars
<1>1. CASE ProcessSends
  <2> USE <1>1 DEF ProcessSends, chanVars
  <2>1. stdout \in Seq(Chunks) /\ sentDown + 1 \in Chunks
    BY DEF TypeOK, Chunks
  <2>2. TypeOK'
    BY <2>1, Back DEF TypeOK, Chunks
  <2>3. ConnectInv'
    BY DEF TypeOK, ConnectInv, Cands
  <2>4. CloseInv'
    BY DEF CloseInv, Owns
  <2>5. StreamInv'
    <3>1. OutHeld' = OutHeld /\ OutHeld \in {0, 1} /\ InHeld' = InHeld
      BY DEF OutHeld, InHeld, outVars
    <3>2. Len(stdout') = Len(stdout) + 1 /\ Len(stdout) \in Nat
      BY <2>1, Back
    <3>3. CASE outPc # "ended"
      <4>1. sentDown = Len(gotDown) + OutHeld + Len(stdout)
        BY <3>3 DEF StreamInv
      <4>2. sentDown' = Len(gotDown') + OutHeld' + Len(stdout')
        BY <3>1, <3>2, <4>1, Lengths
      <4>3. ASSUME NEW i \in 1..Len(stdout') PROVE stdout'[i] = Len(gotDown') + OutHeld' + i
        <5>1. i \in 1..Len(stdout) + 1
          BY <3>2
        <5>2. stdout'[i] = IF i <= Len(stdout) THEN stdout[i] ELSE sentDown + 1
          BY <2>1, <5>1, Back
        <5>3. CASE i <= Len(stdout)
          <6>1. i \in 1..Len(stdout)
            BY <3>2, <5>1, <5>3
          <6> QED BY <3>1, <3>3, <5>2, <5>3, <6>1 DEF StreamInv
        <5>4. CASE ~(i <= Len(stdout))
          <6>1. i = Len(stdout) + 1
            BY <3>2, <5>1, <5>4
          <6> QED BY <3>1, <4>1, <5>2, <5>4, <6>1, Lengths
        <5> QED BY <5>3, <5>4
      <4> QED BY <3>1, <4>2, <4>3 DEF StreamInv
    <3>4. CASE outPc = "ended"
      BY <3>1, <3>4 DEF StreamInv
    <3> QED BY <3>3, <3>4
  <2> QED BY <2>2, <2>3, <2>4, <2>5
<1>2. CASE ProcessExits \/ \E k \in Cands : ChannelClosed(k)
  <2> USE <1>2 DEF ProcessExits, ChannelClosed, outVars, streamVars
  <2>1. TypeOK'
    <3>1. chan' \in [Cands -> {"none", "open", "closing", "closed"}]
      BY DEF TypeOK
    <3> QED BY <3>1, ChanTyped
  <2>2. ConnectInv'
    BY DEF TypeOK, ConnectInv
  <2>3. CloseInv'
    BY DEF TypeOK, ConnectInv, CloseInv, Owns
  <2>4. StreamInv'
    BY DEF StreamInv, OutHeld, InHeld
  <2> QED BY <2>1, <2>2, <2>3, <2>4
<1> QED BY <1>1, <1>2 DEF Jump

\* Close: the first caller is the only one that goes beyond the flag.
LEMMA CloseKeeps ==
  ASSUME TypeOK, RelayInv, ~crashed, NEW c \in Closers, Close(c) \/ CloseSteps(c)
  PROVE  TypeOK' /\ RelayInv'
<1> USE DEF RelayInv, Up, connectVars, outVars, inVars, streamVars
<1>1. StreamInv'
  BY DEF StreamInv, OutHeld, InHeld, Close, CloseSteps, Cleanup, TakeSession, CloseSession, WaitDone
<1>2. CASE Close(c)
  <2> USE <1>2 DEF Close, chanVars, pipeVars
  <2>1. TypeOK'
    BY DEF TypeOK
  <2>2. ConnectInv'
    BY DEF ConnectInv
  <2>3. CloseInv'
    BY DEF TypeOK, ConnectInv, CloseInv, Owns
  <2> QED BY <1>1, <2>1, <2>2, <2>3
<1>3. CASE Cleanup(c)
  <2> USE <1>3 DEF Cleanup, CleanupConn, chanVars
  <2>1. TypeOK'
    <3>1. closed' \in BOOLEAN /\ connB' \in BOOLEAN /\ pipe' \in BOOLEAN
      BY DEF TypeOK
    <3> QED BY <3>1, CloseTyped
  <2>2. ConnectInv'
    BY DEF ConnectInv
  <2>3. CloseInv'
    BY DEF TypeOK, ConnectInv, CloseInv, Owns
  <2> QED BY <1>1, <2>1, <2>2, <2>3
<1>4. CASE TakeSession(c)
  <2> USE <1>4 DEF TakeSession, pipeVars
  <2>1. TypeOK'
    BY RelayAssumption DEF TypeOK
  <2>2. ConnectInv'
    BY DEF ConnectInv
  <2>3. CloseInv'
    BY DEF TypeOK, ConnectInv, CloseInv, Owns
  <2> QED BY <1>1, <2>1, <2>2, <2>3
<1>5. CASE CloseSession(c)
  <2> USE <1>5 DEF CloseSession, CloseChannel, AwaitDone, pipeVars
  <2>1. TypeOK'
    <3>1. chan' \in [Cands -> {"none", "open", "closing", "closed"}]
      BY DEF TypeOK
    <3>2. pc' \in [Closers -> {"idle", "cleanup", "take", "close", "wait", "returned"}]
      BY DEF TypeOK
    <3> QED BY <3>1, <3>2 DEF TypeOK
  <2>2. ConnectInv'
    BY DEF TypeOK, ConnectInv, CloseInv
  <2>3. CloseInv'
    BY DEF TypeOK, ConnectInv, CloseInv, Owns
  <2> QED BY <1>1, <2>1, <2>2, <2>3
<1>6. CASE WaitDone(c)
  <2> USE <1>6 DEF WaitDone, chanVars, pipeVars
  <2>1. TypeOK'
    BY DEF TypeOK
  <2>2. ConnectInv'
    BY DEF ConnectInv
  <2>3. CloseInv'
    BY DEF TypeOK, ConnectInv, CloseInv, Owns
  <2> QED BY <1>1, <2>1, <2>2, <2>3
<1> QED BY <1>2, <1>3, <1>4, <1>5, <1>6 DEF CloseSteps

LEMMA StepKeeps ==
  ASSUME TypeOK, RelayInv, [Next]_vars
  PROVE  TypeOK' /\ RelayInv'
<1>1. CASE Next
  BY <1>1, ConnectKeeps, StdoutKeeps, StdinKeeps, ClientKeeps, JumpKeeps, CloseKeeps DEF Next
<1>2. CASE UNCHANGED vars
  <2> USE <1>2 DEF vars, connectVars, chanVars, pipeVars, closeVars, outVars, inVars, streamVars
  <2>1. TypeOK'
    BY DEF TypeOK
  <2>2. ConnectInv'
    BY DEF RelayInv, ConnectInv, Up
  <2>3. CloseInv'
    BY DEF RelayInv, CloseInv, Owns, Up
  <2>4. StreamInv'
    BY DEF RelayInv, StreamInv, OutHeld, InHeld
  <2> QED BY <2>1, <2>2, <2>3, <2>4 DEF RelayInv
<1> QED BY <1>1, <1>2

-----------------------------------------------------------------------------
\* Every variable keeps its type; the rest of the invariant comes with it.
THEOREM Invariant == Spec => [](TypeOK /\ RelayInv)
<1>1. Init => TypeOK /\ RelayInv
  BY InitInv
<1>2. TypeOK /\ RelayInv /\ [Next]_vars => (TypeOK /\ RelayInv)'
  BY StepKeeps
<1> QED BY <1>1, <1>2, PTL DEF Spec

\* Types, for any number of closers, candidates and chunks.
THEOREM TypeCorrect == Spec => []TypeOK
BY Invariant, PTL

\* Connect and Close leave no relay process behind on the jump host.
THEOREM NoProcessLeft == Spec => []NoStrayProcess
<1>1. TypeOK /\ RelayInv => NoStrayProcess
  <2> SUFFICES ASSUME TypeOK, RelayInv, NEW k \in Cands, chan[k] = "open"
               PROVE  session = k \/ \E c \in Closers : pc[c] = "close" /\ mine[c] = k
    BY DEF NoStrayProcess
  <2>1. k = proc /\ Up
    BY RelayAssumption DEF RelayInv, ConnectInv, Cands
  <2>2. CASE session = proc
    BY <2>1, <2>2
  <2>3. CASE session = 0
    <3>1. PICK c \in Closers : mine[c] # 0
      BY <2>1, <2>3 DEF RelayInv, CloseInv
    <3>2. mine[c] = proc /\ pc[c] \in {"close", "wait", "returned"}
      BY <3>1 DEF RelayInv, CloseInv
    <3>3. pc[c] = "close"
      BY <2>1, <3>1, <3>2 DEF RelayInv, CloseInv
    <3> QED BY <2>1, <3>2, <3>3
  <2> QED BY <2>2, <2>3 DEF RelayInv, CloseInv
<1> QED BY <1>1, Invariant, PTL

\* The Close that tore the relay down returns only after bridgeStdout.
THEOREM CloseWaitsForBridge == Spec => []CloseWaits
<1>1. TypeOK /\ RelayInv => CloseWaits
  BY DEF RelayInv, CloseInv, CloseWaits
<1> QED BY <1>1, Invariant, PTL

\* A relay that nobody closes does not panic.
THEOREM OnlyCloseCrashes == Spec => []CrashNeedsClose
<1>1. TypeOK /\ RelayInv => CrashNeedsClose
  BY DEF RelayInv, CloseInv, CrashNeedsClose
<1> QED BY <1>1, Invariant, PTL

\* One more chunk arrives.
LEMMA PrefixGrows ==
  ASSUME NEW r \in Seq(Chunks), Prefix(r)
  PROVE  Prefix(Append(r, Len(r) + 1))
<1>1. PICK m \in Nat : m = Len(r)
  BY LenProperties
<1>2. r \in Seq(Nat)
  <2>1. Chunks \subseteq Nat
    BY DEF Chunks
  <2> HIDE DEF Chunks
  <2> QED BY <2>1, SeqMonotonic
<1>3. \A i \in 1..m : r[i] = i
  BY <1>1 DEF Prefix
<1> DEFINE t == Append(r, m + 1)
<1>4. /\ t \in Seq(Nat) /\ Len(t) = m + 1 /\ t[m + 1] = m + 1
      /\ \A i \in 1..m : t[i] = r[i]
  BY <1>1, <1>2, AppendProperties
<1> DEFINE g == [i \in 1..m + 1 |-> i]
<1>5. g \in Seq(Nat) /\ Len(g) = m + 1
  OBVIOUS
<1> HIDE DEF t
<1>6. \A i \in 1..m + 1 : t[i] = g[i]
  BY <1>3, <1>4
<1> HIDE DEF g
<1>7. t = g
  BY <1>4, <1>5, <1>6, SeqEqual
<1>8. t = [i \in 1..Len(t) |-> i]
  BY <1>4, <1>7 DEF g
<1> QED BY <1>1, <1>8 DEF Prefix, t

\* The streams only grow by the chunk that the bridge holds.
LEMMA StepPrefix ==
  ASSUME TypeOK, RelayInv, Prefix(gotUp), Prefix(gotDown), [Next]_vars
  PROVE  Prefix(gotUp)' /\ Prefix(gotDown)'
<1>0. gotUp \in Seq(Chunks) /\ gotDown \in Seq(Chunks)
  BY DEF TypeOK
<1>1. gotUp' = gotUp \/ gotUp' = Append(gotUp, Len(gotUp) + 1)
  <2>1. CASE InWrite /\ inBuf # 0
    BY <2>1 DEF InWrite, RelayInv, StreamInv
  <2>2. CASE ~(InWrite /\ inBuf # 0)
    <3>1. CASE Next
      BY <2>2, <3>1 DEF Next, Connect, ConnectPipe, CandidateFails, CandidateStarts, NoCandidate,
        BridgeStdout, OutRead, OutEOF, OutLoad, OutWrite, OutRefused,
        BridgeStdin, InLoad, InRead, InReadProbe, InEOF, InWrite, InRefused,
        Client, Handshake, HandshakeFails, HangUp, Jump, ProcessSends, ProcessExits, ChannelClosed,
        Close, CloseSteps, Cleanup, TakeSession, CloseSession, WaitDone, streamVars
    <3> QED BY <3>1 DEF vars, streamVars
  <2> QED BY <2>1, <2>2
<1>2. gotDown' = gotDown \/ gotDown' = Append(gotDown, Len(gotDown) + 1)
  <2>1. CASE OutWrite
    BY <2>1 DEF OutWrite, RelayInv, StreamInv
  <2>2. CASE ~OutWrite
    <3>1. CASE Next
      BY <2>2, <3>1 DEF Next, Connect, ConnectPipe, CandidateFails, CandidateStarts, NoCandidate,
        BridgeStdout, OutRead, OutEOF, OutLoad, OutRefused,
        BridgeStdin, InLoad, InRead, InReadProbe, InEOF, InWrite, InRefused,
        Client, Handshake, HandshakeFails, HangUp, Jump, ProcessSends, ProcessExits, ChannelClosed,
        Close, CloseSteps, Cleanup, TakeSession, CloseSession, WaitDone, streamVars
    <3> QED BY <3>1 DEF vars, streamVars
  <2> QED BY <2>1, <2>2
<1>3. \A r \in Seq(Chunks) : Prefix(r) => Prefix(Append(r, Len(r) + 1))
  BY PrefixGrows
<1> QED BY <1>0, <1>1, <1>2, <1>3 DEF Prefix

\* Each side gets the first chunks the other sent, and a bridge that runs loses none.
THEOREM StreamsAreWhole == Spec => []StreamsWhole
<1>1. Init => Prefix(gotUp) /\ Prefix(gotDown)
  BY DEF Init, Prefix
<1>2. TypeOK /\ RelayInv /\ Prefix(gotUp) /\ Prefix(gotDown) => StreamsWhole
  BY DEF RelayInv, StreamInv, StreamsWhole
<1> QED BY <1>1, <1>2, StepPrefix, Invariant, PTL DEF Spec

-----------------------------------------------------------------------------
(* Refinement *)

\* Steps that leave the streams alone open the link, end it or stutter.
LEMMA PhaseStep ==
  ASSUME TypeOK, RelayInv, UNCHANGED streamVars,
         Phase = "new" => Phase' \in {"new", "open"},
         Phase = "open" => Phase' \in {"open", "over"},
         Phase = "over" => Phase' = "over"
  PROVE  [Link!Next]_(Link!vars)
<1>1. Phase \in {"new", "open", "over"}
  BY DEF Phase
<1> QED BY <1>1 DEF Link!Next, Link!Open, Link!End, Link!vars, streamVars

\* Connect opens the link when a candidate has started.
LEMMA ConnectMaps ==
  ASSUME TypeOK, RelayInv, ~crashed, Connect
  PROVE  [Link!Next]_(Link!vars)
<1>1. UNCHANGED streamVars /\ Phase = "new" /\ Phase' \in {"new", "open"}
  <2>1. CASE ConnectPipe \/ CandidateFails \/ NoCandidate
    BY <2>1 DEF ConnectPipe, CandidateFails, NoCandidate, Phase
  <2>2. CASE CandidateStarts
    <3>1. tried + 1 \in Cands /\ pipe'
      BY <2>2, RelayAssumption DEF CandidateStarts, HasCandidate, TypeOK, RelayInv, ConnectInv, Cands, pipeVars
    <3> QED BY <2>2, <3>1 DEF CandidateStarts, Phase
  <2> QED BY <2>1, <2>2 DEF Connect
<1> QED BY <1>1, PhaseStep

\* bridgeStdout delivers the next chunk.
LEMMA StdoutMaps ==
  ASSUME TypeOK, RelayInv, ~crashed, BridgeStdout
  PROVE  [Link!Next]_(Link!vars)
<1>1. UNCHANGED <<state, pipe, chan, proc>>
  BY DEF BridgeStdout, OutRead, OutEOF, OutLoad, OutWrite, OutRefused, connectVars, pipeVars, chanVars
<1>2. Phase' = Phase
  BY <1>1 DEF Phase
<1>3. CASE UNCHANGED streamVars
  BY <1>2, <1>3, PhaseStep DEF Phase
<1>4. CASE OutWrite
  <2>1. outBuf = Len(gotDown) + 1 /\ Len(gotDown) < sentDown
    BY <1>4, Lengths DEF OutWrite, RelayInv, StreamInv, OutHeld
  <2>2. Phase = "open"
    BY <1>4 DEF OutWrite, Phase, RelayInv, ConnectInv, Up
  <2>3. Link!DeliverDown
    BY <1>2, <1>4, <2>1, <2>2 DEF OutWrite, Link!DeliverDown
  <2> QED BY <2>3 DEF Link!Next
<1> QED BY <1>3, <1>4 DEF BridgeStdout, OutRead, OutEOF, OutLoad, OutRefused

\* bridgeStdin takes a chunk that is sent and delivers it.
LEMMA StdinMaps ==
  ASSUME TypeOK, RelayInv, ~crashed, BridgeStdin
  PROVE  [Link!Next]_(Link!vars)
<1>1. UNCHANGED <<state, pipe, chan, proc>>
  BY DEF BridgeStdin, InLoad, InRead, InReadProbe, InEOF, InWrite, InRefused, connectVars, pipeVars, chanVars
<1>2. Phase' = Phase
  BY <1>1 DEF Phase
<1>3. CASE UNCHANGED streamVars
  BY <1>2, <1>3, PhaseStep DEF Phase
<1>4. CASE InRead
  <2>1. Phase = "open"
    BY <1>4 DEF InRead, Phase, RelayInv, ConnectInv, Up
  <2>2. Link!SendUp
    BY <1>2, <1>4, <2>1 DEF InRead, Link!SendUp
  <2> QED BY <2>2 DEF Link!Next
<1>5. CASE InWrite /\ inBuf # 0
  <2>1. inBuf = Len(gotUp) + 1 /\ Len(gotUp) < sentUp
    BY <1>5, Lengths DEF InWrite, RelayInv, StreamInv, InHeld
  <2>2. Phase = "open"
    BY <1>5 DEF InWrite, Phase, RelayInv, ConnectInv, Up
  <2>3. Link!DeliverUp
    BY <1>2, <1>5, <2>1, <2>2 DEF InWrite, Link!DeliverUp
  <2> QED BY <2>3 DEF Link!Next
<1>6. CASE InWrite /\ inBuf = 0
  BY <1>3, <1>6 DEF InWrite, streamVars
<1> QED BY <1>3, <1>4, <1>5, <1>6 DEF BridgeStdin, InLoad, InReadProbe, InEOF, InRefused

\* The client, the jump host and Close end the link, or the process sends.
LEMMA OthersMap ==
  ASSUME TypeOK, RelayInv, ~crashed,
         Client \/ Jump \/ \E c \in Closers : Close(c) \/ CloseSteps(c)
  PROVE  [Link!Next]_(Link!vars)
<1>1. CASE ProcessSends
  <2>1. Phase # "new" /\ Phase' = Phase
    BY <1>1 DEF ProcessSends, Phase, RelayInv, ConnectInv, Up, TypeOK, Cands, connectVars, chanVars, pipeVars
  <2>2. Link!SendDown
    BY <1>1, <2>1 DEF ProcessSends, Link!SendDown
  <2> QED BY <2>2 DEF Link!Next
<1>2. CASE ~ProcessSends
  <2>1. /\ UNCHANGED <<state, proc>> /\ UNCHANGED streamVars
        /\ pipe' = pipe \/ ~pipe'
    BY <1>2 DEF Client, Handshake, HandshakeFails, HangUp, Jump, ProcessExits, ChannelClosed, Close, CloseSteps,
                Cleanup, CleanupConn, TakeSession, CloseSession, WaitDone, connectVars, chanVars, pipeVars
  <2>2. state = "up" /\ chan[proc] # "open" => chan'[proc] # "open"
    <3>1. CASE chan' = chan
      BY <2>1, <3>1
    <3>2. CASE ProcessExits \/ \E k \in Cands : ChannelClosed(k)
      BY <2>1, <3>2 DEF ProcessExits, ChannelClosed, TypeOK, RelayInv, ConnectInv, Up
    <3>3. CASE \E c \in Closers : CloseSession(c)
      BY <2>1, <3>3 DEF CloseSession, CloseChannel, TypeOK, RelayInv, ConnectInv, Up
    <3> QED BY <1>2, <3>1, <3>2, <3>3 DEF Client, Handshake, HandshakeFails, HangUp, Jump, Close, CloseSteps,
                                          Cleanup, TakeSession, WaitDone, chanVars
  <2> QED BY <2>1, <2>2, PhaseStep DEF Phase
<1> QED BY <1>1, <1>2

\* The relay implements the duplex link.
THEOREM RelayImplementsLink == Spec => RefinesLink
<1>1. Init => Link!Init
  BY DEF Init, Link!Init, Phase
<1>2. TypeOK /\ RelayInv /\ [Next]_vars => [Link!Next]_(Link!vars)
  <2> SUFFICES ASSUME TypeOK, RelayInv, [Next]_vars PROVE [Link!Next]_(Link!vars)
    OBVIOUS
  <2>1. CASE Next
    BY <2>1, ConnectMaps, StdoutMaps, StdinMaps, OthersMap DEF Next
  <2>2. CASE UNCHANGED vars
    BY <2>2 DEF vars, connectVars, chanVars, pipeVars, streamVars, Phase, Link!vars
  <2> QED BY <2>1, <2>2
<1> QED BY <1>1, <1>2, Invariant, PTL DEF Spec, RefinesLink, Link!Spec
=============================================================================
