-------------------------------- MODULE Relay --------------------------------
(***************************************************************************)
(* The TCP relay through a jump host that forbids forwarding:              *)
(* internal/ssh/relay.go, SocatTunnelRelay.                                *)
(*                                                                         *)
(* Connect starts a relay process on the jump host, trying candidate       *)
(* commands in turn, and returns one end of a net.Pipe to the SSH client.  *)
(* Two goroutines copy between the other end, connB, and the process.      *)
(* Close ends all of it, called by a Disconnect of the session or by a     *)
(* Connect whose handshake failed.                                         *)
(*                                                                         *)
(* r.mu protects single reads and writes, so its critical sections are     *)
(* steps; Connect holds it throughout and nobody has the relay before it   *)
(* returns.  The bridges load r.connB without r.mu, so a load is a step of *)
(* its own, apart from the Read or Write that uses it.  What they load     *)
(* after Close cleared it is nil, or torn, and the call on it panics: an   *)
(* unrecovered panic ends the whole process (crashed).                     *)
(*                                                                         *)
(* A net.Pipe has no buffer: a Write meets a Read, and both fail once      *)
(* either end is closed.  A chunk of bytes is a number, in the order they  *)
(* are sent; 0 is a packet of the keepalive.                               *)
(***************************************************************************)
EXTENDS Naturals, Sequences, FiniteSets

CONSTANTS
  Closers,    \* goroutines that may call Close
  Candidates, \* bound: relay commands tried
  MaxChunk    \* bound: chunks sent in a direction

ASSUME RelayAssumption ==
  /\ Candidates \in Nat /\ MaxChunk \in Nat
  /\ Closers # {}

Cands == 1..Candidates
Chunks == 1..MaxChunk

VARIABLES
  tools,    \* the candidates whose program exists on the jump host
  state,    \* Connect: "new", "trying", "up" or "failed"
  tried,    \* candidates tried so far
  chan,     \* SSH channel of each candidate
  session,  \* r.session: its candidate, 0 for nil
  proc,     \* r.stdin and r.stdout: their candidate, never reset
  connB,    \* r.connB # nil (and r.connA # nil)
  pipe,     \* neither end of the net.Pipe is closed
  closed,   \* r.closed
  done,     \* r.done is closed
  client,   \* the SSH client above: "none", "handshake", "ready", "failed", "closed"
  pc, mine, \* each closer: where it is in Close, the session it took
  outPc, outBuf, \* bridgeStdout: where it is, the chunk it holds
  inPc, inBuf,   \* bridgeStdin
  stdout,        \* received from the process and not read yet
  sentUp, gotUp, sentDown, gotDown, \* the streams: chunks sent, and the ones that arrived
  crashed

connectVars == <<tools, state, tried>>
chanVars    == <<chan, session, proc>>
pipeVars    == <<connB, pipe>>
closeVars   == <<closed, pc, mine>>
outVars     == <<outPc, outBuf, stdout, done>>
inVars      == <<inPc, inBuf>>
streamVars  == <<sentUp, gotUp, sentDown, gotDown>>
vars == <<connectVars, chanVars, pipeVars, closeVars, outVars, inVars, streamVars, client, crashed>>

Init ==
  /\ tools \in SUBSET Cands
  /\ state = "new" /\ tried = 0
  /\ chan = [k \in Cands |-> "none"] /\ session = 0 /\ proc = 0
  /\ connB = FALSE /\ pipe = FALSE
  /\ closed = FALSE /\ pc = [c \in Closers |-> "idle"] /\ mine = [c \in Closers |-> 0]
  /\ outPc = "off" /\ outBuf = 0 /\ stdout = <<>> /\ done = FALSE
  /\ inPc = "off" /\ inBuf = 0
  /\ sentUp = 0 /\ gotUp = <<>> /\ sentDown = 0 /\ gotDown = <<>>
  /\ client = "none" /\ crashed = FALSE

-----------------------------------------------------------------------------
(* Connect *)

\* r.connA, r.connB = net.Pipe()
MakePipe == pipe' = TRUE /\ connB' = TRUE

\* The pipe is made before a candidate is tried.
ConnectPipe ==
  /\ state = "new" /\ ~closed
  /\ state' = "trying" /\ MakePipe
  /\ UNCHANGED <<tools, tried, chanVars, closeVars, outVars, inVars, streamVars, client, crashed>>

\* cleanupConnLocked
CleanupConn == connB' = FALSE /\ pipe' = FALSE

\* Mutant: the session of a candidate that does not start stays open.
BugNotClosed(k) == chan' = [chan EXCEPT ![k] = "open"]
\* session.Close() sends the close of the channel.
CloseChannel(k) == chan' = [chan EXCEPT ![k] = IF @ = "closed" THEN @ ELSE "closing"]

\* Mutant: off by one.
BugOneMore == tried <= Candidates
HasCandidate == tried < Candidates

\* NewSession fails, or the session is opened and a pipe or Start fails.
CandidateFails ==
  /\ state = "trying" /\ HasCandidate
  /\ tried' = tried + 1
  /\ chan' = chan \/ CloseChannel(tried + 1)
  /\ UNCHANGED <<tools, state, session, proc, pipeVars, closeVars, outVars, inVars, streamVars, client, crashed>>

\* The server accepts the exec request before it looks for the program, so a
\* missing one starts too.
\* The first candidate that starts wins; its bridges start with it.
CandidateStarts ==
  /\ state = "trying" /\ HasCandidate
  /\ tried' = tried + 1
  /\ session' = tried + 1 /\ proc' = tried + 1
  /\ chan' = [chan EXCEPT ![tried + 1] = "open"]
  /\ state' = "up" /\ outPc' = "read" /\ inPc' = "load"
  /\ client' = "handshake"
  /\ UNCHANGED <<tools, pipeVars, closeVars, outBuf, stdout, done, inBuf, streamVars, crashed>>

\* RelayError
NoCandidate ==
  /\ state = "trying" /\ ~HasCandidate
  /\ state' = "failed" /\ CleanupConn
  /\ UNCHANGED <<tools, tried, chanVars, closeVars, outVars, inVars, streamVars, client, crashed>>

-----------------------------------------------------------------------------
(* bridgeStdout *)

\* Mutant: the goroutine leaves done open when its write fails.
BugDoneOnEOF == done' = (done \/ pipe)
\* defer close(r.done)
CloseDone == done' = TRUE

\* stdout.Read returns a chunk.
OutRead ==
  /\ outPc = "read" /\ stdout # <<>>
  /\ outBuf' = Head(stdout) /\ stdout' = Tail(stdout) /\ outPc' = "load"
  /\ UNCHANGED <<connectVars, chanVars, pipeVars, closeVars, done, inVars, streamVars, client, crashed>>

OutEOF ==
  /\ outPc = "read" /\ stdout = <<>> /\ chan[proc] = "closed"
  /\ outPc' = "ended" /\ CloseDone
  /\ UNCHANGED <<connectVars, chanVars, pipeVars, closeVars, outBuf, stdout, inVars, streamVars, client, crashed>>

\* r.connB, without r.mu
OutLoad ==
  /\ outPc = "load"
  /\ IF connB THEN outPc' = "write" /\ crashed' = crashed
              ELSE crashed' = TRUE /\ outPc' = outPc
  /\ UNCHANGED <<connectVars, chanVars, pipeVars, closeVars, outBuf, stdout, done, inVars, streamVars, client>>

\* Mutant: the chunk is kept and written again.
BugWritesTwice == outPc' \in {"read", "load"}
\* The next turn of the loop
NextRead == outPc' = "read"

\* The SSH client reads whatever the pipe brings.
OutWrite ==
  /\ outPc = "write" /\ pipe
  /\ gotDown' = Append(gotDown, outBuf) /\ NextRead
  /\ UNCHANGED <<connectVars, chanVars, pipeVars, closeVars, outBuf, stdout, done, inVars,
                 sentUp, gotUp, sentDown, client, crashed>>

OutRefused ==
  /\ outPc = "write" /\ ~pipe
  /\ outPc' = "ended" /\ CloseDone
  /\ UNCHANGED <<connectVars, chanVars, pipeVars, closeVars, outBuf, stdout, inVars, streamVars, client, crashed>>

BridgeStdout == OutRead \/ OutEOF \/ OutLoad \/ OutWrite \/ OutRefused

-----------------------------------------------------------------------------
(* bridgeStdin *)

InLoad ==
  /\ inPc = "load"
  /\ IF connB THEN inPc' = "read" /\ crashed' = crashed
              ELSE crashed' = TRUE /\ inPc' = inPc
  /\ UNCHANGED <<connectVars, chanVars, pipeVars, closeVars, outVars, inBuf, streamVars, client>>

\* The client writes a chunk of its stream: the Read returns it.
InRead ==
  /\ inPc = "read" /\ pipe /\ sentUp < MaxChunk
  /\ client \in {"handshake", "ready"}
  /\ sentUp' = sentUp + 1 /\ inBuf' = sentUp + 1 /\ inPc' = "write"
  /\ UNCHANGED <<connectVars, chanVars, pipeVars, closeVars, outVars, gotUp, sentDown, gotDown, client, crashed>>

\* The same for the packet that the keepalive of a published client sends.
InReadProbe ==
  /\ inPc = "read" /\ pipe /\ client = "ready"
  /\ inBuf' = 0 /\ inPc' = "write"
  /\ UNCHANGED <<connectVars, chanVars, pipeVars, closeVars, outVars, streamVars, client, crashed>>

InEOF ==
  /\ inPc = "read" /\ ~pipe
  /\ inPc' = "ended"
  /\ UNCHANGED <<connectVars, chanVars, pipeVars, closeVars, outVars, inBuf, streamVars, client, crashed>>

\* stdin.Write waits for the window that the process leaves it.
InWrite ==
  /\ inPc = "write" /\ chan[proc] = "open"
  /\ gotUp' = IF inBuf = 0 THEN gotUp ELSE Append(gotUp, inBuf)
  /\ inPc' = "load"
  /\ UNCHANGED <<connectVars, chanVars, pipeVars, closeVars, outVars, inBuf, sentUp, sentDown, gotDown, client, crashed>>

InRefused ==
  /\ inPc = "write" /\ chan[proc] # "open"
  /\ inPc' = "ended"
  /\ UNCHANGED <<connectVars, chanVars, pipeVars, closeVars, outVars, inBuf, streamVars, client, crashed>>

BridgeStdin == InLoad \/ InRead \/ InReadProbe \/ InEOF \/ InWrite \/ InRefused

-----------------------------------------------------------------------------
(* The SSH client on the pipe: Connect and Disconnect of the session *)

\* The handshake needs both streams.
Handshake ==
  /\ client = "handshake" /\ gotUp # <<>> /\ gotDown # <<>>
  /\ client' = "ready"
  /\ UNCHANGED <<connectVars, chanVars, pipeVars, closeVars, outVars, inVars, streamVars, crashed>>

\* NewClientConn closes its end of the pipe when the target refuses it.
HandshakeFails ==
  /\ client = "handshake" /\ gotDown # <<>>
  /\ client' = "failed" /\ pipe' = FALSE
  /\ UNCHANGED <<connectVars, chanVars, connB, closeVars, outVars, inVars, streamVars, crashed>>

\* conn.Close() in Disconnect: it may also be given up on after 5 s.
HangUp ==
  /\ client = "ready"
  /\ client' = "closed" /\ pipe' = FALSE
  /\ UNCHANGED <<connectVars, chanVars, connB, closeVars, outVars, inVars, streamVars, crashed>>

-----------------------------------------------------------------------------
(* Close *)

\* A caller that is not the first returns at once.
Close(c) ==
  /\ pc[c] = "idle" /\ client \in {"ready", "closed", "failed"}
  /\ pc' = [pc EXCEPT ![c] = IF closed THEN "returned" ELSE "cleanup"]
  /\ closed' = TRUE
  /\ UNCHANGED <<connectVars, chanVars, pipeVars, mine, outVars, inVars, streamVars, client, crashed>>

Cleanup(c) ==
  /\ pc[c] = "cleanup"
  /\ CleanupConn
  /\ pc' = [pc EXCEPT ![c] = "take"]
  /\ UNCHANGED <<connectVars, chanVars, closed, mine, outVars, inVars, streamVars, client, crashed>>

TakeSession(c) ==
  /\ pc[c] = "take"
  /\ mine' = [mine EXCEPT ![c] = session] /\ session' = 0
  /\ pc' = [pc EXCEPT ![c] = IF session = 0 THEN "returned" ELSE "close"]
  /\ UNCHANGED <<connectVars, chan, proc, pipeVars, closed, outVars, inVars, streamVars, client, crashed>>

AwaitDone(c) == pc' = [pc EXCEPT ![c] = "wait"]

CloseSession(c) ==
  /\ pc[c] = "close"
  /\ CloseChannel(mine[c]) /\ AwaitDone(c)
  /\ UNCHANGED <<connectVars, session, proc, pipeVars, closed, mine, outVars, inVars, streamVars, client, crashed>>

\* <-r.done
WaitDone(c) ==
  /\ pc[c] = "wait" /\ done
  /\ pc' = [pc EXCEPT ![c] = "returned"]
  /\ UNCHANGED <<connectVars, chanVars, pipeVars, closed, mine, outVars, inVars, streamVars, client, crashed>>

CloseSteps(c) == Cleanup(c) \/ TakeSession(c) \/ CloseSession(c) \/ WaitDone(c)

-----------------------------------------------------------------------------
(* The jump host *)

ProcessSends ==
  /\ proc \in tools /\ chan[proc] \in {"open", "closing"} /\ sentDown < MaxChunk
  /\ sentDown' = sentDown + 1 /\ stdout' = Append(stdout, sentDown + 1)
  /\ UNCHANGED <<connectVars, chanVars, pipeVars, closeVars, outPc, outBuf, done, inVars,
                 sentUp, gotUp, gotDown, client, crashed>>

\* The process ends, or the jump host's own client is lost.
ProcessExits ==
  /\ state = "up" /\ chan[proc] = "open"
  /\ chan' = [chan EXCEPT ![proc] = "closed"]
  /\ UNCHANGED <<connectVars, session, proc, pipeVars, closeVars, outVars, inVars, streamVars, client, crashed>>

\* The answer to a close.
ChannelClosed(k) ==
  /\ chan[k] = "closing"
  /\ chan' = [chan EXCEPT ![k] = "closed"]
  /\ UNCHANGED <<connectVars, session, proc, pipeVars, closeVars, outVars, inVars, streamVars, client, crashed>>

Connect == ConnectPipe \/ CandidateFails \/ CandidateStarts \/ NoCandidate
Client  == Handshake \/ HandshakeFails \/ HangUp
Jump    == ProcessSends \/ ProcessExits \/ \E k \in Cands : ChannelClosed(k)

Next ==
  /\ ~crashed
  /\ Connect \/ BridgeStdout \/ BridgeStdin \/ Client \/ Jump \/ \E c \in Closers : Close(c) \/ CloseSteps(c)

\* Mutant: the keepalive waits for a write that blocks without its 10 s.
BugNoTimeout == FALSE
\* The write of a keepalive blocks, and after 10 s it counts as lost.
ProbeBlocks == client = "ready" /\ inPc \in {"write", "ended"}

\* Disconnect closes the relay once its client is gone, and when the keepalive is lost.
MustClose == client \in {"closed", "failed"} \/ ProbeBlocks

(***************************************************************************)
(* Fairness.  The program's goroutines run.  The keepalive's ticker fires, *)
(* and its timeout leads to Disconnect.  The jump host answers a close;    *)
(* that it runs the process, takes its input or sends its output is not    *)
(* assumed.                                                                *)
(***************************************************************************)
Fairness ==
  /\ WF_vars(~crashed /\ BridgeStdout)
  /\ WF_vars(~crashed /\ (InLoad \/ InEOF \/ InRefused))
  /\ WF_vars(~crashed /\ InReadProbe)
  /\ WF_vars(~crashed /\ \E k \in Cands : ChannelClosed(k))
  /\ WF_vars(~crashed /\ MustClose /\ ~closed /\ \E c \in Closers : Close(c))
  /\ \A c \in Closers : WF_vars(~crashed /\ CloseSteps(c))

Spec == Init /\ [][Next]_vars
FairSpec == Spec /\ Fairness
-----------------------------------------------------------------------------
(* Properties *)

TypeOK ==
  /\ tools \subseteq Cands
  /\ state \in {"new", "trying", "up", "failed"}
  /\ tried \in 0..Candidates
  /\ chan \in [Cands -> {"none", "open", "closing", "closed"}]
  /\ session \in 0..Candidates /\ proc \in 0..Candidates
  /\ connB \in BOOLEAN /\ pipe \in BOOLEAN /\ closed \in BOOLEAN /\ done \in BOOLEAN
  /\ client \in {"none", "handshake", "ready", "failed", "closed"}
  /\ pc \in [Closers -> {"idle", "cleanup", "take", "close", "wait", "returned"}]
  /\ mine \in [Closers -> 0..Candidates]
  /\ outPc \in {"off", "read", "load", "write", "ended"} /\ outBuf \in 0..MaxChunk
  /\ inPc \in {"off", "load", "read", "write", "ended"} /\ inBuf \in 0..MaxChunk
  /\ stdout \in Seq(Chunks)
  /\ sentUp \in 0..MaxChunk /\ sentDown \in 0..MaxChunk
  /\ gotUp \in Seq(Chunks) /\ gotDown \in Seq(Chunks)
  /\ crashed \in BOOLEAN

\* Every relay process left running on the jump host is still in r.session, or
\* in the hands of the Close that is about to end it: failed candidates, an
\* abandoned handshake and racing calls of Close leave none behind.
NoStrayProcess ==
  \A k \in Cands : chan[k] = "open" =>
    session = k \/ \E c \in Closers : pc[c] = "close" /\ mine[c] = k

\* When the Close that took the session returns, bridgeStdout has ended and the
\* channel is closed, so nothing more is read from the jump host's client.
CloseWaits ==
  \A c \in Closers : pc[c] = "returned" /\ mine[c] # 0 =>
    outPc = "ended" /\ chan[mine[c]] # "open"

\* The bridges load connB without the lock: the panic that can follow needs a
\* Close under way. A relay that nobody closes never brings the process down,
\* whatever the jump host and the target do.
CrashNeedsClose == crashed => closed /\ ~connB

\* The inductive invariant, in parts.  ConnectInv: what Connect leaves behind
\* before and after it hands the pipe over.
Up == state = "up"
ConnectInv ==
  /\ Up => proc \in Cands /\ outPc # "off" /\ inPc # "off" /\ client # "none"
  /\ ~Up => /\ proc = 0 /\ session = 0 /\ outPc = "off" /\ inPc = "off" /\ client = "none"
            /\ ~closed /\ sentUp = 0 /\ sentDown = 0 /\ gotUp = <<>> /\ gotDown = <<>> /\ stdout = <<>>
            /\ \A c \in Closers : pc[c] = "idle"
  /\ state = "trying" => connB /\ pipe
  /\ state = "new" => tried = 0
  /\ \A k \in Cands : k > tried => chan[k] = "none"
  /\ \A k \in Cands : chan[k] = "open" => k = proc
  /\ proc # 0 => chan[proc] # "none"

\* The Close that is first owns the teardown: the others return at once.
Owns(c) == pc[c] \in {"cleanup", "take", "close", "wait"} \/ mine[c] # 0
CloseInv ==
  /\ session \in {0, proc}
  /\ \A c \in Closers : mine[c] \in {0, proc} /\ (Owns(c) => closed)
  /\ \A c, d \in Closers : Owns(c) /\ Owns(d) => c = d
  /\ \A c \in Closers : pc[c] \in {"cleanup", "take"} => session = proc
  /\ \A c \in Closers : (pc[c] \in {"close", "wait"} => mine[c] = proc /\ Up)
                         /\ (mine[c] # 0 => pc[c] \in {"close", "wait", "returned"} /\ session = 0)
  /\ \A c \in Closers : pc[c] \in {"wait", "returned"} /\ mine[c] # 0 => chan[proc] # "open"
  /\ Up /\ session = 0 => \E c \in Closers : mine[c] # 0
  /\ \A c \in Closers : pc[c] = "returned" /\ mine[c] # 0 => done
  /\ done => outPc = "ended"
  /\ Up /\ ~connB => closed /\ ~pipe
  /\ crashed => Up /\ ~connB

\* What is under way in each direction follows what arrived.
OutHeld == IF outPc \in {"load", "write"} THEN 1 ELSE 0
InHeld  == IF inPc = "write" /\ inBuf # 0 THEN 1 ELSE 0
StreamInv ==
  /\ outPc \in {"load", "write"} => outBuf = Len(gotDown) + 1
  /\ outPc # "ended" =>
       /\ sentDown = Len(gotDown) + OutHeld + Len(stdout)
       /\ \A i \in 1..Len(stdout) : stdout[i] = Len(gotDown) + OutHeld + i
  /\ inPc = "write" /\ inBuf # 0 => inBuf = Len(gotUp) + 1
  /\ inPc # "ended" => sentUp = Len(gotUp) + InHeld

RelayInv == ConnectInv /\ CloseInv /\ StreamInv

\* Each side has got the first chunks that the other sent, each once, in order;
\* while a bridge runs, the rest is still on its way and nothing is lost.
Prefix(got) == got = [i \in 1..Len(got) |-> i]
StreamsWhole ==
  /\ Prefix(gotUp) /\ (inPc # "ended" => sentUp = Len(gotUp) + InHeld)
  /\ Prefix(gotDown) /\ (outPc # "ended" => sentDown = Len(gotDown) + OutHeld + Len(stdout))

\* The phase of the link: over once neither bridge can deliver anything more.
Phase ==
  IF state # "up" THEN "new"
  ELSE IF ~pipe /\ chan[proc] # "open" THEN "over" ELSE "open"

Link == INSTANCE DuplexLink WITH phase <- Phase

\* The relay is a pair of FIFO links: however the process sends, exits or is
\* closed, each side gets a prefix of what the other sent, in order, without
\* duplicates, and nothing after the link is over.
RefinesLink == Link!Spec

\* If the jump host answers the close, Close returns and both bridges end,
\* whatever they waited for: no goroutine is left behind (or one has panicked).
CloseReturns ==
  \A c \in Closers :
    pc[c] = "cleanup" ~> (pc[c] = "returned" /\ outPc = "ended" /\ inPc = "ended") \/ crashed

\* A relay process that dies under a published client is noticed: the pipe stays
\* open, but the keepalive blocks on it and disconnects.
LossNoticed ==
  (client = "ready" /\ chan[proc] = "closed") ~> (closed \/ crashed)

=============================================================================
