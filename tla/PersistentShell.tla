-------------------------- MODULE PersistentShell --------------------------
(***************************************************************************)
(* The long-lived shell MCP commands run on: internal/ssh/shell.go.        *)
(*                                                                         *)
(* Run writes a command to the remote shell between two sentinel lines and *)
(* waits for readerLoop to find them in the output, for its timeout, or    *)
(* for the shell to be closed.  s.mu is one step except in dispatch, which *)
(* holds it while it writes.  A call of Run is named by its command, which *)
(* also stands for the command's random token.  Serialised says that calls *)
(* come one at a time: Exec, the only caller, holds execLock around them   *)
(* (RemoteSession, OneCommand).                                            *)
(*                                                                         *)
(* The output is a sequence of pieces, not of bytes.  The done line has    *)
(* two of them, so that a read can end inside it.                          *)
(***************************************************************************)
EXTENDS Naturals, Sequences, FiniteSets

CONSTANTS
  Cmds,      \* the calls of Run
  Serialised, \* calls come one at a time
  None,      \* no command, no result
  HeadKeep,  \* headKeepBytes
  TailKeep,  \* tailKeepBytes
  MaxBuf,    \* maxOutputBytes
  IdleMax,   \* terminalBufMax
  MaxChunk,  \* readChunk
  MaxOut,    \* bound: pieces of output of a command
  MaxNoise   \* bound: pieces printed by anything else (prompts, background jobs)

ASSUME ShellAssumption ==
  /\ None \notin Cmds /\ Serialised \in BOOLEAN
  /\ HeadKeep \in Nat /\ TailKeep \in Nat /\ MaxBuf \in Nat /\ IdleMax \in Nat
  /\ MaxChunk \in Nat \ {0} /\ MaxOut \in Nat /\ MaxNoise \in Nat
  /\ HeadKeep + TailKeep < MaxBuf /\ IdleMax <= MaxBuf

Piece(k, c, i) == [kind |-> k, cmd |-> c, n |-> i]
Start(c)  == Piece("start", c, 0)
Done(c)   == Piece("done", c, 0)   \* the done line up to the token
DoneEnd(c)   == Piece("doneEnd", c, 0)   \* the rest of it: exit code, cwd, newline
Noise     == Piece("noise", None, 0)
Notice(i) == Piece("notice", None, i)
Pieces == [kind : {"start", "out", "done", "doneEnd", "noise", "notice"},
           cmd : Cmds \cup {None}, n : Nat]

VARIABLES
  mu,         \* the command that holds s.mu across steps
  closed,     \* s.closed
  cancelled,  \* s.ctx is done
  stdout,     \* s.stdout: "open" or "nil"
  pending,    \* s.pending
  buf,        \* s.buf
  reader,     \* readerLoop: where it is
  chunk,      \* readerLoop: what it read and has not appended
  pc,         \* each call of Run: where it is
  expired,    \* each call: its timeout has passed
  result,     \* each call: its result channel
  partial,    \* each call: the partial output it captured
  answer,     \* each call: what it returned
  stdin,      \* commands written and not yet started
  running,    \* the command the remote shell executes
  emitted,    \* each command: pieces of output it has printed
  finished,   \* the commands the remote shell has finished
  noise,      \* pieces of noise printed so far
  wire,       \* pieces printed and not yet read
  remoteUp    \* the remote shell and the connection to it live

shellVars  == <<mu, closed, cancelled, stdout, pending, buf>>
readerVars == <<reader, chunk>>
callVars   == <<pc, expired, partial, answer>>
remoteVars == <<stdin, running, emitted, finished, noise, wire, remoteUp>>
vars == <<shellVars, readerVars, callVars, result, remoteVars>>

NoOutput == <<>>
Result(k, out) == [kind |-> k, out |-> out]
Results == [kind : {"ok", "error"}, out : Seq(Pieces)]
Answers == [kind : {"ok", "closed", "timeout", "dead", "busy", "write"}, out : Seq(Pieces)]

ASSUME NoneAssumption == None \notin Results /\ None \notin Answers

Init ==
  /\ mu = None /\ closed = FALSE /\ cancelled = FALSE /\ stdout = "open"
  /\ pending = None /\ buf = <<>>
  /\ reader = "load" /\ chunk = <<>>
  /\ pc = [c \in Cmds |-> "new"]
  /\ expired = [c \in Cmds |-> FALSE]
  /\ result = [c \in Cmds |-> None]
  /\ partial = [c \in Cmds |-> <<>>]
  /\ answer = [c \in Cmds |-> None]
  /\ stdin = <<>> /\ running = None
  /\ emitted = [c \in Cmds |-> 0]
  /\ finished = {} /\ noise = 0 /\ wire = <<>> /\ remoteUp = TRUE

-----------------------------------------------------------------------------
(* The buffer. *)

Drop(s, k)   == SubSeq(s, k + 1, Len(s))
Indices(s)   == 1..Len(s)
Has(s, p)    == \E i \in Indices(s) : s[i] = p

\* The token of c between start line and complete done line, at i and j.
Matches(b, c, i, j) ==
  /\ i < j /\ j < Len(b)
  /\ b[i] = Start(c) /\ b[j] = Done(c) /\ b[j + 1] = DoneEnd(c)

Unmatched(b, c) == ~\E i, j \in Indices(b) : Matches(b, c, i, j)

\* Mutant: the notice is forgotten.
BugSilentCut(b) ==
  IF Len(b) > MaxBuf
  THEN SubSeq(b, 1, HeadKeep) \o Drop(b, Len(b) - TailKeep) ELSE b

\* Mutant: the buffer is never cut.
BugUncut(b) == b

\* truncateBufferLocked
Truncate(b) ==
  IF Len(b) > MaxBuf
  THEN SubSeq(b, 1, HeadKeep) \o <<Notice(Len(b) - HeadKeep - TailKeep)>>
       \o Drop(b, Len(b) - TailKeep)
  ELSE b

\* A non-blocking send to the result channel of c, and pending = nil.
Resolve(c, r) ==
  /\ result' = [result EXCEPT ![c] = IF @ = None THEN r ELSE @]
  /\ pending' = None

\* The pending command, if any, gets an error.
ResolveError ==
  IF pending = None THEN UNCHANGED <<result, pending>>
  ELSE Resolve(pending, Result("error", NoOutput))

\* scanLocked on the buffer b.
Scan(b) ==
  \/ /\ pending = None
     /\ buf' = IF Len(b) > IdleMax THEN Drop(b, Len(b) - IdleMax \div 2) ELSE b
     /\ UNCHANGED <<result, pending>>
  \/ \E i, j \in Indices(b) :
       /\ pending # None /\ Matches(b, pending, i, j)
       /\ Resolve(pending, Result("ok", SubSeq(b, i + 1, j - 1)))
       /\ buf' = Drop(b, j + 2 - i)
  \/ /\ pending # None /\ Unmatched(b, pending)
     /\ buf' = Truncate(b)
     /\ UNCHANGED <<result, pending>>

-----------------------------------------------------------------------------
(* Close, by whoever owns the shell, and readerLoop. *)

MuFree == mu = None

Close ==
  IF closed THEN UNCHANGED <<closed, cancelled, stdout, pending, result>>
  ELSE /\ closed' = TRUE /\ cancelled' = TRUE /\ stdout' = "nil"
       /\ ResolveError

\* Disconnect, or EnsureShell that replaces the shell.
CloseShell ==
  /\ MuFree /\ ~closed
  /\ Close
  /\ UNCHANGED <<mu, buf, readerVars, callVars, remoteVars>>

\* s.stdout is loaded without s.mu; Read on a nil interface panics.
Load ==
  /\ reader = "load"
  /\ reader' = IF stdout = "nil" THEN "panic" ELSE "read"
  /\ UNCHANGED <<shellVars, chunk, callVars, result, remoteVars>>

Read ==
  /\ reader = "read" /\ wire # <<>>
  /\ \E k \in 1..Len(wire) :
       /\ k <= MaxChunk
       /\ chunk' = SubSeq(wire, 1, k)
       /\ wire' = Drop(wire, k)
  /\ reader' = "append"
  /\ UNCHANGED <<shellVars, callVars, result, stdin, running, emitted, finished, noise, remoteUp>>

AppendChunk ==
  /\ reader = "append" /\ MuFree
  /\ Scan(buf \o chunk)
  /\ chunk' = <<>>
  /\ reader' = "load"
  /\ UNCHANGED <<mu, closed, cancelled, stdout, callVars, remoteVars>>

ReadError ==
  /\ reader = "read" /\ wire = <<>> /\ ~remoteUp
  /\ reader' = "error"
  /\ UNCHANGED <<shellVars, chunk, callVars, result, remoteVars>>

MarkDead ==
  /\ reader = "error" /\ MuFree
  /\ closed' = TRUE
  /\ ResolveError
  /\ reader' = "exited"
  /\ UNCHANGED <<mu, cancelled, stdout, buf, chunk, callVars, remoteVars>>

-----------------------------------------------------------------------------
(* Run: dispatch and waitForResult. *)

Return(c, a) ==
  /\ pc' = [pc EXCEPT ![c] = "back"]
  /\ answer' = [answer EXCEPT ![c] = a]

\* Mutant: dispatch does not test s.closed.
BugNotRefused == FALSE

\* if s.closed
Refused == closed

Dispatch(c) ==
  /\ pc[c] = "new" /\ MuFree
  /\ Serialised => \A d \in Cmds : pc[d] \in {"new", "back"}
  /\ \/ /\ Refused
        /\ Return(c, Result("dead", NoOutput))
        /\ UNCHANGED <<mu, pending, buf>>
     \/ /\ ~Refused /\ pending # None
        /\ Return(c, Result("busy", NoOutput))
        /\ UNCHANGED <<mu, pending, buf>>
     \/ /\ ~Refused /\ pending = None
        /\ mu' = c
        /\ buf' = <<>>
        /\ pending' = c
        /\ pc' = [pc EXCEPT ![c] = "write"]
        /\ UNCHANGED answer
  /\ UNCHANGED <<closed, cancelled, stdout, readerVars, expired, partial, result, remoteVars>>

\* Mutant: the error path of dispatch does not unlock.
BugStaysLocked == IF remoteUp THEN mu' = None ELSE UNCHANGED mu

\* defer s.mu.Unlock()
Unlock == mu' = None

\* stdin.Write of the payload, with s.mu held and before the timer of the command
\* starts.  It waits, with no bound, while the channel's window is full or the link
\* hangs, and fails when the connection does.
Write(c) ==
  /\ pc[c] = "write"
  /\ Unlock
  /\ \/ /\ remoteUp
        /\ stdin' = Append(stdin, c)
        /\ pc' = [pc EXCEPT ![c] = "wait"]
        /\ UNCHANGED <<pending, answer>>
     \/ /\ ~remoteUp
        /\ pending' = None
        /\ Return(c, Result("write", NoOutput))
        /\ UNCHANGED stdin
  /\ UNCHANGED <<closed, cancelled, stdout, buf, readerVars, expired, partial, result,
                 running, emitted, finished, noise, wire, remoteUp>>

Expire(c) ==
  /\ pc[c] = "wait" /\ ~expired[c]
  /\ expired' = [expired EXCEPT ![c] = TRUE]
  /\ UNCHANGED <<shellVars, readerVars, pc, partial, answer, result, remoteVars>>

\* Mutant: the context has no timeout.
BugNoTimeout(c) == cancelled

\* The context of c: its timeout, or the shell's own context.
ContextDone(c) == expired[c] \/ cancelled

\* The select picks the result ...
TakeResult(c) ==
  /\ pc[c] = "wait" /\ result[c] # None /\ MuFree
  /\ Return(c, IF result[c].kind = "ok" THEN result[c] ELSE Result("closed", NoOutput))
  /\ UNCHANGED <<shellVars, readerVars, expired, partial, result, remoteVars>>

\* cleanPartialOutput: what follows the start line, up to the done line.
AfterStart(b, c) ==
  IF Has(b, Start(c)) THEN Drop(b, CHOOSE i \in Indices(b) : b[i] = Start(c)) ELSE b
BeforeDone(b, c) ==
  IF Has(b, Done(c)) THEN SubSeq(b, 1, (CHOOSE i \in Indices(b) : b[i] = Done(c)) - 1) ELSE b
Partial(b, c) == BeforeDone(AfterStart(b, c), c)

\* ... or the context, also when both are ready.
TakeTimeout(c) ==
  /\ pc[c] = "wait" /\ ContextDone(c) /\ MuFree
  /\ partial' = [partial EXCEPT ![c] = Partial(buf, c)]
  /\ pending' = None
  /\ pc' = [pc EXCEPT ![c] = "expire"]
  /\ UNCHANGED <<mu, closed, cancelled, stdout, buf, readerVars, expired, answer, result,
                 remoteVars>>

\* s.Close after the timeout
Reset(c) == Close

TimedOut(c) ==
  /\ pc[c] = "expire" /\ MuFree
  /\ Reset(c)
  /\ Return(c, Result("timeout", partial[c]))
  /\ UNCHANGED <<mu, buf, readerVars, expired, partial, remoteVars>>

-----------------------------------------------------------------------------
(* The remote shell, and the connection to it. *)

Emit(s) == wire' = wire \o s

RemoteStart ==
  /\ remoteUp /\ running = None /\ stdin # <<>>
  /\ running' = Head(stdin)
  /\ stdin' = Drop(stdin, 1)
  /\ Emit(<<Start(running')>>)
  /\ UNCHANGED <<shellVars, readerVars, callVars, result, emitted, finished, noise, remoteUp>>

RemoteOutput ==
  /\ remoteUp /\ running # None /\ emitted[running] < MaxOut
  /\ emitted' = [emitted EXCEPT ![running] = @ + 1]
  /\ Emit(<<Piece("out", running, emitted'[running])>>)
  /\ UNCHANGED <<shellVars, readerVars, callVars, result, stdin, running, finished, noise, remoteUp>>

RemoteDone ==
  /\ remoteUp /\ running # None
  /\ Emit(<<Done(running), DoneEnd(running)>>)
  /\ finished' = finished \cup {running}
  /\ running' = None
  /\ UNCHANGED <<shellVars, readerVars, callVars, result, stdin, emitted, noise, remoteUp>>

RemoteNoise ==
  /\ remoteUp /\ noise < MaxNoise
  /\ noise' = noise + 1
  /\ Emit(<<Noise>>)
  /\ UNCHANGED <<shellVars, readerVars, callVars, result, stdin, running, emitted, finished, remoteUp>>

RemoteExit ==
  /\ remoteUp
  /\ remoteUp' = FALSE
  /\ UNCHANGED <<shellVars, readerVars, callVars, result, stdin, running, emitted, finished,
                 noise, wire>>

-----------------------------------------------------------------------------

Run(c) == Dispatch(c) \/ Write(c) \/ TakeResult(c) \/ TakeTimeout(c) \/ TimedOut(c)
ReaderLoop == Load \/ Read \/ AppendChunk \/ ReadError \/ MarkDead
Remote == RemoteStart \/ RemoteOutput \/ RemoteDone \/ RemoteNoise \/ RemoteExit

\* A panic ends the process.
Crashed == reader = "panic"

Next ==
  /\ ~Crashed
  /\ \/ \E c \in Cmds : Run(c) \/ Expire(c)
     \/ ReaderLoop \/ CloseShell \/ Remote

Spec == Init /\ [][Next]_vars

\* The write of a payload waits for the remote side.
AwaitsRemote(c) == pc[c] = "write" /\ remoteUp

\* Go schedules a goroutine that can step, and a timeout passes.  The remote
\* shell need not do anything, not even take a payload.
FairSpec ==
  /\ Spec
  /\ \A c \in Cmds : WF_vars(~Crashed /\ ~AwaitsRemote(c) /\ Run(c))
  /\ \A c \in Cmds : WF_vars(~Crashed /\ Expire(c))

-----------------------------------------------------------------------------
(* Properties. *)

PCs     == {"new", "write", "wait", "expire", "back"}
Readers == {"load", "read", "append", "error", "exited", "panic"}

\* Every variable keeps its type; s.mu is held across steps exactly by the call
\* that writes its payload.
TypeOK ==
  /\ mu \in Cmds \cup {None} /\ \A c \in Cmds : mu = c <=> pc[c] = "write"
  /\ closed \in BOOLEAN /\ cancelled \in BOOLEAN /\ stdout \in {"open", "nil"}
  /\ pending \in Cmds \cup {None} /\ buf \in Seq(Pieces)
  /\ reader \in Readers /\ chunk \in Seq(Pieces)
  /\ pc \in [Cmds -> PCs] /\ expired \in [Cmds -> BOOLEAN]
  /\ result \in [Cmds -> Results \cup {None}]
  /\ partial \in [Cmds -> Seq(Pieces)]
  /\ answer \in [Cmds -> Answers \cup {None}]
  /\ stdin \in Seq(Cmds) /\ running \in Cmds \cup {None}
  /\ emitted \in [Cmds -> 0..MaxOut] /\ finished \subseteq Cmds
  /\ noise \in 0..MaxNoise /\ wire \in Seq(Pieces) /\ remoteUp \in BOOLEAN

\* A call that waits is going to be answered: readerLoop still knows its command,
\* or its result is in its channel; and readerLoop knows no command nobody waits
\* for, so that no call of Run is refused as a second one.
NoOrphan ==
  /\ \A c \in Cmds : pc[c] = "wait" => pending = c \/ result[c] # None
  /\ pending # None => pc[pending] \in {"write", "wait"} /\ result[pending] = None

\* A command that did not end well leaves no shell behind on which a later one
\* could meet its output: it timed out or the shell was closed, and it is closed.
FailureIsFinal ==
  \A c \in Cmds : answer[c] # None =>
    /\ answer[c].kind \in {"timeout", "closed", "dead"} => closed
    /\ answer[c].kind = "write" => ~remoteUp

\* Once a command did not end well, no later one is given to the remote shell or
\* reported as a success: not even one whose caller was already at the door, and
\* not when the failed one finishes late and its done line arrives.
EndedBadly(c) == answer[c] # None /\ answer[c].kind \in {"timeout", "closed", "dead", "write"}
NothingAfterFailure ==
  [][\A c, d \in Cmds : EndedBadly(c) /\ pc[d] # "back" =>
       /\ pc'[d] # "wait"
       /\ pc'[d] = "back" => answer'[d].kind # "ok"]_vars

\* What it rests on: who is past its entry then writes to a remote shell that is gone.
AfterFailure ==
  \A c, d \in Cmds : EndedBadly(c) =>
    pc[d] \notin {"wait", "expire"} /\ (pc[d] = "write" => ~remoteUp)

\* At most one call is past its entry and not back.
Serial ==
  \A c, d \in Cmds : pc[c] \notin {"new", "back"} /\ pc[d] \notin {"new", "back"} => c = d

\* A call that writes is the pending one of an open shell, and has no result yet.
Writing ==
  \A c \in Cmds :
    /\ pc[c] = "write" => pending = c /\ ~closed
    /\ pc[c] \in {"new", "write"} => result[c] = None

\* A call has an answer exactly when it is back.
Answered == \A c \in Cmds : answer[c] # None <=> pc[c] = "back"

\* A closed shell has no pending command; only a closed shell fails one.
Closed ==
  /\ closed => pending = None
  /\ cancelled => closed
  /\ \A c \in Cmds : result[c] # None /\ result[c].kind = "error" => closed

\* A complete done line stands anywhere only for a command that is finished.
SeenIn(s, F) == \A i \in Indices(s) : s[i].kind = "doneEnd" => s[i].cmd \in F
DoneSeen ==
  /\ SeenIn(buf, finished) /\ SeenIn(chunk, finished) /\ SeenIn(wire, finished)
  /\ \A c \in Cmds : result[c] # None /\ result[c].kind = "ok" => c \in finished

\* The commands the remote shell has and has not finished: submitted ones, each once.
Submitted ==
  /\ \A i \in Indices(stdin) : stdin[i] \notin finished /\ pc[stdin[i]] \notin {"new", "write"}
  /\ \A i, j \in Indices(stdin) : stdin[i] = stdin[j] => i = j
  /\ running # None =>
       /\ running \notin finished /\ pc[running] \notin {"new", "write"}
       /\ \A i \in Indices(stdin) : stdin[i] # running
  /\ \A c \in finished : pc[c] \notin {"new", "write"}

\* The invariant the proofs need when calls are serialised: inductive, and enough
\* for RefinesService.
ShellInv ==
  /\ TypeOK /\ Serial /\ NoOrphan /\ Writing /\ Answered
  /\ Closed /\ FailureIsFinal /\ DoneSeen /\ Submitted

\* The pieces of its output that c reads back, by their numbers.
Own(c, out)    == {out[i].n : i \in {k \in Indices(out) : out[k].kind = "out"}}
Noticed(out)   == \E i \in Indices(out) : out[i].kind = "notice"

\* What Run returns is output of its own command, in order; after a success all of
\* it, or a truncation notice says that some is missing.
OutputFaithful ==
  \A c \in Cmds : answer[c] # None =>
    LET out == answer[c].out IN
    /\ \A i \in Indices(out) : out[i].kind \in {"out", "done", "doneEnd"} => out[i].cmd = c
    /\ \A i, j \in Indices(out) :
         i < j /\ out[i].kind = "out" /\ out[j].kind = "out" => out[i].n < out[j].n
    /\ answer[c].kind = "ok" /\ ~Noticed(out) => Own(c, out) = 1..emitted[c]

\* The output buffer stays within maxOutputBytes and one read.
BufBounded == Len(buf) < MaxBuf + MaxChunk

\* A call of Run returns, whatever the remote shell does, provided that the write of
\* its payload ends: no timer runs before that.
RunReturns ==
  \A c \in Cmds :
    []<>(pc[c] # "write") =>
      (pc[c] \in {"write", "wait", "expire"} ~> pc[c] = "back" \/ Crashed)

\* The shell implements the service its callers rely on.  A command counts as
\* submitted once its payload is written.
Service == INSTANCE CommandService WITH
  state <- [c \in Cmds |-> IF pc[c] \in {"new", "write"} THEN "new"
                           ELSE IF pc[c] # "back" THEN "running"
                           ELSE IF answer[c].kind = "ok" THEN "ok" ELSE "failed"],
  dead  <- closed \/ ~remoteUp

RefinesService == Service!Spec

=============================================================================
