---------------------------- MODULE TerminalBridge ----------------------------
(***************************************************************************)
(* Browser terminals (internal/api/ws_terminal.go): the handlers that      *)
(* share the terminal shell of one client, and the raw path through        *)
(* PersistentShell (internal/ssh/shell.go) between them.                   *)
(*                                                                         *)
(* A handler is three goroutines: main, which reads the websocket and      *)
(* writes the shell; the pump, which writes what the tap queued to the     *)
(* websocket; and ping.  They write the websocket under writeMu, and Ping  *)
(* keeps it until main's Read meets the pong.  The shell's readerLoop      *)
(* calls a snapshot of the taps for each chunk.  The remote shell takes    *)
(* input only while its output does not fill the channel.                  *)
(*                                                                         *)
(* A chunk is a number in the order of reading; a shell one in the order   *)
(* of starting.  Shells and chunks are counted up to a bound.              *)
(***************************************************************************)
EXTENDS Naturals, Sequences, FiniteSets

CONSTANTS
  Handlers,
  QueueMax,  \* sendQueueMax, 256 in the code
  Window,    \* chunks of output the SSH channel holds
  MaxChunk,  \* bound: chunks of output
  MaxShell   \* bound: shells started

ASSUME BridgeAssumption ==
  /\ QueueMax \in Nat \ {0} /\ Window \in Nat \ {0}
  /\ MaxChunk \in Nat /\ MaxShell \in Nat

VARIABLES
  shell,     \* shells started so far: the last is the registered terminal
  open,      \* the last shell is alive
  written,   \* chunks its remote side has written
  nread,     \* chunks readerLoop has read
  rd,        \* readerLoop: "read" | "tap" | "done"
  batch,     \* handlers whose taps are still to be called for chunk nread
  taps,      \* handlers attached to the last shell
  main, pump, ping, \* each handler's goroutines
  mine,      \* each handler: its shell
  mu,        \* each handler: who holds writeMu
  queue,     \* each handler: sendQueue
  hand,      \* each handler: the chunk that the pump holds, or 0
  screen,    \* each handler: the chunks that went out to the browser
  from,      \* each handler: the chunks read when its tap was attached
  gaps,      \* each handler: a chunk was dropped
  ctx,       \* each handler: the context is cancelled
  ws         \* each handler: the websocket is "open" | "lost" | "closed"

shellVars == <<shell, open, written, nread, rd, batch>>
outVars   == <<queue, hand, screen, from, gaps>>
goVars    == <<main, pump, ping, mine, mu, ctx, ws>>
vars == <<shellVars, taps, outVars, goVars>>

-----------------------------------------------------------------------------
(* The shell *)

Init ==
  /\ shell = 0 /\ open = FALSE /\ written = 0 /\ nread = 0 /\ rd = "done"
  /\ batch = {} /\ taps = {}
  /\ main = [h \in Handlers |-> "off"] /\ mine = [h \in Handlers |-> 0]
  /\ pump = [h \in Handlers |-> "off"] /\ ping = [h \in Handlers |-> "off"]
  /\ mu = [h \in Handlers |-> "free"] /\ queue = [h \in Handlers |-> <<>>]
  /\ hand = [h \in Handlers |-> 0] /\ screen = [h \in Handlers |-> <<>>]
  /\ from = [h \in Handlers |-> 0] /\ gaps = [h \in Handlers |-> FALSE]
  /\ ctx = [h \in Handlers |-> FALSE] /\ ws = [h \in Handlers |-> "open"]

\* The handler's shell runs.
Running(h) == open /\ mine[h] = shell

\* The remote side has room for output.
Room == written - nread < Window

RemoteWrites ==
  /\ open /\ Room /\ written < MaxChunk
  /\ written' = written + 1
  /\ UNCHANGED <<shell, open, nread, rd, batch, taps, outVars, goVars>>

\* Close, the exit of the remote shell, or the end of the connection.
ShellEnds ==
  /\ open /\ open' = FALSE
  /\ UNCHANGED <<shell, written, nread, rd, batch, taps, outVars, goVars>>

\* readerLoop: a chunk, and the taps there are.
ReadChunk ==
  /\ rd = "read" /\ nread < written
  /\ nread' = nread + 1 /\ batch' = taps /\ rd' = "tap"
  /\ UNCHANGED <<shell, open, written, taps, outVars, goVars>>

\* Mutant: the queue keeps slices of readerLoop's buffer, which the next read overwrites.
BugAliased(h) ==
  IF Len(queue[h]) < QueueMax
  THEN queue' = [queue EXCEPT ![h] = [i \in 1..Len(@) + 1 |-> nread]] /\ UNCHANGED gaps
  ELSE gaps' = [gaps EXCEPT ![h] = TRUE] /\ UNCHANGED queue
\* Mutant: the queue is one too long.
BugOneMore(h) == Len(queue[h]) <= QueueMax /\ queue' = [queue EXCEPT ![h] = Append(@, nread)] /\ UNCHANGED gaps
\* Mutant: the tap waits for room in the queue.
BugBlockingTap(h) == Len(queue[h]) < QueueMax /\ queue' = [queue EXCEPT ![h] = Append(@, nread)] /\ UNCHANGED gaps
\* The tap of AttachTap never waits: a chunk that finds the queue full is dropped.
Tap(h) ==
  IF Len(queue[h]) < QueueMax
  THEN queue' = [queue EXCEPT ![h] = Append(@, nread)] /\ UNCHANGED gaps
  ELSE gaps' = [gaps EXCEPT ![h] = TRUE] /\ UNCHANGED queue

CallTap(h) ==
  /\ rd = "tap" /\ h \in batch
  /\ Tap(h)
  /\ batch' = batch \ {h}
  /\ UNCHANGED <<shell, open, written, nread, rd, taps, hand, screen, from, goVars>>

\* The chunk goes to buf; the loop ends when the shell has.
NextChunk ==
  /\ rd = "tap" /\ batch = {} /\ rd' = "read"
  /\ UNCHANGED <<shell, open, written, nread, batch, taps, outVars, goVars>>

ReaderEnds ==
  /\ rd = "read" /\ ~open /\ rd' = "done"
  /\ UNCHANGED <<shell, open, written, nread, batch, taps, outVars, goVars>>

-----------------------------------------------------------------------------
(* Main: up to the read loop *)

\* Main goes on and touches nothing but what the caller says.
MainTo(h, pc) == main' = [main EXCEPT ![h] = pc]

\* sendStatus: under writeMu.
Status(h, pc) == MainTo(h, pc) /\ mu[h] = "free" /\ mu' = [mu EXCEPT ![h] = "main"]

Accept(h) ==
  /\ main[h] = "off" /\ Status(h, "connecting")
  /\ UNCHANGED <<shellVars, taps, outVars, pump, ping, mine, ctx, ws>>

\* A write ends when the browser takes it, or fails, which closes the websocket.
Fails(h)  == (ws[h] # "open" \/ ctx[h]) /\ ws' = [ws EXCEPT ![h] = "closed"]
Written(h) == (ws[h] = "open" /\ UNCHANGED ws) \/ Fails(h)

StatusSent(h) ==
  /\ main[h] \in {"connecting", "ready", "failing"}
  /\ Written(h)
  /\ mu' = [mu EXCEPT ![h] = "free"]
  /\ MainTo(h, CASE main[h] = "connecting" -> "get" [] main[h] = "ready" -> "attach" [] OTHER -> "close")
  /\ UNCHANGED <<shellVars, taps, outVars, pump, ping, mine, ctx>>

\* GetOrCreateTerminal: the shell that runs, or a new one in the place of one
\* that ended, whose readerLoop is taken to be done by then.  A shell that runs
\* but no longer fits the session is closed first (ShellEnds).
GetTerminal(h) ==
  /\ main[h] = "get" /\ Status(h, "ready")
  /\ IF open THEN UNCHANGED <<shellVars, taps>>
     ELSE /\ rd = "done" /\ shell < MaxShell
          /\ shell' = shell + 1 /\ open' = TRUE
          /\ nread' = written /\ rd' = "read" /\ taps' = {}
          /\ UNCHANGED <<written, batch>>
  /\ mine' = [mine EXCEPT ![h] = shell']
  /\ UNCHANGED <<outVars, pump, ping, ctx, ws>>

NoTerminal(h) ==
  /\ main[h] = "get" /\ Status(h, "failing")
  /\ UNCHANGED <<shellVars, taps, outVars, pump, ping, mine, ctx, ws>>

\* The ping goroutine starts; AttachTap.  The tap of a shell that was replaced is never called.
Attach(h) ==
  /\ main[h] = "attach" /\ MainTo(h, "prompt")
  /\ ping' = [ping EXCEPT ![h] = "wait"]
  /\ taps' = IF mine[h] = shell THEN taps \cup {h} ELSE taps
  /\ from' = [from EXCEPT ![h] = nread]
  /\ UNCHANGED <<shellVars, queue, hand, screen, gaps, pump, mine, mu, ctx, ws>>

\* FeedRaw returns: the remote shell took the input and may echo it.
Taken(h) ==
  /\ Running(h) /\ Room
  /\ written' \in {written} \cup IF written < MaxChunk THEN {written + 1} ELSE {}
  /\ UNCHANGED <<shell, open, nread, rd, batch>>

\* The newline for a fresh prompt, whatever comes of it, and the pump.
Prompted(h) ==
  /\ main[h] = "prompt" /\ MainTo(h, "read")
  /\ Taken(h) \/ (~Running(h) /\ UNCHANGED shellVars)
  /\ pump' = [pump EXCEPT ![h] = "wait"]
  /\ UNCHANGED <<taps, outVars, ping, mine, mu, ctx, ws>>

-----------------------------------------------------------------------------
(* Main: the read loop and the end *)

\* A binary frame.  A text frame resizes the terminal or is ignored.
Key(h) ==
  /\ main[h] = "read" /\ ws[h] = "open" /\ MainTo(h, "feed")
  /\ UNCHANGED <<shellVars, taps, outVars, pump, ping, mine, mu, ctx, ws>>

\* The browser closes, the transport is lost, or a frame is too large.
ReadFails(h) ==
  /\ main[h] = "read" /\ MainTo(h, "detach")
  /\ ws' = [ws EXCEPT ![h] = "closed"]
  /\ UNCHANGED <<shellVars, taps, outVars, pump, ping, mine, mu, ctx>>

Fed(h) ==
  /\ main[h] = "feed" /\ Taken(h) /\ MainTo(h, "read")
  /\ UNCHANGED <<taps, outVars, pump, ping, mine, mu, ctx, ws>>

FeedFails(h) ==
  /\ main[h] = "feed" /\ ~Running(h) /\ MainTo(h, "detach")
  /\ UNCHANGED <<shellVars, taps, outVars, pump, ping, mine, mu, ctx, ws>>

Detach(h) ==
  /\ main[h] = "detach" /\ MainTo(h, "cancel")
  /\ taps' = IF mine[h] = shell THEN taps \ {h} ELSE taps
  /\ UNCHANGED <<shellVars, outVars, pump, ping, mine, mu, ctx, ws>>

\* Mutant: the goroutines are awaited before they are told to end.
BugNoCancel(h) == UNCHANGED ctx
CancelCtx(h) == ctx' = [ctx EXCEPT ![h] = TRUE]

Cancel(h) ==
  /\ main[h] = "cancel" /\ MainTo(h, "join")
  /\ CancelCtx(h)
  /\ UNCHANGED <<shellVars, taps, outVars, pump, ping, mine, mu, ws>>

\* Mutant: main does not wait for ping.
BugPumpOnly(h) == pump[h] = "end"
Joined(h) == pump[h] = "end" /\ ping[h] = "end"

Join(h) ==
  /\ main[h] = "join" /\ Joined(h) /\ MainTo(h, "close")
  /\ UNCHANGED <<shellVars, taps, outVars, pump, ping, mine, mu, ctx, ws>>

\* conn.Close, without writeMu; it waits for the browser for 5 s at most.
Close(h) ==
  /\ main[h] = "close" /\ MainTo(h, "end")
  /\ ws' = [ws EXCEPT ![h] = "closed"]
  /\ UNCHANGED <<shellVars, taps, outVars, pump, ping, mine, mu, ctx>>

-----------------------------------------------------------------------------
(* Pump and ping *)

PumpTakes(h) ==
  /\ pump[h] = "wait" /\ queue[h] # <<>>
  /\ hand' = [hand EXCEPT ![h] = Head(queue[h])]
  /\ queue' = [queue EXCEPT ![h] = Tail(@)]
  /\ pump' = [pump EXCEPT ![h] = "lock"]
  /\ UNCHANGED <<shellVars, taps, screen, from, gaps, main, ping, mine, mu, ctx, ws>>

PumpLocks(h) ==
  /\ pump[h] = "lock" /\ mu[h] = "free"
  /\ pump' = [pump EXCEPT ![h] = "write"] /\ mu' = [mu EXCEPT ![h] = "pump"]
  /\ UNCHANGED <<shellVars, taps, outVars, main, ping, mine, ctx, ws>>

PumpWrites(h) ==
  /\ pump[h] = "write" /\ ws[h] = "open"
  /\ screen' = [screen EXCEPT ![h] = Append(@, hand[h])]
  /\ hand' = [hand EXCEPT ![h] = 0] /\ mu' = [mu EXCEPT ![h] = "free"]
  /\ pump' = [pump EXCEPT ![h] = "wait"]
  /\ UNCHANGED <<shellVars, taps, queue, from, gaps, main, ping, mine, ctx, ws>>

PumpEnds(h) ==
  /\ \/ pump[h] = "wait" /\ ctx[h] /\ UNCHANGED <<mu, ws>>
     \/ pump[h] = "write" /\ Fails(h) /\ mu' = [mu EXCEPT ![h] = "free"]
  /\ pump' = [pump EXCEPT ![h] = "end"]
  /\ UNCHANGED <<shellVars, taps, outVars, main, ping, mine, ctx>>

Tick(h) ==
  /\ ping[h] = "wait" /\ ping' = [ping EXCEPT ![h] = "lock"]
  /\ UNCHANGED <<shellVars, taps, outVars, main, pump, mine, mu, ctx, ws>>

PingLocks(h) ==
  /\ ping[h] = "lock" /\ mu[h] = "free"
  /\ ping' = [ping EXCEPT ![h] = "pong"] /\ mu' = [mu EXCEPT ![h] = "ping"]
  /\ UNCHANGED <<shellVars, taps, outVars, main, pump, mine, ctx, ws>>

\* Only main's Read meets the pong.
Pong(h) ==
  /\ ping[h] = "pong" /\ ws[h] = "open" /\ main[h] = "read"
  /\ ping' = [ping EXCEPT ![h] = "wait"] /\ mu' = [mu EXCEPT ![h] = "free"]
  /\ UNCHANGED <<shellVars, taps, outVars, main, pump, mine, ctx, ws>>

PingEnds(h) ==
  /\ \/ ping[h] = "wait" /\ ctx[h] /\ UNCHANGED mu
     \/ ping[h] = "pong" /\ (ctx[h] \/ ws[h] = "closed") /\ mu' = [mu EXCEPT ![h] = "free"]
  /\ ping' = [ping EXCEPT ![h] = "end"]
  /\ UNCHANGED <<shellVars, taps, outVars, main, pump, mine, ctx, ws>>

\* The transport of the websocket goes; whoever uses it next notices.
BrowserLost(h) ==
  /\ main[h] # "off" /\ ws[h] = "open" /\ ws' = [ws EXCEPT ![h] = "lost"]
  /\ UNCHANGED <<shellVars, taps, outVars, main, pump, ping, mine, mu, ctx>>

-----------------------------------------------------------------------------
Reader == ReadChunk \/ NextChunk \/ ReaderEnds \/ \E h \in Handlers : CallTap(h)

\* What a handler's main does without anyone's help: no write to a browser that
\* takes nothing, no wait for a key, none for the host that opens the terminal.
MainRuns(h) ==
  \/ Attach(h) \/ Detach(h) \/ Cancel(h) \/ Join(h) \/ Close(h)
  \/ (ws[h] # "open" /\ (StatusSent(h) \/ ReadFails(h)))
Feeding(h) == Prompted(h) \/ Fed(h) \/ FeedFails(h)

Main(h) == Accept(h) \/ StatusSent(h) \/ GetTerminal(h) \/ NoTerminal(h) \/ Attach(h) \/ Key(h)
           \/ ReadFails(h) \/ Feeding(h) \/ Detach(h) \/ Cancel(h) \/ Join(h) \/ Close(h)
Pump(h) == PumpTakes(h) \/ PumpLocks(h) \/ PumpWrites(h) \/ PumpEnds(h)
Ping(h) == Tick(h) \/ PingLocks(h) \/ Pong(h) \/ PingEnds(h)

Next ==
  \/ RemoteWrites \/ ShellEnds \/ Reader
  \/ \E h \in Handlers : Main(h) \/ Pump(h) \/ Ping(h) \/ BrowserLost(h)

(***************************************************************************)
(* Fairness.  The goroutines run, and a remote shell that can write its    *)
(* output reads its input.  Nothing is assumed of a browser: it may take   *)
(* no output, send nothing and answer no ping.  Nor of the host that opens *)
(* a terminal: GetOrCreateTerminal waits for it without a deadline.        *)
(***************************************************************************)
Fairness ==
  /\ WF_vars(Reader)
  /\ \A h \in Handlers :
       /\ WF_vars(MainRuns(h)) /\ WF_vars(Feeding(h))
       /\ WF_vars(PumpTakes(h)) /\ WF_vars(PumpLocks(h)) /\ WF_vars(PumpEnds(h))
       /\ WF_vars(PingLocks(h)) /\ WF_vars(PingEnds(h))

Spec == Init /\ [][Next]_vars
FairSpec == Spec /\ Fairness
-----------------------------------------------------------------------------
(* Properties *)

TypeOK ==
  /\ shell \in 0..MaxShell /\ open \in BOOLEAN
  /\ written \in 0..MaxChunk /\ nread \in 0..written
  /\ rd \in {"read", "tap", "done"}
  /\ batch \subseteq Handlers /\ taps \subseteq Handlers
  /\ main \in [Handlers -> {"off", "connecting", "get", "ready", "failing", "attach", "prompt",
                            "read", "feed", "detach", "cancel", "join", "close", "end"}]
  /\ pump \in [Handlers -> {"off", "wait", "lock", "write", "end"}]
  /\ ping \in [Handlers -> {"off", "wait", "lock", "pong", "end"}]
  /\ mine \in [Handlers -> 0..MaxShell]
  /\ mu \in [Handlers -> {"free", "main", "pump", "ping"}]
  /\ queue \in [Handlers -> Seq(1..MaxChunk)] /\ screen \in [Handlers -> Seq(1..MaxChunk)]
  /\ \A h \in Handlers : Len(queue[h]) <= QueueMax
  /\ hand \in [Handlers -> 0..MaxChunk] /\ from \in [Handlers -> 0..MaxChunk]
  /\ gaps \in [Handlers -> BOOLEAN] /\ ctx \in [Handlers -> BOOLEAN]
  /\ ws \in [Handlers -> {"open", "lost", "closed"}]

\* The goroutines of a handler that are writing its websocket.
Writers(h) ==
  {g \in {"status", "close", "pump", "ping"} :
    \/ g = "status" /\ main[h] \in {"connecting", "ready", "failing"}
    \/ g = "close" /\ main[h] = "close"
    \/ g = "pump" /\ pump[h] = "write"
    \/ g = "ping" /\ ping[h] = "pong"}

\* "All writes (Write, Ping, Close) must be serialized": also the Close at the
\* end, which takes no lock.
WriteExclusive == \A h \in Handlers : \A g, k \in Writers(h) : g = k

\* What a handler has got of the output, on its way through tap, queue and pump.
InHand(h) == IF hand[h] = 0 THEN <<>> ELSE <<hand[h]>>
AtTap(h)  == IF h \in batch THEN <<nread>> ELSE <<>>
Got(h)    == screen[h] \o InHand(h) \o queue[h] \o AtTap(h)

\* The chunks after f, up to n.
Since(f, n) == [i \in 1..n - f |-> f + i]

\* A browser sees the output from where it attached, in order and without a
\* gap, unless its own queue was full: whatever other browsers come, go or do
\* not read, and whichever of two goroutines is first.
Faithful ==
  \A h \in Handlers :
    h \in taps /\ ~gaps[h] => Got(h) = Since(from[h], nread)

\* The chunks rise, and none is after the last one read.
Rising(r, n) == \A i \in 1..Len(r) : r[i] <= n /\ \A j \in 1..i - 1 : r[j] < r[i]

\* Also with a queue that was full, after detach, and when the shell was
\* replaced meanwhile: no browser sees a chunk twice or after a later one.
Ordered == \A h \in Handlers : Rising(Got(h), nread)

\* The inductive invariant, in parts.  WriteLock: who holds writeMu, and that
\* the goroutines run only between the statuses and the Close.
Early == {"off", "connecting", "get", "ready", "failing", "attach"}
WriteLock ==
  \A h \in Handlers :
    /\ mu[h] = "main" <=> main[h] \in {"connecting", "ready", "failing"}
    /\ mu[h] = "pump" <=> pump[h] = "write"
    /\ mu[h] = "ping" <=> ping[h] = "pong"
    /\ main[h] \in Early => pump[h] = "off" /\ ping[h] = "off"
    /\ main[h] = "prompt" => pump[h] = "off"
    /\ main[h] \in {"close", "end"} => pump[h] \in {"off", "end"} /\ ping[h] \in {"off", "end"}

\* Taps: a tap is called only in its reader's round; it is there from AttachTap
\* to detach, and before it nothing was received.
Taps ==
  /\ batch # {} => rd = "tap"
  /\ rd = "tap" => nread # 0
  /\ \A h \in Handlers :
       /\ h \in taps => mine[h] = shell /\ main[h] \in {"prompt", "read", "feed", "detach"} /\ from[h] <= nread
       /\ h \in batch => main[h] \notin Early
       /\ main[h] \in Early => screen[h] = <<>> /\ queue[h] = <<>>
       /\ pump[h] \in {"off", "wait"} => hand[h] = 0
       /\ pump[h] \in {"lock", "write"} => hand[h] # 0

BridgeInv == TypeOK /\ WriteLock /\ Taps /\ Faithful

\* The handler has returned, and left no tap and no goroutine behind.
Gone(h) == main[h] = "end" /\ h \notin taps /\ pump[h] \in {"off", "end"} /\ ping[h] \in {"off", "end"}

\* Goroutine g of a handler cannot go on before k: it wants writeMu, joins k, or
\* is a ping that only main's Read, the context or the end of the websocket ends.
WaitsFor(h, g, k) ==
  \/ g = "main" /\ main[h] \in {"off", "get"} /\ mu[h] = k
  \/ g = "main" /\ main[h] = "join" /\ ((k = "pump" /\ pump[h] # "end") \/ (k = "ping" /\ ping[h] # "end"))
  \/ g = "pump" /\ pump[h] = "lock" /\ mu[h] = k
  \/ g = "ping" /\ ping[h] = "lock" /\ mu[h] = k
  \/ /\ g = "ping" /\ ping[h] = "pong" /\ k = "main"
     /\ ~ctx[h] /\ ws[h] # "closed" /\ ~(ws[h] = "open" /\ main[h] = "read")

\* Main joins the pump, the pump wants the lock that ping keeps until main reads
\* the pong: the cancel before the join is what opens this circle, and there is
\* no other one.
NoCircularWait ==
  \A h \in Handlers : \A D \in SUBSET {"main", "pump", "ping"} :
    D # {} => \E g \in D : \A k \in D : ~WaitsFor(h, g, k)

\* Main joins after the cancel.
JoinAfterCancel == \A h \in Handlers : main[h] = "join" => ctx[h]

\* GetOrCreateTerminal returns when the handler calls it.  It need not: a host
\* that is silent while it opens the shell keeps the handler for ever.
HostAnswers(h) == []<>(main[h] # "get")

\* A handler whose browser is gone, and whose terminal the host did not leave
\* half open, returns, wherever its goroutines wait: for writeMu, for a pong,
\* for a browser to read, for the shell's input, for one another.
HandlerReturns == \A h \in Handlers : HostAnswers(h) => (ws[h] # "open" ~> Gone(h))

\* A keystroke, or the newline for the prompt, is taken although no browser
\* reads output and no ping is answered: the queue that nobody empties does not
\* stop readerLoop, which would fill the channel and stop the remote shell.
KeyTaken == \A h \in Handlers : main[h] \in {"prompt", "feed"} ~> main[h] \notin {"prompt", "feed"}
=============================================================================
