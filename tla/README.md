# RemoteBash: a TLA+ development

RemoteBash is a server that keeps long-lived SSH sessions to registered hosts and runs
commands on them for MCP clients, web terminals and an HTTP API. This directory holds TLA+
modules translated from its Go source, TLC configurations that check them on small
instances, and TLAPS proofs about them for every instance. Paths are those of the repository
(`internal/...` under `src/`); the line ranges of each definition are in `PROJECT.json`.

## Inventory

| Component | State | Operations | Hard behaviour | What makes it correct |
|---|---|---|---|---|
| `RemoteSession` (`internal/ssh/client.go`) | client, MCP shell, relay, keepalive channel, cwd and `$HOME` cache; four locks | Connect, Disconnect, EnsureShell, Exec, Transfer, keepaliveLoop | callers, reconnects and one keepalive goroutine per client interleave; the link drops, hangs or falls silent | the shell runs on the current client; nothing survives a Disconnect; no client is lost; every operation ends |
| `PersistentShell` (`internal/ssh/shell.go`) | output buffer, pending command, closed flag, result channels, taps | Start, Run, Close, readerLoop, AttachTap | reader, caller, timeout and Close race; output arrives in arbitrary pieces; overflow | a command gets its own output, whole or marked as cut; each call is answered; a failed one leaves no half-run command behind |
| `DBHandler` (`internal/database/loghandler.go`) | buffered channel, closed flag | Handle, worker, Shutdown | handlers still log during shutdown; full queue | accepted records reach the database before it closes; logging neither blocks nor panics |
| `ConnectionManager` (`internal/manager/manager.go`) | sessions and terminals by name, the via graph | Load, Add, Update, Remove, Exec, GetOrCreateTerminal, CloseTerminal, WarmUp, Close | handlers of several requests interleave; the database fails half-way; a tunnel takes the locks of a chain of sessions | memory and database agree; a removed client is gone; the tunnel graph has no cycle |
| Database (`internal/database/sqlite.go`) | clients, audit_log, server_log with a foreign key | CRUD, paged queries | foreign keys, ties in the ordering | pages partition the log |
| Relay (`internal/ssh/relay.go`) | a process on the jump host (one of several candidate commands), an unbuffered pipe and two copying goroutines | Connect, bridgeStdout, bridgeStdin, Close | Close races the goroutines and waits for a remote end; the process dies under a client | no process stays behind, bytes in order, Close ends, a loss is noticed |
| Terminal bridge (`internal/api/ws_terminal.go`) | per websocket: main, pump and ping goroutine, write lock, queue, tap on the shared shell | one handler per socket | browsers that vanish, read nothing or answer no ping, against the reader loop | one writer at a time, output in order, keystrokes taken, nothing left |
| HTTP, MCP (`internal/api/routes.go`, `internal/mcp/server.go`, `internal/server/server.go`, `internal/config/config.go`) | routes | decode, call the manager, encode | base URL and redirects | every route is reachable under the prefix |
| Web interface, scripts, models | | | | presentation and packaging, not modelled |

Interactions: HTTP and MCP handlers call the manager from one goroutine per request; the
manager holds sessions and calls into them outside its own lock; a session owns a shell, and
the shell a reader goroutine; a session's tunnel resolver calls the manager, which may connect
another session; everything logs through the `DBHandler`; `server.Run` shuts them down in the
order http, manager, log handler, database. `PROJECT.json` lists each hazard at its line.

## Modules

| Module | Models |
|---|---|
| `RemoteSession` | one session with its locks: Connect, Disconnect, EnsureShell, Exec, home/Transfer and the keepalive goroutines |
| `SessionLifecycle` | abstract: what a caller may rely on (connections do not overlap, a shell is opened on the newest one only, none is left when the session is down) |
| `PersistentShell` | the MCP shell: Run, dispatch, waitForResult, readerLoop, scanning and truncation, Close, against a remote shell and a PTY |
| `CommandService` | abstract: each command is submitted, then answered once; success only if the remote shell finished it; a failed one leaves the shell dead |
| `LogHandler` | the asynchronous log handler and the shutdown order that follows it |
| `Registry` | the manager: sessions and terminals by name against the rows of the database, and the request handlers that use what they looked up |
| `ClientDirectory` | abstract: a name of a client is absent, listed, or leaving; only an absent one can be added, and a restart loses nothing that is listed |
| `Relay` | the TCP relay through a jump host: Connect with its candidates, both bridges, Close, the client above and the process below |
| `DuplexLink` | abstract: two FIFO links that deliver in order and at most once until they are over |
| `TunnelChain` | sessions that connect through one another: the chain of connectLocks, the via graph and its changes, WarmUp, disconnects on the way |
| `TerminalBridge` | the websocket handlers on one terminal shell: main, pump, ping, write lock, queue, taps |
| `*_proofs` | the theorems about the module of that name; `SessionLifecycle_proofs` has those of `RemoteSession` that rest on who closes what |
| `MC*` | the instances for TLC |

### RemoteSession

A client (`gossh.Client`) is a number in the order of publication and 0 is nil; the keepalive
channel and goroutine started for client `c` are both called `c`. `connectLock`, `shellLock`
and `execLock` are variables holding their owner; `connMu` only protects single accesses, so
each of its critical sections is one step. Every goroutine has a program counter whose prefix
names the method it is in (`c_` Connect, `d_` Disconnect, `s_` EnsureShell, `r_` Run, `x_`
Exec, `h_` home, `k_` keepaliveLoop), `op` is the operation to return to. A step is what the
code does between two points where another goroutine can interfere: a lock, a network call, an
unlocked read. `link` is the transport of a client: `stalled` is a peer that is silent on a
healthy TCP connection, `hung` one to which even the write in `Close` blocks, `down` one that
has failed.

The steps of `Run` are coarse here (dispatch, write, result); `PersistentShell` refines them,
including a panic of the reader that `RemoteSession` leaves out. A handshake through a jump host
may fail before or after a relay was started; what happens in there is `TunnelChain`'s and `Relay`'s.

### PersistentShell

Data is a sequence of pieces: a start line, numbered pieces of output, the two halves of a done
line, a truncation notice, noise that no command printed. That keeps what the scan can confuse:
the sentinel split over two reads, output of an earlier command, cut-off parts. `wire` is what
the remote side has printed, `chunk` what one `Read` returned, `buf` the accumulated buffer.
`s.mu` is a variable only where it is held across a blocking write; other critical sections are
single steps. The model starts after Start has returned, that is with an empty buffer and
the reader running. `Serialised` says whether calls come one at a time, which Exec, their only
caller, sees to by `execLock` (`OneCommand` of `RemoteSession` is that fact, and a theorem); it is
FALSE where the question is what Run does without it. The write of a payload (`Write`) waits for the
remote side before the command's timer starts, and may wait for ever (`AwaitsRemote`).

### LogHandler

One step per atomic operation on the flag and the channel: the test of `closed` and the send
in `Handle` are two steps, as are setting the flag and closing the channel in `Shutdown`.

### Registry

A session object is a pair `<<name, n>>`, the n-th made for that name since the process
started, so that a handler which still holds the object of a removed client is told apart from
one that holds its successor's. A critical section of `m.mu` is one step (Add and Update hold it
from beginning to end), a statement of the database is one step, and `execLock` is a variable.
A handler starts with its lookup (`ExecGet`, `TermGet`, `RemoveBegin`, ...) and then works on `se` and
`tm`, which may be stale. `rows` and `audit` are the tables, with the primary key of one and the
foreign key of the other; a database that fails for another reason is left out. Of a session
only whether it is connected remains, of its fields only `safe_rm`; `via` is `TunnelChain`'s.
The handlers that end terminals, disconnectClient and the deletion, look the client up before they
do (`DisconnectGet`, `RemoveBegin`): a terminal under a name that is not registered is out of their
reach. `Update` may leave the row as it was, which is what a rejected `via` does after the session has
been changed. `Restart` is a crash at any point followed by `Load`. `Status` reads map and table
together as the status of a name in `ClientDirectory`.

### Relay

`r.mu` protects single reads and writes, so its critical sections are steps, and Connect, which
holds it throughout, is followed only where it tries one candidate after another. The bridges load
`r.connB` without `r.mu`: the load is a step of its own, apart from the Read or Write on what it
returned, and a load after Close cleared the field is a panic that ends the process (`crashed`). A
`net.Pipe` has no buffer, so a Write meets a Read and both fail once one end is closed. Chunks are
numbered in the order of sending, 0 is a packet of the keepalive. `tools` says which candidates
exist on the jump host: the server accepts an exec request before it looks for the program, so a
missing one starts as well and ends at once. The client on the caller's end is reduced to
handshake, publication and closing, and Close is called by as many goroutines as one likes, the way
Disconnect and a Connect whose handshake failed do.

### TunnelChain

A goroutine that connects session `n` holds `n`'s `connectLock` while the resolver connects `n`'s
jump host, and so on: `path[g]` is its stack of Connect calls, and it owns the locks of all but the
last, for which it may be waiting. `Return` is the deferred unlock of the last call, `Unwind` an
error or a recovered panic that goes through all of them. The resolver looks at `via`, at the
registry, at the jump host's client and at it again in steps, so that all of them may change in
between: a nil client makes the dial panic, which net/http recovers in a handler and nobody in
`WarmUp` (`Panic`, which is then a restart). A client that runs over a closed one is dead without a word and
left to its own keepalive, which is `RemoteSession`'s; a `Disconnect` may come at any time a session is
unlocked. Add, Update and Remove are one step each under `m.mu`; the rest of Remove, after it left the
registry, is `RemoveEnds`. `rows` is the `via` column: a DELETE that the foreign key refuses, an UPDATE that
fails and a restart inside Remove make it differ from the registry, which `drifted` remembers when
Load takes it up. `WouldCreateCycle` is the definition of a cycle that the properties use, `Walk`
the loop of the code, with its set of names seen; it is a recursive function on pairs of a name and
such a set, so that it can be proved about, and `FiniteNames` (a Go map is finite) makes it end.

### TerminalBridge

A handler is three program counters: `main` sends a status, gets the terminal, attaches the tap,
sends a newline and then reads the websocket and writes the shell; `pump` writes what the tap queued
to the websocket; `ping` sends a ping and keeps `writeMu` until the pong came, which only main's Read
can meet. `readerLoop` takes a snapshot of the taps for each chunk (`batch`) and calls them one by
one. The remote shell reads its input only while its output does not fill the channel (`Window`),
which is how a tap that waited would stop a keystroke. Chunks are numbered in the order of reading,
and `screen`, `hand`, `queue` and `batch` say where a browser's copy of each is. A shell that ended may
be replaced by the next handler; one whose reader has not ended yet by then is left out. Handlers that
share a shell, or find it replaced, are the theorems' part: the run has one handler.

## Checks

| Run | Question | Bounds and why they are enough |
|---|---|---|
| `session_exec` | types, `CommandOnCurrent`, refinement of `SessionLifecycle` | 2 callers that execute, disconnect and remove, and up to 2 keepalives; 2 clients and 2 shells: a stale one and a new one of each (1.3 million states) |
| `session_shell` | `NoStaleShell`, `NoLeakedClient`, `WatchedConn`, `RelayMatchesConn` | 2 callers that connect, start shells and transfer without `execLock`; links that hang or drop; 2 clients, 1 shell, safe_rm toggled at any time (2.6 million states) |
| `session_returns` | liveness: `ReturnsIfAnswered`, `DisconnectFinishes` | 2 callers, 1 client, 1 shell, every fault: a lock cycle needs two goroutines, the keepalive is the third |
| `shell_run` | types, `OutputFaithful`, `BufBounded`, refinement of `CommandService`, liveness `RunReturns` | 2 commands in turn (the second meets what the first left), a buffer of 4 pieces and 3 of output, so that one command overflows it; reads of 1 or 2 pieces split every sentinel; 1 of noise (1.4 million states) |
| `log_shutdown` | types, `NothingLost`, `DrainedBeforeClose`, `ShutdownReturns`, `LogReturns` | 2 loggers, 3 records each, a queue of 2: it is full with one logger outside |
| `registry` | types, `NoCommandCut`, `AuditedIfRegistered`, the action property `NoLeakedTerminal`, refinement of `ClientDirectory` | 1 name (names share nothing here), 2 handlers that do anything to it, 2 session objects and 2 terminals, so that an old and a new one of each meet; 1 restart (1.0 million states) |
| `relay` | types, `NoStrayProcess`, refinement of `DuplexLink`, liveness `CloseReturns`, `LossNoticed` | 2 candidates: one fails before one starts; 2 callers of Close: one is not the first; 2 chunks each way: one in a bridge, one behind it (111,000 states) |
| `tunnel` | types, `OwnedByCalls`, `Acyclic`, `WalkAgrees`, `NoLockCycle` | 3 names: the shortest cycle that does not hold the name one starts from; a handler and a goroutine of WarmUp, which deadlock if two can; 2 clients; 2 changes: one to break what the other made (394,000 states) |
| `tunnel_returns` | liveness: `ConnectReturns` | the same with any acyclic graph of 3 names and no change (20,000 states) |
| `terminal` | types, `WriteExclusive`, `Faithful`, liveness `HandlerReturns`, `KeyTaken` | 1 handler (its 3 goroutines interleave; the theorems cover any number), a queue of 2, a channel of 1 and 5 chunks, so that both fill up; 1 shell, which may end (111,000 states) |

Further safety properties are theorems and have no run of their own. Some are steps of the proofs
(`SessionInv`, `ShellInv`, `NeverBusy`, `TornDown`, `NoOrphan`, `FailureIsFinal`, `CloseWaits`,
`CrashNeedsClose`, `Gone`), `SessionsPersisted` follows from `RefinesDirectory`, and the others were
checked once on the instances of the runs above before they were proved: `ExecLockOwned`,
`OneCommand` and `NoCircularWait` of `RemoteSession`, `InLogOrder`, `LockHeld`,
`OwnTerminals` and `RemovesOwn` of `Registry`, `NothingAfterFailure`, `Ordered` and `NoCircularWait` of `TerminalBridge`,
`StreamsWhole`.

Runs that expect a violation each show one disagreement between the code and what a comment
or description in the repository says; `findings` in `PROJECT.json` quotes the line:

| Run | What it shows |
|---|---|
| `session_keepalive_kills_other` | a failed keepalive can disconnect a client other than the one it was sent on |
| `log_panic` | a send on the closed channel is still possible |

The models reach further states that a comment denies or a caller would not expect, and no run is
spent on them; `hazards` in `PROJECT.json` lists each at its line:

- in a session: an Exec that a silent peer holds for ever, because neither the handshake nor Start
  has a timeout; a `$HOME` cache filled after the disconnect that clears it; a shell whose
  `SafeRmFlag` is not the script it was started with;
- in a shell: a reader that uses the `stdout` Close has set to nil; a closed shell reported as a
  timeout; a result whose output is gone when the timeout wins; a second truncation that forgets
  what the first one cut; a second caller refused and not serialised; a payload whose write never ends,
  since the timeout starts only after it;
- in the manager: a command queued behind Remove that connects the removed session again, which
  nobody disconnects afterwards; a row that Remove cannot delete because a transfer was audited in
  between; a terminal installed after its client was removed, which no handler can end;
- in a browser terminal: a handler that stays although its browser is gone, because the host never
  answers the call that opens the shell;
- in the relay: a candidate that does not exist and "starts", so that no RelayError names it; a
  bridge that meets the nil `connB` of a Close, which ends the whole process (`crashed`);
- in a chain: a Connect that waits for a lock it holds itself, after Update changed a jump host on
  its way or after Load took a cycle from drifted rows; a dial on the nil client of a jump host that
  has just gone.

Symmetry is used in the safety runs over callers, handlers or names, which the modules only compare for
equality, and in no liveness run. `CHECK_DEADLOCK FALSE` stands where the system really stops: a
shell all of whose commands are answered, a log handler that is shut down, a relay that is closed
or has crashed, a handler that has returned, and a registry or chain whose bounds are used up. The
sessions' runs check deadlock.

### Fairness

`FairSpec` of `RemoteSession` makes each goroutine that is inside an operation strongly fair: Go
schedules runnable goroutines, and its mutexes hand over to a waiter after 1 ms, so a lock that is
released again and again is obtained. Starting an operation is never fair, and neither is the end
of an SSH handshake, which has no deadline. A hung link drops in the end (the 15 s TCP keepalive of
`client.go`); a peer that stays silent on a healthy link is noticed by nobody, which is what `ReturnsIfAnswered` excludes by its premise `PeersAnswer`;
`DisconnectFinishes` needs no such premise. `FairSpec` of `PersistentShell` makes the calls
and the expiry of their timers fair, and neither the reader nor the remote side; nor is the write of a
payload while the remote side is up, since a peer that takes no input blocks it. `RunReturns` says of
such a write nothing (its premise), and of a call that is past it that it returns whatever the remote
side does. In `LogHandler`
the worker and, once begun, Shutdown are fair, but not an insert into the database:
`LogReturns` holds even if one never ends, `ShutdownReturns` has its end as a premise.

In `Relay` the program's goroutines run, the jump host answers a close of the channel, and the
keepalive's ticker fires and its 10 s timeout leads to Disconnect; that the process takes input,
sends output or ends is not assumed. Where a bridge has panicked nothing is promised. In
`TunnelChain` goroutines run, a connectLock goes to a goroutine that waits for it again and again
(strong fairness, as above) and a dial ends, which TCP's timeout sees to; disconnects, changes of the
graph and calls are never fair. In `TerminalBridge` the
goroutines run and a remote shell that can write its output reads its input. Nothing is assumed of
a browser: it may read nothing, send nothing and answer no ping. Nor of the host that opens a terminal:
`GetOrCreateTerminal` waits for it without a deadline, so `HandlerReturns` has its answer as a premise
(`HostAnswers`) and covers the handler from there on.

## Proofs

All theorems hold for every value of the constants under the modules' own ASSUMEs. Those say that
bounds are numbers, that `None` and its like are no names, and that the operations and faults of an
instance are among those that exist; of `PersistentShell` that what a truncation keeps fits into the
buffer, as the constants of `shell.go` do; of `Relay` that somebody may call Close; of `TunnelChain`
that there are finitely many names. `PersistentShell`'s theorems with the premise `Serialised` rest on what
`CommandsAreSerialised` proves of `RemoteSession`. Every invariant, action property and refinement
that a passing run checks is stated by a theorem.

- `RemoteSession_proofs`: `TypeCorrect` (`Spec => []TypeOK`), `SessionInvariant`
  (`Spec => []SessionInv`), `ShellIsOnCurrentClient` (`Spec => []NoStaleShell`).
  `NoStaleShell` speaks of the moments when nobody holds `connectLock`; to be inductive it needs
  who holds the locks (`LocksHeld`), that the published client is the newest one (`ConnNewest`) and
  that a shell being started belongs to a client that is published or being closed
  (`ShellNewest`). The last is the heart: EnsureShell may be overtaken by a Disconnect after
  it snapshotted the client, and it is only the Disconnect waiting for `shellLock` that removes its
  shell.
- `SessionLifecycle_proofs` extends that invariant for the other safety properties.
  - Clients: `ClientsKnown` (every client that is not published is closed, hangs in its Close, or is
    in the hands of the Connect or Disconnect that will close it) gives `NoLeakedClient`; `RelayKnown`
    gives `RelayMatchesConn`; `Watched` gives `WatchedConn`: the stop channels are made in order, each
    goroutine watches its own or a newer one, and one that is to stop has been told so.
  - Commands: `ExecHeld` (whoever is inside Exec or Remove owns `execLock`) and `Releases` (whoever
    owns it is inside) give `ExecLockGivenBack` and `CommandsAreSerialised`, and with `PendingHeld`
    `ShellIsNeverBusy`.
  - Shells: `ShellsKnown` (a live shell is the session's or in EnsureShell's hands, and there is one)
    gives `NothingSurvives`. `Fresh` adds that a shell in EnsureShell's hands is in nobody else's, so
    that the live shell of a command can only be the session's (`CommandRunsOnCurrent`).
  - Locks: `LocksAreOrdered`. A set of goroutines that wait for one another cannot hold
    one that waits for a shell's mutex, since who holds that waits for no lock; hence none that waits
    for `shellLock`, whose owner could only wait for such a mutex, and so on up to `execLock`.
  - `SessionImplementsLifecycle` is the step simulation that follows: each action publishes, claims,
    opens or closes at the abstract level, or is a stutter.
- `PersistentShell_proofs`: `TypeCorrect`; `ShellInvariant` (`Serialised` implies
  `Spec => []ShellInv`); `ShellImplementsService` (`Serialised` implies `Spec => RefinesService`), by
  a step simulation that maps each action to an abstract action or a stutter; `BufferBounded`.
  `ShellInv` adds to `NoOrphan` and `FailureIsFinal` what a call knows while it writes
  (`Writing`), that a done line is seen only of a finished command (`DoneSeen`), and that the
  remote shell has each command once (`Submitted`). Without `Serialised` the refused call breaks
  `Serial`. `FailureIsTheLast` (`Serialised` implies `Spec => NothingAfterFailure`): a call that fails
  was the only one past its entry, and `AfterFailure` says that nobody gets further after it, because
  the shell is closed or, where only the write failed, the remote side is gone. `OutputIsFaithful` (`Serialised` implies `Spec => []OutputFaithful`) adds `FlowInv` and
  `KeptInv`. `Follows` orders any two pieces from left to right; `Flow` says that buffer, read chunk and
  wire together are in that order and hold, of commands, only the flying one's pieces; `Complete` that
  each number it printed is still in them, or a notice stands for it; `Fresh`, `Settled` and `Unread`
  what may be under way before a command is written and while none runs. `Kept` and `Replied`
  carry what the scan found to the answer, past a timeout that wins the race.
- `Registry_proofs`: `TypeCorrect`; `RegistryInvariant` (`Spec => []RegistryInv`) and from it
  `ClientsPersisted`, `NoCommandIsCut` and the action property `CommandsAudited`. `NoTerminalLeaks`, an
  action property too, needs only the types: no step but a close, a restart and the late install takes
  a live terminal out of the reach of those that could end it.
  `SessionsPersisted` is not inductive alone: the row that a Remove deletes at its end must not be
  that of a client registered meanwhile. `Removing` says why it cannot be: until that step the row
  is there, which makes Add fail, and a name has one Remove at most. `Locked` (who is inside
  execLock owns it) gives `NoCommandCut`, and `LocksGivenBack` is its converse.
  `RegistryImplementsDirectory` maps the steps to `ClientDirectory`: Add, the beginning of Remove and
  its deletion of the row move one name, a deletion that the foreign key refuses is a stutter, and
  Restart is one. `SessionsPersisted` shows that the status "lost" never occurs and `Removing` that a
  row which is deleted belongs to a name that is leaving.
  `TerminalsAreOwn` rests on `Numbered`: a terminal just opened has a number that nobody knows, so
  each has one place from then on. `RemoveKeepsToItsOwn` on `Named`: a session object is that of its
  name, and `Removing` keeps that name off the map; nobody else's entry can be that object.
- `LogHandler_proofs`: `LogInvariant` (`Spec => []LogInv`) and from it `TypeCorrect`,
  `QueueLosesNothing` and `DrainsBeforeClose`. `NothingLost` is inductive with the types;
  `DrainedBeforeClose` needs `InOrder`, which says what each step of Shutdown knows of the ones before
  it and of the worker. `RecordsKeepTheirOrder`: `Sequenced` says it of what the channel accepted, with
  the record a logger is about to send, and what was inserted is the front of that by `NothingLost`.
- `Relay_proofs`: `Invariant` (`Spec => []RelayInv`) in three parts: what Connect leaves behind,
  which Close owns the teardown, and how what is under way in each direction follows what arrived.
  From it `TypeCorrect`, `NoProcessLeft`, `CloseWaitsForBridge` (the Close that tears down returns after
  bridgeStdout), `OnlyCloseCrashes` (a relay that nobody closes never brings the process down),
  `StreamsAreWhole` (each side has the first chunks that the other sent, and a bridge that runs has lost
  none: what it holds is the next one), and `RelayImplementsLink`, the refinement of `DuplexLink`.
- `TunnelChain_proofs`: `Invariant`, and from it `TypeCorrect`, `LocksBelongToCalls`, `GraphAcyclic` and
  `NoCircularWait`. A graph has no cycle if every set of names has a member whose jump host is outside
  the set; the lemma `NoNewCycle` shows that a change which the walk accepts keeps that, `CircleHasNoEnd`
  that goroutines waiting in a circle would give a set without such a member: each waits for a lock
  that another owns, and while the chains agree with the graph the names from the one to the other
  are joined by `via`.
  `WalkIsRight` shows that the loop of `wouldCreateCycle` is the definition which the others use. The
  right answer, as a function of the current name and the names seen (`Ends`), is left as it is by one
  round of the loop (`AnswerIsLoop`, `EndsFurther`), so the recursive definition has a solution and is
  one (`LoopRuns`); and there is only one solution (`LoopIsUnique`), because where two differ with the
  fewest names left to see, they differ with fewer. That takes a finite set of names and nothing else:
  the graph may have cycles already.
- `TerminalBridge_proofs`: `Invariant` (`Spec => []BridgeInv`), and from it `TypeCorrect`, `OneWriter`,
  `OutputInOrder` and `NothingLeft`. `WriteLock` says which goroutine holds `writeMu` and that pump and
  ping live between the first statuses and the last Close, which is why that one needs no lock;
  `Taps` that a chunk reaches a handler before and after its tap is in place in no other way than
  through its round. `NothingTwice` drops the premises of `Faithful` (attached, no gap): screen, hand,
  queue and round of a browser together always rise, also past a full queue, a detach and a new shell.
  `NobodyWaitsInACircle`: main joins only after the cancel (`JoinAfterCancel`), and then ping does not
  wait for main.

Only model-checked: liveness, which is out of TLAPS' reach (`ReturnsIfAnswered`, `DisconnectFinishes`,
`RunReturns`, `ShutdownReturns`, `LogReturns`, `CloseReturns`, `LossNoticed`, `ConnectReturns`,
`HandlerReturns`, `KeyTaken`). Of these, the theorems about circles of waiting
goroutines prove the part that is a safety property.

## Not modelled

- The web interface, templates, build files and the entry point: presentation and packaging.
- The decoding of requests in `internal/api/routes.go` and `internal/mcp/server.go`: handlers without
  state of their own; the calls they make are the entry points of `Registry` and `RemoteSession`.
- `normalizeBaseURLPrefix`, the redirects and the safe-rm script: functions on strings, where a model
  would repeat the text character by character.
- The SQL of the paged queries, the columns of the tables that no property reads, SFTP's walk
  through a directory, the wording of messages.
- `Manager.Close`, which ends the process: what it leaves undone is not seen by anything afterwards.
  That it shares the session map with handlers which outlive the shutdown is listed as a hazard.
- Data races on the fields that Update writes and Connect reads (host, user, password): the values are
  data here.

## Plan

What is left, in order of what it would add:

1. `Registry` extended by `Manager.Close` and by a database that fails for other reasons than a
   constraint.
2. `RemoteSession` composed with `TunnelChain`: the chain's Connect with the session's own locks.
3. The paged queries over ties in `created_at`, as an operator against a reference definition.
