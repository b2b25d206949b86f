--------------------------- MODULE RemoteSession ---------------------------
(***************************************************************************)
(* The life of one SSH session: internal/ssh/client.go, RemoteSession.     *)
(*                                                                         *)
(* Goroutines call Exec, Connect, Disconnect, EnsureShell and Transfer on  *)
(* one session while a keepalive goroutine per published client may tear   *)
(* the session down from behind.  The model keeps the four locks of the    *)
(* "Lock model" comment: execLock, connectLock and shellLock are           *)
(* variables; connMu protects single reads and writes only, so each of its *)
(* critical sections is one step.  Acquiring a lock is merged with the     *)
(* first step taken under it.                                              *)
(*                                                                         *)
(* A gossh.Client is a number, in the order the clients are published; 0   *)
(* is nil.  The keepalive channel and goroutine started by the publication *)
(* of client c are both named c.                                           *)
(***************************************************************************)
EXTENDS Naturals

CONSTANTS
  Procs,     \* goroutines that enter the session from a handler or WarmUp
  Entry,     \* the operations they call
  Faults,    \* what may happen to the link of a client
  None,      \* no owner of a lock, no command pending
  MaxConn,   \* bound: clients ever published
  MaxShell   \* bound: shells ever started

ConnIds  == 1..MaxConn
ShellIds == 1..MaxShell
Goroutines == Procs \cup ConnIds

ASSUME SessionAssumption ==
  /\ MaxConn \in Nat /\ MaxShell \in Nat
  /\ Procs \cap (0..MaxConn) = {}
  /\ None \notin Goroutines
  /\ Entry \subseteq {"exec", "connect", "test", "transfer", "disconnect", "remove", "update"}
  /\ Faults \subseteq {"stalled", "hung", "down"}

VARIABLES
  conn,          \* s.conn
  keepaliveDone, \* s.keepaliveDone: the channel, 0 for nil
  closedCh,      \* the keepalive channels that are closed
  relay,         \* s.relay # nil
  connectLock, shellLock, execLock,
  shell,         \* s.shell: the MCP shell, 0 for nil
  shellType,     \* s.shellType: the shell it was detected on, 0 for ""
  homeCache,     \* s.homeCache: the client whose $HOME it holds, 0 for ""
  cwd,           \* s.cwd: the shell whose directory it is, 0 for "~"
  safeRm,        \* s.SafeRm
  dialed,        \* clients published so far
  link,          \* transport of each client
  started,       \* shells allocated so far
  shConn, shFlag, shShim, alive,  \* each shell: client, safeRm, initScript, Alive()
  pending,       \* each shell: the caller whose command runs on it
  pc, op,        \* each goroutine: where it is, the operation it performs
  cl,            \* each goroutine: the client it snapshotted or claimed
  sh,            \* each goroutine: the shell it holds
  scr,           \* each goroutine: the initScript it chose in EnsureShell
  stop           \* each keepalive goroutine: the channel it captured

connVars  == <<conn, keepaliveDone, closedCh, relay, dialed, link>>
shellVars == <<shell, shellType, started, shConn, shFlag, shShim, alive, pending>>
dataVars  == <<homeCache, cwd, safeRm>>
lockVars  == <<connectLock, shellLock, execLock>>
goVars    == <<pc, op, cl, sh, scr, stop>>
vars == <<connVars, shellVars, dataVars, lockVars, goVars>>

Ops == {"none", "exec", "connect", "test", "transfer", "disconnect", "remove", "keepalive"}

\* The link a client runs on.  stalled: TCP is healthy, the peer says nothing.
\* hung: writes block, even the one in Close.
Links == {"none", "up", "stalled", "hung", "down"}

ConnectPCs    == {"c_stop", "c_dial", "c_shake", "c_cwd", "c_keep"}
DisconnectPCs == {"d_close", "d_shlock", "d_shell", "d_relay"}
EnsurePCs     == {"s_check", "s_script", "s_new", "s_open", "s_start"}
RunPCs        == {"r_disp", "r_write", "r_wait", "x_cwd", "x_fail"}
PCs == {"idle", "x_lock", "x_unlock", "c_lock", "d_lock", "s_lock", "h_read",
        "h_snap", "h_fetch", "h_store", "t_conn", "k_new", "k_loop", "k_send", "exited"}
       \cup ConnectPCs \cup DisconnectPCs \cup EnsurePCs \cup RunPCs

Init ==
  /\ conn = 0 /\ keepaliveDone = 0 /\ closedCh = {} /\ relay = FALSE
  /\ connectLock = None /\ shellLock = None /\ execLock = None
  /\ shell = 0 /\ shellType = 0 /\ homeCache = 0 /\ cwd = 0
  /\ safeRm \in BOOLEAN
  /\ dialed = 0 /\ link = [c \in ConnIds |-> "none"]
  /\ started = 0
  /\ shConn = [k \in ShellIds |-> 0]
  /\ shFlag = [k \in ShellIds |-> FALSE]
  /\ shShim = [k \in ShellIds |-> FALSE]
  /\ alive = [k \in ShellIds |-> FALSE]
  /\ pending = [k \in ShellIds |-> None]
  /\ pc = [g \in Goroutines |-> IF g \in Procs THEN "idle" ELSE "exited"]
  /\ op = [g \in Goroutines |-> IF g \in Procs THEN "none" ELSE "keepalive"]
  /\ cl = [g \in Goroutines |-> 0]
  /\ sh = [g \in Goroutines |-> 0]
  /\ scr = [g \in Goroutines |-> FALSE]
  /\ stop = [g \in ConnIds |-> 0]

-----------------------------------------------------------------------------
(* Control flow shared by the operations. *)

\* A caller that returns forgets which operation it performed.
Label(g, label) == pc' = [pc EXCEPT ![g] = label]
Goto(g, label) ==
  /\ Label(g, label)
  /\ op' = IF label = "idle" THEN [op EXCEPT ![g] = "none"] ELSE op

\* Where Connect returns to: nil error, error.
AfterConnect(g) ==
  IF op[g] \in {"exec", "test"} THEN "s_lock"
  ELSE IF op[g] = "transfer" THEN "h_read" ELSE "idle"

\* Mutant: Exec retries a connection that fails.
BugRetriesForever(g) == IF op[g] = "exec" THEN "c_lock" ELSE "idle"
AfterConnectErr(g) == IF op[g] = "exec" THEN "x_unlock" ELSE "idle"

\* Where EnsureShell returns to: Exec disconnects when it fails.
AfterEnsure(g)    == IF op[g] = "exec" THEN "r_disp" ELSE "idle"
AfterEnsureErr(g) == IF op[g] = "exec" THEN "d_lock" ELSE "idle"

\* Where Disconnect returns to; a keepalive goroutine ends after its own.
AfterDisconnect(g) ==
  IF op[g] \in {"exec", "remove"} THEN "x_unlock"
  ELSE IF op[g] = "keepalive" THEN "exited" ELSE "idle"

\* The three mutexes.
ConnectUnlocked == connectLock = None
ShellUnlocked   == shellLock = None
ExecUnlocked    == execLock = None

\* Mutant: Connect tests Connected() before it takes connectLock, not after.
BugNotRechecked == FALSE

\* s.conn # nil, under connMu
Connected == conn # 0

\* A request on client c ends, well or badly: the peer replies or the link is down.
Answers(c) == link[c] \notin {"stalled", "hung"}

\* A shell's own mutex s.mu: dispatch holds it while it writes the payload.
MuFree(k) == \A g \in Procs : ~(pc[g] = "r_write" /\ sh[g] = k)

\* The shell stops being alive, and a pending command is answered.
MarkDead(k) ==
  /\ alive' = [i \in ShellIds |-> alive[i] /\ i # k]
  /\ pending' = [i \in ShellIds |-> IF i = k THEN None ELSE pending[i]]

\* Mutant: a shell is given up without Close.
BugNotClosed(k) == UNCHANGED <<alive, pending>>
\* PersistentShell.Close under s.mu: a no-op on nil; session.Close of a live shell
\* writes to its client.
CloseShell(k) ==
  /\ k # 0 => MuFree(k) /\ (alive[k] => link[shConn[k]] # "hung")
  /\ MarkDead(k)

Begin(g, o) ==
  /\ pc[g] = "idle"
  /\ op' = [op EXCEPT ![g] = o]
  /\ Label(g, IF o \in {"exec", "remove"} THEN "x_lock"
              ELSE IF o = "disconnect" THEN "d_lock" ELSE "c_lock")
  /\ UNCHANGED <<connVars, shellVars, dataVars, lockVars, cl, sh, scr, stop>>

\* Exec takes execLock for the whole call; Remove and Close take it to wait
\* for a command in flight before they disconnect.
ExecLock(g) ==
  /\ pc[g] = "x_lock" /\ ExecUnlocked
  /\ execLock' = g
  /\ Goto(g, IF op[g] = "exec" THEN "c_lock" ELSE "d_lock")
  /\ UNCHANGED <<connVars, shellVars, dataVars, connectLock, shellLock, cl, sh, scr, stop>>

ExecUnlock(g) ==
  /\ pc[g] = "x_unlock"
  /\ execLock' = None
  /\ Goto(g, "idle")
  /\ UNCHANGED <<connVars, shellVars, dataVars, connectLock, shellLock, cl, sh, scr, stop>>

-----------------------------------------------------------------------------
(* Connect and publishConn, under connectLock. *)

ConnectLock(g) ==
  /\ pc[g] = "c_lock" /\ ConnectUnlocked
  /\ \/ /\ Connected
        /\ Goto(g, AfterConnect(g))
        /\ UNCHANGED connectLock
     \/ /\ ~Connected
        /\ connectLock' = g
        /\ Goto(g, "c_stop")
  /\ UNCHANGED <<connVars, shellVars, dataVars, shellLock, execLock, cl, sh, scr, stop>>

\* Mutant: the channel is closed without the test for nil.
BugNilClosed == {keepaliveDone}

\* The channel to close: none before the first connection.
StopSignal == {keepaliveDone} \ {0}

\* stopKeepalive
ConnectStop(g) ==
  /\ pc[g] = "c_stop"
  /\ closedCh' = closedCh \cup StopSignal
  /\ Goto(g, "c_dial")
  /\ UNCHANGED <<conn, keepaliveDone, relay, dialed, link, shellVars, dataVars,
                 lockVars, cl, sh, scr, stop>>

\* Mutant: the relay is left running.
BugRelayKept == UNCHANGED relay

\* relay.Close and s.relay = nil
CloseRelay == relay' = FALSE

ConnectErr(g) ==
  /\ connectLock' = None
  /\ Goto(g, AfterConnectErr(g))

\* The TCP dial, direct, through the jump host, or by a relay process on it.
Dial(g) ==
  /\ pc[g] = "c_dial"
  /\ \/ /\ relay' \in BOOLEAN
        /\ Goto(g, "c_shake")
        /\ UNCHANGED connectLock
     \/ /\ ConnectErr(g)
        /\ UNCHANGED relay
  /\ UNCHANGED <<conn, keepaliveDone, closedCh, dialed, link, shellVars, dataVars,
                 shellLock, execLock, cl, sh, scr, stop>>

\* gossh.NewClientConn, then the publication of the client under connMu.
Handshake(g) ==
  /\ pc[g] = "c_shake"
  /\ \/ /\ dialed < MaxConn
        /\ dialed' = dialed + 1
        /\ conn' = dialed'
        /\ link' = [link EXCEPT ![dialed'] = "up"]
        /\ Goto(g, "c_cwd")
        /\ UNCHANGED <<relay, connectLock>>
     \/ /\ ConnectErr(g)
        /\ CloseRelay
        /\ UNCHANGED <<conn, dialed, link>>
  /\ UNCHANGED <<keepaliveDone, closedCh, shellVars, dataVars, shellLock, execLock,
                 cl, sh, scr, stop>>

\* publishConn: setCwd("~")
ResetCwd(g) ==
  /\ pc[g] = "c_cwd" /\ ShellUnlocked
  /\ cwd' = 0
  /\ Goto(g, "c_keep")
  /\ UNCHANGED <<connVars, shellVars, homeCache, safeRm, lockVars, cl, sh, scr, stop>>

\* Mutant: the channel is made once and kept.
BugChannelReused == IF keepaliveDone = 0 THEN dialed ELSE keepaliveDone

\* make(chan struct{})
FreshChannel == dialed

\* startKeepalive makes the channel, starts the goroutine; Connect returns.
StartKeepalive(g) ==
  /\ pc[g] = "c_keep"
  /\ keepaliveDone' = FreshChannel
  /\ connectLock' = None
  /\ pc' = [pc EXCEPT ![g] = AfterConnect(g), ![dialed] = "k_new"]
  /\ op' = IF AfterConnect(g) = "idle" THEN [op EXCEPT ![g] = "none"] ELSE op
  /\ UNCHANGED <<conn, closedCh, relay, dialed, link, shellVars, dataVars,
                 shellLock, execLock, cl, sh, scr, stop>>

-----------------------------------------------------------------------------
(* Disconnect, under connectLock. *)

\* Step 1: claim the client and close the keepalive channel under connMu.
Claim(g) ==
  /\ pc[g] = "d_lock" /\ ConnectUnlocked
  /\ connectLock' = g
  /\ cl' = [cl EXCEPT ![g] = conn]
  /\ conn' = 0
  /\ closedCh' = closedCh \cup StopSignal
  /\ Goto(g, "d_close")
  /\ UNCHANGED <<keepaliveDone, relay, dialed, link, shellVars, dataVars,
                 shellLock, execLock, sh, scr, stop>>

\* Mutant: the shell is torn down before the client is closed.
BugClosedLate(c) == UNCHANGED link

\* conn.Close
CloseTransport(c) == link' = [i \in ConnIds |-> IF i = c THEN "down" ELSE link[i]]

\* Step 2: close the client; on a hung link the 5 s bound may expire first.
CloseClient(g) ==
  /\ pc[g] = "d_close"
  /\ \/ CloseTransport(cl[g])
     \/ /\ cl[g] # 0 /\ link[cl[g]] = "hung"
        /\ UNCHANGED link
  /\ Goto(g, "d_shlock")
  /\ UNCHANGED <<conn, keepaliveDone, closedCh, relay, dialed, shellVars, dataVars,
                 lockVars, cl, sh, scr, stop>>

\* Step 3: the shell and the caches, under shellLock.
TeardownLock(g) ==
  /\ pc[g] = "d_shlock" /\ ShellUnlocked
  /\ shellLock' = g
  /\ Goto(g, "d_shell")
  /\ UNCHANGED <<connVars, shellVars, dataVars, connectLock, execLock, cl, sh, scr, stop>>

\* Mutant: only a live shell is forgotten.
BugKeepsDeadShell == shell' = IF shell # 0 /\ ~alive[shell] THEN shell ELSE 0

\* s.shell = nil
ForgetShell == shell' = 0

TeardownShell(g) ==
  /\ pc[g] = "d_shell"
  /\ CloseShell(shell)
  /\ ForgetShell /\ shellType' = 0 /\ homeCache' = 0
  /\ shellLock' = None
  /\ Goto(g, "d_relay")
  /\ UNCHANGED <<connVars, started, shConn, shFlag, shShim, cwd, safeRm,
                 connectLock, execLock, cl, sh, scr, stop>>

\* The relay is closed and Disconnect returns.
TeardownRelay(g) ==
  /\ pc[g] = "d_relay"
  /\ CloseRelay
  /\ connectLock' = None
  /\ cl' = [cl EXCEPT ![g] = 0]
  /\ sh' = [sh EXCEPT ![g] = 0]
  /\ Goto(g, AfterDisconnect(g))
  /\ UNCHANGED <<conn, keepaliveDone, closedCh, dialed, link, shellVars, dataVars,
                 shellLock, execLock, scr, stop>>

-----------------------------------------------------------------------------
(* EnsureShell, under shellLock. *)

EnsureLock(g) ==
  /\ pc[g] = "s_lock" /\ ShellUnlocked
  /\ \/ /\ conn = 0
        /\ Goto(g, AfterEnsureErr(g))
        /\ UNCHANGED <<shellLock, cl>>
     \/ /\ conn # 0
        /\ shellLock' = g
        /\ cl' = [cl EXCEPT ![g] = conn]
        /\ Goto(g, "s_check")
  /\ UNCHANGED <<connVars, shellVars, dataVars, connectLock, execLock, sh, scr, stop>>

Reusable(k) == k # 0 /\ alive[k] /\ shFlag[k] = safeRm

\* Reuse the live shell, or close the stale one and start another.
EnsureCheck(g) ==
  /\ pc[g] = "s_check"
  /\ \/ /\ shell # 0 /\ MuFree(shell) /\ Reusable(shell)
        /\ sh' = [sh EXCEPT ![g] = IF op[g] = "exec" THEN shell ELSE 0]
        /\ cl' = [cl EXCEPT ![g] = 0]
        /\ shellLock' = None
        /\ Goto(g, AfterEnsure(g))
        /\ UNCHANGED <<shell, alive, pending>>
     \/ /\ ~Reusable(shell)
        /\ CloseShell(shell)
        /\ shell' = 0
        /\ Goto(g, "s_script")
        /\ UNCHANGED <<sh, cl, shellLock>>
  /\ UNCHANGED <<connVars, shellType, started, shConn, shFlag, shShim, dataVars,
                 connectLock, execLock, scr, stop>>

\* s.SafeRm is read to choose the init script ...
EnsureScript(g) ==
  /\ pc[g] = "s_script"
  /\ scr' = [scr EXCEPT ![g] = safeRm]
  /\ Goto(g, "s_new")
  /\ UNCHANGED <<connVars, shellVars, dataVars, lockVars, cl, sh, stop>>

EnsureErr(g) ==
  /\ sh' = [sh EXCEPT ![g] = 0]
  /\ cl' = [cl EXCEPT ![g] = 0]
  /\ shellLock' = None
  /\ Goto(g, AfterEnsureErr(g))

\* ... and read again for the flag the shell remembers.
NewShell(g) ==
  /\ pc[g] = "s_new"
  /\ \/ /\ started < MaxShell
        /\ started' = started + 1
        /\ shConn' = [shConn EXCEPT ![started'] = cl[g]]
        /\ shFlag' = [shFlag EXCEPT ![started'] = safeRm]
        /\ shShim' = [shShim EXCEPT ![started'] = scr[g]]
        /\ sh' = [sh EXCEPT ![g] = started']
        /\ Goto(g, "s_open")
        /\ UNCHANGED <<cl, shellLock>>
     \/ /\ started = MaxShell
        /\ EnsureErr(g)
        /\ UNCHANGED <<started, shConn, shFlag, shShim>>
  /\ UNCHANGED <<connVars, shell, shellType, alive, pending, dataVars,
                 connectLock, execLock, scr, stop>>

\* PersistentShell.Start opens a session on the snapshotted client: no request
\* in it has a timeout.
OpenShell(g) ==
  /\ pc[g] = "s_open" /\ Answers(cl[g])
  /\ \/ /\ link[cl[g]] = "up"
        /\ alive' = [alive EXCEPT ![sh[g]] = TRUE]
        /\ Goto(g, "s_start")
        /\ UNCHANGED <<sh, cl, shellLock>>
     \/ /\ EnsureErr(g)
        /\ UNCHANGED alive
  /\ UNCHANGED <<connVars, shell, shellType, started, shConn, shFlag, shShim, pending,
                 dataVars, connectLock, execLock, scr, stop>>

\* Then Start verifies the framing and detects the shell type; a detection that
\* times out closes the shell, and Start succeeds all the same.
StartShell(g) ==
  /\ pc[g] = "s_start" /\ link[cl[g]] # "hung"
  /\ \/ /\ alive[sh[g]] /\ link[cl[g]] = "up"
        /\ shell' = sh[g]
        /\ \/ shellType' = sh[g] /\ UNCHANGED <<alive, pending>>
           \/ shellType' = 0 /\ CloseShell(sh[g])
        /\ cwd' = 0
        /\ sh' = [sh EXCEPT ![g] = IF op[g] = "exec" THEN @ ELSE 0]
        /\ cl' = [cl EXCEPT ![g] = 0]
        /\ shellLock' = None
        /\ Goto(g, AfterEnsure(g))
     \/ /\ CloseShell(sh[g])
        /\ EnsureErr(g)
        /\ UNCHANGED <<shell, shellType, cwd>>
  /\ UNCHANGED <<connVars, started, shConn, shFlag, shShim, homeCache,
                 safeRm, connectLock, execLock, scr, stop>>

-----------------------------------------------------------------------------
(* Exec: PersistentShell.Run on the shell it got, then the bookkeeping. *)

Dispatch(g) ==
  /\ pc[g] = "r_disp" /\ MuFree(sh[g])
  /\ IF alive[sh[g]] /\ pending[sh[g]] = None
     THEN /\ pending' = [pending EXCEPT ![sh[g]] = g]
          /\ Goto(g, "r_write")
     ELSE /\ Goto(g, "x_fail")
          /\ UNCHANGED pending
  /\ UNCHANGED <<connVars, shell, shellType, started, shConn, shFlag, shShim, alive,
                 dataVars, lockVars, cl, sh, scr, stop>>

\* stdin.Write with the shell's mutex held.
Write(g) ==
  /\ pc[g] = "r_write" /\ link[shConn[sh[g]]] # "hung"
  /\ IF link[shConn[sh[g]]] = "down"
     THEN /\ pending' = [pending EXCEPT ![sh[g]] = None]
          /\ Goto(g, "x_fail")
     ELSE /\ Goto(g, "r_wait")
          /\ UNCHANGED pending
  /\ UNCHANGED <<connVars, shell, shellType, started, shConn, shFlag, shShim, alive,
                 dataVars, lockVars, cl, sh, scr, stop>>

Result(g) ==
  /\ pc[g] = "r_wait" /\ alive[sh[g]] /\ link[shConn[sh[g]]] = "up"
  /\ pending' = [pending EXCEPT ![sh[g]] = None]
  /\ Goto(g, "x_cwd")
  /\ UNCHANGED <<connVars, shell, shellType, started, shConn, shFlag, shShim, alive,
                 dataVars, lockVars, cl, sh, scr, stop>>

\* The shell was closed under the command, or the timeout fires and closes it.
RunErr(g) ==
  /\ pc[g] = "r_wait"
  /\ CloseShell(sh[g])
  /\ Goto(g, "x_fail")
  /\ UNCHANGED <<connVars, shell, shellType, started, shConn, shFlag, shShim,
                 dataVars, lockVars, cl, sh, scr, stop>>

\* setCwd(result.Cwd) and the audit callback.
ExecOk(g) ==
  /\ pc[g] = "x_cwd" /\ ShellUnlocked
  /\ cwd' = sh[g]
  /\ sh' = [sh EXCEPT ![g] = 0]
  /\ Goto(g, "x_unlock")
  /\ UNCHANGED <<connVars, shellVars, homeCache, safeRm, lockVars, cl, scr, stop>>

\* getCwd and the audit callback; then Exec disconnects.
ExecErr(g) ==
  /\ pc[g] = "x_fail" /\ ShellUnlocked
  /\ Goto(g, "d_lock")
  /\ UNCHANGED <<connVars, shellVars, dataVars, lockVars, cl, sh, scr, stop>>

-----------------------------------------------------------------------------
(* Transfer, up to the SFTP copy, which touches no field of the session. *)

\* expandRemotePath and the cache lookup of home.
HomeRead(g) ==
  /\ pc[g] = "h_read"
  /\ \/ Goto(g, "t_conn")
     \/ /\ ShellUnlocked
        /\ Goto(g, IF homeCache # 0 THEN "t_conn" ELSE "h_snap")
  /\ UNCHANGED <<connVars, shellVars, dataVars, lockVars, cl, sh, scr, stop>>

\* home runs echo $HOME on the client it snapshots, with no bound on the wait.
HomeSnapshot(g) ==
  /\ pc[g] = "h_snap"
  /\ cl' = [cl EXCEPT ![g] = conn]
  /\ Goto(g, IF conn = 0 THEN "t_conn" ELSE "h_fetch")
  /\ UNCHANGED <<connVars, shellVars, dataVars, lockVars, sh, scr, stop>>

HomeFetch(g) ==
  /\ pc[g] = "h_fetch" /\ Answers(cl[g])
  /\ \/ /\ link[cl[g]] = "up"
        /\ Goto(g, "h_store")
        /\ UNCHANGED cl
     \/ /\ Goto(g, "t_conn")
        /\ cl' = [cl EXCEPT ![g] = 0]
  /\ UNCHANGED <<connVars, shellVars, dataVars, lockVars, sh, scr, stop>>

HomeStore(g) ==
  /\ pc[g] = "h_store" /\ ShellUnlocked
  /\ homeCache' = cl[g]
  /\ cl' = [cl EXCEPT ![g] = 0]
  /\ Goto(g, "t_conn")
  /\ UNCHANGED <<connVars, shellVars, cwd, safeRm, lockVars, sh, scr, stop>>

\* Snapshot the client: copy on it, or report "disconnected before transfer".
Copy(g) ==
  /\ pc[g] = "t_conn"
  /\ Goto(g, "idle")
  /\ UNCHANGED <<connVars, shellVars, dataVars, lockVars, cl, sh, scr, stop>>

-----------------------------------------------------------------------------
(* keepaliveLoop, one goroutine per published client. *)

\* The goroutine captures the channel when it is first scheduled.
KeepaliveCapture(g) ==
  /\ pc[g] = "k_new"
  /\ stop' = [stop EXCEPT ![g] = keepaliveDone]
  /\ Goto(g, "k_loop")
  /\ UNCHANGED <<connVars, shellVars, dataVars, lockVars, cl, sh, scr>>

KeepaliveStop(g) ==
  /\ pc[g] \in {"k_loop", "k_send"} /\ stop[g] \in closedCh
  /\ cl' = [cl EXCEPT ![g] = 0]
  /\ Goto(g, "exited")
  /\ UNCHANGED <<connVars, shellVars, dataVars, lockVars, sh, scr, stop>>

KeepaliveTick(g) ==
  /\ pc[g] = "k_loop"
  /\ cl' = [cl EXCEPT ![g] = conn]
  /\ Goto(g, IF conn = 0 THEN "exited" ELSE "k_send")
  /\ UNCHANGED <<connVars, shellVars, dataVars, lockVars, sh, scr, stop>>

\* wantReply is false: a silent peer does not make the request fail.
KeepaliveSent(g) ==
  /\ pc[g] = "k_send" /\ link[cl[g]] # "down"
  /\ cl' = [cl EXCEPT ![g] = 0]
  /\ Goto(g, "k_loop")
  /\ UNCHANGED <<connVars, shellVars, dataVars, lockVars, sh, scr, stop>>

\* The request failed or timed out: re-check the stop signal, then Disconnect.
KeepaliveLost(g) ==
  /\ pc[g] = "k_send" /\ link[cl[g]] \in {"hung", "down"}
  /\ stop[g] \notin closedCh
  /\ Goto(g, "d_lock")
  /\ UNCHANGED <<connVars, shellVars, dataVars, lockVars, cl, sh, scr, stop>>

-----------------------------------------------------------------------------
(* What happens around the session. *)

\* manager.Update writes s.SafeRm without any lock of the session.
ToggleSafeRm ==
  /\ "update" \in Entry
  /\ safeRm' = ~safeRm
  /\ UNCHANGED <<connVars, shellVars, homeCache, cwd, lockVars, goVars>>

Degrade(c, from, to) ==
  /\ to \in Faults /\ link[c] \in from
  /\ link' = [link EXCEPT ![c] = to]
  /\ UNCHANGED <<conn, keepaliveDone, closedCh, relay, dialed, shellVars, dataVars,
                 lockVars, goVars>>

Stall(c) == Degrade(c, {"up"}, "stalled")
Hang(c)  == Degrade(c, {"up"}, "hung")
Drop(c)  == Degrade(c, {"up", "stalled", "hung"}, "down")

\* readerLoop ends: the remote shell exited or its client went down.
ShellDies(k) ==
  /\ alive[k] /\ MuFree(k)
  /\ MarkDead(k)
  /\ UNCHANGED <<connVars, shell, shellType, started, shConn, shFlag, shShim,
                 dataVars, lockVars, goVars>>

-----------------------------------------------------------------------------

Connect(g)     == ConnectLock(g) \/ ConnectStop(g) \/ Dial(g) \/ Handshake(g)
                  \/ ResetCwd(g) \/ StartKeepalive(g)
Disconnect(g)  == Claim(g) \/ CloseClient(g) \/ TeardownLock(g) \/ TeardownShell(g)
                  \/ TeardownRelay(g)
EnsureShell(g) == EnsureLock(g) \/ EnsureCheck(g) \/ EnsureScript(g) \/ NewShell(g)
                  \/ OpenShell(g) \/ StartShell(g)
Exec(g)        == ExecLock(g) \/ ExecUnlock(g) \/ Dispatch(g) \/ Write(g) \/ Result(g)
                  \/ RunErr(g) \/ ExecOk(g) \/ ExecErr(g)
Transfer(g)    == HomeRead(g) \/ HomeSnapshot(g) \/ HomeFetch(g) \/ HomeStore(g) \/ Copy(g)
KeepaliveLoop(g) == KeepaliveCapture(g) \/ KeepaliveStop(g) \/ KeepaliveTick(g)
                    \/ KeepaliveSent(g) \/ KeepaliveLost(g)

CallerStep(g) == Connect(g) \/ Disconnect(g) \/ EnsureShell(g) \/ Exec(g) \/ Transfer(g)
KeeperStep(g) == KeepaliveLoop(g) \/ Disconnect(g)
Environment == \/ ToggleSafeRm
               \/ \E c \in ConnIds : Stall(c) \/ Hang(c) \/ Drop(c)
               \/ \E k \in ShellIds : ShellDies(k)

Next ==
  \/ \E g \in Procs : CallerStep(g) \/ \E o \in Entry \ {"update"} : Begin(g, o)
  \/ \E g \in ConnIds : KeeperStep(g)
  \/ Environment

Spec == Init /\ [][Next]_vars

\* A goroutine that can step does so: Go schedules it, sync.Mutex hands a lock
\* to whoever waits longest, a ready stop channel is taken, and the kernel gives
\* up on a link whose writes hang.  The SSH handshake has no deadline, and a peer
\* may stay silent forever.
FairSpec ==
  /\ Spec
  /\ \A g \in Procs : SF_vars(CallerStep(g) /\ pc[g] # "c_shake")
  /\ \A c \in ConnIds : SF_vars(KeeperStep(c)) /\ WF_vars(KeepaliveStop(c))
  /\ \A c \in ConnIds : WF_vars(link[c] = "hung" /\ Drop(c))

-----------------------------------------------------------------------------
(* Properties. *)

CallerPCs == PCs \ {"k_new", "k_loop", "k_send", "exited"}
KeeperPCs == {"k_new", "k_loop", "k_send", "exited", "d_lock"} \cup DisconnectPCs

ConnTypeOK ==
  /\ conn \in 0..MaxConn /\ keepaliveDone \in 0..MaxConn /\ dialed \in 0..MaxConn
  /\ closedCh \subseteq ConnIds /\ relay \in BOOLEAN /\ link \in [ConnIds -> Links]
ShellTypeOK ==
  /\ shell \in 0..MaxShell /\ shellType \in 0..MaxShell /\ started \in 0..MaxShell
  /\ shConn \in [ShellIds -> 0..MaxConn] /\ alive \in [ShellIds -> BOOLEAN]
  /\ shFlag \in [ShellIds -> BOOLEAN] /\ shShim \in [ShellIds -> BOOLEAN]
  /\ pending \in [ShellIds -> Procs \cup {None}]
DataTypeOK == homeCache \in 0..MaxConn /\ cwd \in 0..MaxShell /\ safeRm \in BOOLEAN
LockTypeOK ==
  /\ connectLock \in Goroutines \cup {None} /\ shellLock \in Goroutines \cup {None}
  /\ execLock \in Procs \cup {None}
PCTypeOK ==
  /\ pc \in [Goroutines -> PCs] /\ op \in [Goroutines -> Ops]
  /\ \A g \in Procs : pc[g] \in CallerPCs /\ op[g] # "keepalive"
  /\ \A c \in ConnIds : pc[c] \in KeeperPCs /\ op[c] = "keepalive"
LocalTypeOK ==
  /\ cl \in [Goroutines -> 0..MaxConn] /\ sh \in [Goroutines -> 0..MaxShell]
  /\ scr \in [Goroutines -> BOOLEAN] /\ stop \in [ConnIds -> 0..MaxConn]

\* Every variable keeps its type; in particular no nil channel is ever closed,
\* and a keepalive goroutine is never anywhere but in keepaliveLoop or in the
\* Disconnect it ends with.
TypeOK == ConnTypeOK /\ ShellTypeOK /\ DataTypeOK /\ LockTypeOK /\ PCTypeOK /\ LocalTypeOK

\* Whenever no Connect or Disconnect is in progress, the shell the session holds
\* runs on the current client: an EnsureShell that snapshots a client just before
\* Disconnect claims it cannot leave its shell behind (client.go, Disconnect step 3
\* waits for shellLock).
NoStaleShell == connectLock = None /\ shell # 0 => shConn[shell] = conn

\* When Disconnect has torn the shell down, no client is published, no shell of
\* the session is alive and none is being started, until Disconnect returns.
TornDown ==
  \A g \in Goroutines : pc[g] = "d_relay" =>
    /\ conn = 0 /\ shell = 0
    /\ \A k \in ShellIds : ~alive[k]

\* Exec never finds its shell busy with another caller's command: execLock
\* makes the error of dispatch unreachable.
NeverBusy ==
  \A g \in Procs, k \in ShellIds : pc[g] = "r_disp" /\ sh[g] = k => pending[k] = None

\* execLock is owned by the Exec or Remove in flight that has taken it, and by
\* nobody else: every way out of them, a failed connect, a dead shell or a
\* timeout included, gives it back.
ExecLockOwned ==
  \A g \in Procs : execLock = g <=> op[g] \in {"exec", "remove"} /\ pc[g] # "x_lock"

\* One command runs at a time on the session, and none while a Remove is past
\* its wait for it and disconnects (Serialised of PersistentShell rests on this).
OneCommand ==
  \A g, h \in Procs :
    /\ pc[g] \in RunPCs
    /\ pc[h] \in RunPCs \/ (op[h] = "remove" /\ pc[h] # "x_lock")
    => g = h

\* The shell a command was given is the session's own, on the newest client, or
\* it is dead: no command is written to a live shell that Disconnect or a second
\* EnsureShell has given up.
CommandOnCurrent ==
  \A g \in Procs, k \in ShellIds :
    pc[g] \in RunPCs /\ sh[g] = k /\ alive[k] => k = shell /\ shConn[k] = dialed

\* g cannot go on before h: it wants a lock that h holds, or the mutex of a
\* shell that h writes a command to.
WaitsFor(g, h) ==
  \/ pc[g] = "x_lock" /\ execLock = h
  \/ pc[g] \in {"c_lock", "d_lock"} /\ connectLock = h
  \/ pc[g] \in {"c_cwd", "d_shlock", "s_lock", "x_cwd", "x_fail", "h_read", "h_store"} /\ shellLock = h
  \/ pc[h] = "r_write" /\ pc[g] \in {"s_check", "d_shell"} /\ shell = sh[h]
  \/ pc[h] = "r_write" /\ pc[g] \in {"s_start", "r_disp", "r_wait"} /\ sh[g] = sh[h]

\* The lock order of the "Lock model" comment is kept: no set of goroutines,
\* keepalives and callers together, waits for one another in a circle.
NoCircularWait ==
  \A D \in SUBSET Goroutines : D # {} => \E g \in D : \A h \in D : ~WaitsFor(g, h)

\* Whenever no Connect or Disconnect is in progress, every client but the current
\* one was closed, or its Close still hangs: no client is overwritten and lost.
NoLeakedClient ==
  connectLock = None =>
    \A c \in ConnIds : c <= dialed /\ c # conn => link[c] \in {"hung", "down"}

\* Whenever no Connect or Disconnect is in progress, the published client is
\* watched: its stop channel is open and its keepalive goroutine is in its loop or
\* about to disconnect.
WatchedConn ==
  connectLock = None /\ conn # 0 =>
    /\ keepaliveDone = conn /\ conn \notin closedCh
    /\ pc[conn] \in {"k_new", "k_loop", "k_send", "d_lock"}

\* Whenever no Connect or Disconnect is in progress, a relay process exists only
\* under a published client: a failed handshake or a Disconnect stops it.
RelayMatchesConn == connectLock = None /\ relay => conn # 0

\* Some Disconnect has claimed the client and not yet torn the shell down.
Closing == \E g \in Goroutines : pc[g] \in {"d_close", "d_shlock", "d_shell"}

\* The abstract session: what a caller may rely on, whatever the goroutines do.
Lifecycle == INSTANCE SessionLifecycle WITH
  phase <- IF conn # 0 THEN "up" ELSE IF Closing THEN "closing" ELSE "down",
  last  <- dialed,
  bound <- IF shell = 0 THEN 0 ELSE shConn[shell]

\* The session with its locks implements the abstract one: connections never
\* overlap, a shell is only ever started on the newest one, and none is left when
\* the session is down.
RefinesLifecycle == Lifecycle!Spec

\* A Disconnect that has claimed the client ends, even when a shell is starting on
\* a silent peer or a write hangs: closing the client first is what unblocks both.
DisconnectFinishes ==
  \A g \in Goroutines : pc[g] \in DisconnectPCs ~> pc[g] \notin DisconnectPCs

\* Peers answer handshakes, and whatever a starting shell asks of them.
PeersAnswer ==
  /\ \A g \in Procs : []<>(pc[g] # "c_shake")
  /\ \A c \in ConnIds : [](link[c] # "stalled")

\* Every operation ends as long as peers answer: with links that hang or drop and
\* goroutines that queue up for the locks, no two ever wait for each other, and
\* Exec does not reconnect for ever.
ReturnsIfAnswered ==
  PeersAnswer => \A g \in Procs : op[g] # "none" ~> op[g] = "none"

\* The Disconnect of a keepalive goroutine claims the client whose keepalive failed,
\* or none: the comment (client.go:200-202) says that the stop signal is re-checked
\* because a reconnect may have replaced this connection.  Before Claim, cl[c] is
\* the client that goroutine c sent its keepalive on.
KeepaliveOwnOnly ==
  [][\A c \in ConnIds :
       pc[c] = "d_lock" /\ pc'[c] = "d_close" => cl'[c] \in {0, cl[c]}]_vars

\* Who holds the locks, by where the goroutines are.
LocksHeld ==
  \A g \in Goroutines :
    /\ pc[g] \in ConnectPCs \cup DisconnectPCs <=> connectLock = g
    /\ pc[g] \in EnsurePCs \cup {"d_shell"} <=> shellLock = g

\* The published client is the newest one; it is there exactly when the holder of
\* connectLock lets it be.
ConnNewest ==
  /\ conn \in {0, dialed}
  /\ \A g \in Goroutines :
       /\ pc[g] \in {"c_stop", "c_dial", "c_shake"} \cup DisconnectPCs => conn = 0
       /\ pc[g] \in {"c_cwd", "c_keep"} => conn # 0

\* A shell exists, or is being started, only on the newest client and only while
\* it is published or being closed.
ShellNewest ==
  /\ shell <= started
  /\ shell # 0 => shConn[shell] = dialed /\ (conn # 0 \/ Closing)
  /\ \A g \in Goroutines :
       /\ sh[g] <= started
       /\ pc[g] \in EnsurePCs =>
            cl[g] = dialed /\ dialed # 0 /\ (conn # 0 \/ Closing)
       /\ pc[g] \in {"s_open", "s_start"} => sh[g] # 0 /\ shConn[sh[g]] = dialed

\* The invariant the proofs need: inductive, and it implies NoStaleShell.
SessionInv == TypeOK /\ LocksHeld /\ ConnNewest /\ ShellNewest
=============================================================================
