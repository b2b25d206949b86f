------------------------------ MODULE Registry ------------------------------
(***************************************************************************)
(* The registry of clients: internal/manager/manager.go with the tables    *)
(* clients and audit_log of internal/database/sqlite.go.                   *)
(*                                                                         *)
(* Request handlers look a client up under the manager's lock and use what *)
(* they found after releasing it: its session, its terminal, its row.  The *)
(* critical sections of m.mu and the statements of the database are single *)
(* steps; execLock is a variable.  What a session does inside is the       *)
(* business of RemoteSession: here it is connected or not.                 *)
(*                                                                         *)
(* A session object is a pair <<name, n>>: the n-th made for that name     *)
(* since the process started.                                              *)
(***************************************************************************)
EXTENDS Naturals

CONSTANTS
  Names,      \* clients' names
  Procs,      \* goroutines of request handlers
  Entry,      \* what they are asked to do
  None,       \* no object, no row, no owner
  MaxSession, \* bound: session objects made for a name
  MaxTerm,    \* bound: terminal shells opened
  MaxRestart  \* bound: restarts of the process

Sessions  == Names \X (1..MaxSession)
Terminals == 1..MaxTerm
Ops == {"exec", "connect", "transfer", "terminal", "disconnect", "remove"}

ASSUME RegistryAssumption ==
  /\ MaxSession \in Nat \ {0} /\ MaxTerm \in Nat /\ MaxRestart \in Nat
  /\ None \notin Sessions /\ None \notin Terminals /\ None \notin Procs
  /\ None \notin BOOLEAN
  /\ Entry \subseteq Ops

VARIABLES
  sessions,  \* m.sessions: the session object of each name, or None
  terminals, \* m.terminals: the terminal of each name, or None
  made,      \* session objects made for each name
  up,        \* the session objects that are connected
  safeRm,    \* the session objects whose SafeRm is set
  execLock,  \* of each session object: its owner or None
  opened,    \* terminals opened so far
  alive,     \* the terminals that are Alive()
  baked,     \* the terminals whose SafeRmFlag() is set
  rows,      \* table clients: safe_rm of each name, or None for no row
  audit,     \* table audit_log: the names that have rows in it
  restarts,  \* restarts so far
  pc,        \* each goroutine: where it is
  nm,        \* its client's name
  se,        \* the session object it looked up, or None
  tm         \* the terminal it took or opened, or None

mapVars  == <<sessions, terminals>>
sessVars == <<made, up, safeRm, execLock>>
termVars == <<opened, alive, baked>>
dbVars   == <<rows, audit>>
procVars == <<pc, nm, se, tm>>
vars == <<mapVars, sessVars, termVars, dbVars, restarts, procVars>>

PCs == {"idle", "x_lock", "x_conn", "x_run", "x_fail", "x_ok", "c_conn", "t_conn", "t_audit",
        "m_close", "m_open", "m_install", "d_term", "d_conn",
        "rm_term", "rm_lock", "rm_disc", "rm_audit", "rm_row"}
RemovePCs == {"rm_term", "rm_lock", "rm_disc", "rm_audit", "rm_row"}
LockedPCs == {"x_conn", "x_run", "x_fail", "x_ok", "rm_disc"}

Registered(n) == sessions[n] # None
HasRow(n)     == rows[n] # None
Goto(g, l)    == pc' = [pc EXCEPT ![g] = l]

Init ==
  /\ sessions = [n \in Names |-> None] /\ terminals = [n \in Names |-> None]
  /\ made = [n \in Names |-> 0] /\ up = {} /\ safeRm = {}
  /\ execLock = [s \in Sessions |-> None]
  /\ opened = 0 /\ alive = {} /\ baked = {}
  /\ rows = [n \in Names |-> None] /\ audit = {} /\ restarts = 0
  /\ pc = [g \in Procs |-> "idle"] /\ nm \in [Procs -> Names]
  /\ se = [g \in Procs |-> None] /\ tm = [g \in Procs |-> None]

\* Mutant: a handler keeps what it looked up for the next request.
BugKeepsSession(g) == Goto(g, "idle") /\ UNCHANGED <<nm, se, tm>>

\* The handler returns.
Return(g) ==
  /\ Goto(g, "idle")
  /\ se' = [se EXCEPT ![g] = None] /\ tm' = [tm EXCEPT ![g] = None]
  /\ UNCHANGED nm

\* A lookup by name under the manager's lock; the handler goes on with what it found.
Take(g, n, s, t, l) ==
  /\ pc[g] = "idle"
  /\ Goto(g, l)
  /\ nm' = [nm EXCEPT ![g] = n]
  /\ se' = [se EXCEPT ![g] = s] /\ tm' = [tm EXCEPT ![g] = t]

-----------------------------------------------------------------------------
(* The database. *)

\* Mutant: an existing row is replaced.
BugUpsert(n) == TRUE

\* INSERT INTO clients: the name is the primary key.
CanInsert(n) == ~HasRow(n)

\* INSERT INTO audit_log: client_name must be in clients; the error is only logged.
InsertAudit(n) == audit' = IF HasRow(n) THEN audit \cup {n} ELSE audit

\* DELETE FROM clients: refused while audit_log refers to the name.
DeleteClient(n) ==
  rows' = IF n \in audit THEN rows ELSE [rows EXCEPT ![n] = None]

\* UPDATE clients: no row, no change.
UpdateClient(n, flag) == IF HasRow(n) THEN [rows EXCEPT ![n] = flag] ELSE rows

-----------------------------------------------------------------------------
(* Add and Update: under the manager's lock from beginning to end. *)

Add(n, flag) ==
  /\ ~Registered(n) /\ CanInsert(n) /\ made[n] < MaxSession
  /\ rows' = [rows EXCEPT ![n] = flag]
  /\ LET s == <<n, made[n] + 1>> IN
       /\ sessions' = [sessions EXCEPT ![n] = s]
       /\ safeRm' = IF flag THEN safeRm \cup {s} ELSE safeRm \ {s}
  /\ made' = [made EXCEPT ![n] = @ + 1]
  /\ UNCHANGED <<terminals, up, execLock, termVars, audit, restarts, procVars>>

\* The session is changed first; an update that also asks for a cyclic via is then
\* refused, and its row stays as it was.
Update(n, flag) ==
  /\ Registered(n)
  /\ safeRm' = IF flag THEN safeRm \cup {sessions[n]} ELSE safeRm \ {sessions[n]}
  /\ rows' \in {rows, UpdateClient(n, flag)}
  /\ UNCHANGED <<mapVars, made, up, execLock, termVars, audit, restarts, procVars>>

-----------------------------------------------------------------------------
(* Exec, reached from the MCP tool remote_shell through Get. *)

ExecGet(g, n) ==
  /\ Registered(n)
  /\ Take(g, n, sessions[n], None, "x_lock")
  /\ UNCHANGED <<mapVars, sessVars, termVars, dbVars, restarts>>

\* Mutant: Remove does not wait for the commands in flight.
BugNoExecLock(s) == TRUE

\* execLock is free.
ExecFree(s) == execLock[s] = None

ExecLock(g) ==
  /\ pc[g] = "x_lock" /\ execLock[se[g]] = None
  /\ execLock' = [execLock EXCEPT ![se[g]] = g]
  /\ Goto(g, "x_conn")
  /\ UNCHANGED <<mapVars, made, up, safeRm, termVars, dbVars, restarts, nm, se, tm>>

\* Connect and EnsureShell succeed, or Exec gives up.
ExecConnect(g) ==
  /\ pc[g] = "x_conn"
  /\ \/ up' = up \cup {se[g]} /\ Goto(g, "x_run")
     \/ UNCHANGED up /\ Goto(g, "x_ok")
     \/ up' = up \ {se[g]} /\ Goto(g, "x_ok")
  /\ UNCHANGED <<mapVars, made, safeRm, execLock, termVars, dbVars, restarts, nm, se, tm>>

\* Run ends, with or without an error, and the audit callback is called.
ExecAudit(g) ==
  /\ pc[g] = "x_run"
  /\ InsertAudit(nm[g])
  /\ \/ se[g] \in up /\ Goto(g, "x_ok")
     \/ Goto(g, "x_fail")
  /\ UNCHANGED <<mapVars, sessVars, termVars, rows, restarts, nm, se, tm>>

\* After an error Exec disconnects; then it returns and releases the lock.
ExecEnd(g) ==
  /\ pc[g] \in {"x_ok", "x_fail"}
  /\ up' = IF pc[g] = "x_fail" THEN up \ {se[g]} ELSE up
  /\ execLock' = [execLock EXCEPT ![se[g]] = None]
  /\ Return(g)
  /\ UNCHANGED <<mapVars, made, safeRm, termVars, dbVars, restarts>>

-----------------------------------------------------------------------------
(* Connect, from the handlers that add, connect and test a client, and Transfer, *)
(* from the MCP tool data_transfer: neither takes execLock. *)

ConnectGet(g, n) ==
  /\ Registered(n)
  /\ Take(g, n, sessions[n], None, "c_conn")
  /\ UNCHANGED <<mapVars, sessVars, termVars, dbVars, restarts>>

Connect(g) ==
  /\ pc[g] = "c_conn"
  /\ up' \in {up, up \cup {se[g]}}
  /\ Return(g)
  /\ UNCHANGED <<mapVars, made, safeRm, execLock, termVars, dbVars, restarts>>

TransferGet(g, n) ==
  /\ Registered(n)
  /\ Take(g, n, sessions[n], None, "t_conn")
  /\ UNCHANGED <<mapVars, sessVars, termVars, dbVars, restarts>>

Transfer(g) ==
  /\ pc[g] = "t_conn"
  /\ up' \in {up, up \cup {se[g]}}
  /\ Goto(g, "t_audit")
  /\ UNCHANGED <<mapVars, made, safeRm, execLock, termVars, dbVars, restarts, nm, se, tm>>

LogAudit(g) ==
  /\ pc[g] = "t_audit"
  /\ InsertAudit(nm[g])
  /\ Return(g)
  /\ UNCHANGED <<mapVars, sessVars, termVars, rows, restarts>>

-----------------------------------------------------------------------------
(* GetOrCreateTerminal. *)

\* The terminal that is there will do.
Usable(n) ==
  LET s == sessions[n]  t == terminals[n] IN
  t \in alive /\ s \in up /\ (t \in baked <=> s \in safeRm)

\* The slow path; the fast one changes nothing.
TermGet(g, n) ==
  /\ Registered(n) /\ ~Usable(n)
  /\ Take(g, n, sessions[n], terminals[n], IF terminals[n] = None THEN "m_open" ELSE "m_close")
  /\ UNCHANGED <<mapVars, sessVars, termVars, dbVars, restarts>>

TermClose(g) ==
  /\ pc[g] = "m_close"
  /\ alive' = alive \ {tm[g]}
  /\ tm' = [tm EXCEPT ![g] = None]
  /\ Goto(g, "m_open")
  /\ UNCHANGED <<mapVars, sessVars, opened, baked, dbVars, restarts, nm, se>>

\* OpenTerminalShell: connects if need be, then starts a shell.
TermOpen(g) ==
  /\ pc[g] = "m_open"
  /\ \/ /\ opened < MaxTerm
        /\ opened' = opened + 1
        /\ alive' = alive \cup {opened + 1}
        /\ baked' = IF se[g] \in safeRm THEN baked \cup {opened + 1} ELSE baked
        /\ up' = up \cup {se[g]}
        /\ tm' = [tm EXCEPT ![g] = opened + 1]
        /\ Goto(g, "m_install")
        /\ UNCHANGED <<nm, se>>
     \/ /\ up' \in {up, up \cup {se[g]}}
        /\ Return(g)
        /\ UNCHANGED termVars
  /\ UNCHANGED <<mapVars, made, safeRm, execLock, dbVars, restarts>>

\* Mutant: the other goroutine's terminal is not looked for.
BugOverwritten(n) == FALSE

\* Another goroutine was faster: its terminal is used.
Beaten(n) == terminals[n] \in alive

TermInstall(g) ==
  /\ pc[g] = "m_install"
  /\ IF Beaten(nm[g])
       THEN alive' = alive \ {tm[g]} /\ UNCHANGED terminals
       ELSE terminals' = [terminals EXCEPT ![nm[g]] = tm[g]] /\ UNCHANGED alive
  /\ Return(g)
  /\ UNCHANGED <<sessions, sessVars, opened, baked, dbVars, restarts>>

-----------------------------------------------------------------------------
(* disconnectClient: the terminal of the name, then the session it looked up. *)

DisconnectGet(g, n) ==
  /\ Registered(n)
  /\ Take(g, n, sessions[n], None, "d_term")
  /\ UNCHANGED <<mapVars, sessVars, termVars, dbVars, restarts>>

CloseTerminal(g) ==
  /\ pc[g] = "d_term"
  /\ alive' = alive \ {terminals[nm[g]]}
  /\ terminals' = [terminals EXCEPT ![nm[g]] = None]
  /\ Goto(g, "d_conn")
  /\ UNCHANGED <<sessions, sessVars, opened, baked, dbVars, restarts, nm, se, tm>>

Disconnect(g) ==
  /\ pc[g] = "d_conn"
  /\ up' = up \ {se[g]}
  /\ Return(g)
  /\ UNCHANGED <<mapVars, made, safeRm, execLock, termVars, dbVars, restarts>>

-----------------------------------------------------------------------------
(* Remove. *)

RemoveBegin(g, n) ==
  /\ Registered(n)
  /\ Take(g, n, sessions[n], terminals[n], IF terminals[n] = None THEN "rm_lock" ELSE "rm_term")
  /\ sessions' = [sessions EXCEPT ![n] = None]
  /\ terminals' = [terminals EXCEPT ![n] = None]
  /\ UNCHANGED <<sessVars, termVars, dbVars, restarts>>

RemoveTerm(g) ==
  /\ pc[g] = "rm_term"
  /\ alive' = alive \ {tm[g]}
  /\ Goto(g, "rm_lock")
  /\ UNCHANGED <<mapVars, sessVars, opened, baked, dbVars, restarts, nm, se, tm>>

RemoveLock(g) ==
  /\ pc[g] = "rm_lock" /\ ExecFree(se[g])
  /\ execLock' = [execLock EXCEPT ![se[g]] = g]
  /\ Goto(g, "rm_disc")
  /\ UNCHANGED <<mapVars, made, up, safeRm, termVars, dbVars, restarts, nm, se, tm>>

RemoveDisconnect(g) ==
  /\ pc[g] = "rm_disc"
  /\ up' = up \ {se[g]}
  /\ execLock' = [execLock EXCEPT ![se[g]] = None]
  /\ Goto(g, "rm_audit")
  /\ UNCHANGED <<mapVars, made, safeRm, termVars, dbVars, restarts, nm, se, tm>>

RemoveAudit(g) ==
  /\ pc[g] = "rm_audit"
  /\ audit' = audit \ {nm[g]}
  /\ Goto(g, "rm_row")
  /\ UNCHANGED <<mapVars, sessVars, termVars, rows, restarts, nm, se, tm>>

RemoveRow(g) ==
  /\ pc[g] = "rm_row"
  /\ DeleteClient(nm[g])
  /\ Return(g)
  /\ UNCHANGED <<mapVars, sessVars, termVars, audit, restarts>>

-----------------------------------------------------------------------------

\* AuditDelete: the last audit rows of a client go.
AuditDelete(n) ==
  /\ n \in audit /\ audit' = audit \ {n}
  /\ UNCHANGED <<mapVars, sessVars, termVars, rows, restarts, procVars>>

\* A connection is lost; a terminal's shell ends.
Drop(s) ==
  /\ s \in up /\ up' = up \ {s}
  /\ UNCHANGED <<mapVars, made, safeRm, execLock, termVars, dbVars, restarts, procVars>>

TermDies(t) ==
  /\ t \in alive /\ alive' = alive \ {t}
  /\ UNCHANGED <<mapVars, sessVars, opened, baked, dbVars, restarts, procVars>>

\* The process dies anywhere and Load makes a session for each row.
Restart ==
  /\ restarts < MaxRestart
  /\ restarts' = restarts + 1
  /\ sessions' = [n \in Names |-> IF HasRow(n) THEN <<n, 1>> ELSE None]
  /\ made' = [n \in Names |-> IF HasRow(n) THEN 1 ELSE 0]
  /\ safeRm' = {<<n, 1>> : n \in {m \in Names : rows[m] = TRUE}}
  /\ up' = {} /\ execLock' = [s \in Sessions |-> None]
  /\ terminals' = [n \in Names |-> None] /\ opened' = 0 /\ alive' = {} /\ baked' = {}
  /\ pc' = [g \in Procs |-> "idle"] /\ nm' = nm
  /\ se' = [g \in Procs |-> None] /\ tm' = [g \in Procs |-> None]
  /\ UNCHANGED dbVars

-----------------------------------------------------------------------------

Begin(g, n, o) ==
  \/ o = "exec" /\ ExecGet(g, n)
  \/ o = "connect" /\ ConnectGet(g, n)
  \/ o = "transfer" /\ TransferGet(g, n)
  \/ o = "terminal" /\ TermGet(g, n)
  \/ o = "disconnect" /\ DisconnectGet(g, n)
  \/ o = "remove" /\ RemoveBegin(g, n)

Exec(g)     == ExecLock(g) \/ ExecConnect(g) \/ ExecAudit(g) \/ ExecEnd(g)
Unlocked(g) == Connect(g) \/ Disconnect(g) \/ Transfer(g) \/ LogAudit(g)
Terminal(g) == TermClose(g) \/ TermOpen(g) \/ TermInstall(g) \/ CloseTerminal(g)
Remove(g)   == \/ RemoveTerm(g) \/ RemoveLock(g) \/ RemoveDisconnect(g)
               \/ RemoveAudit(g) \/ RemoveRow(g)

Next ==
  \/ \E n \in Names, flag \in BOOLEAN : Add(n, flag) \/ Update(n, flag)
  \/ \E g \in Procs, n \in Names, o \in Entry : Begin(g, n, o)
  \/ \E g \in Procs : Exec(g) \/ Unlocked(g) \/ Terminal(g) \/ Remove(g)
  \/ \E n \in Names : AuditDelete(n)
  \/ \E s \in Sessions : Drop(s)
  \/ \E t \in Terminals : TermDies(t)
  \/ Restart

Spec == Init /\ [][Next]_vars

-----------------------------------------------------------------------------
(* Properties. *)

\* Every variable keeps its type; a handler holds a session object exactly while it
\* works.
TypeOK ==
  /\ sessions \in [Names -> Sessions \cup {None}]
  /\ terminals \in [Names -> Terminals \cup {None}]
  /\ made \in [Names -> 0..MaxSession] /\ up \subseteq Sessions /\ safeRm \subseteq Sessions
  /\ execLock \in [Sessions -> Procs \cup {None}]
  /\ opened \in 0..MaxTerm /\ alive \subseteq Terminals /\ baked \subseteq Terminals
  /\ rows \in [Names -> BOOLEAN \cup {None}] /\ audit \subseteq Names
  /\ restarts \in 0..MaxRestart
  /\ pc \in [Procs -> PCs] /\ nm \in [Procs -> Names]
  /\ se \in [Procs -> Sessions \cup {None}] /\ tm \in [Procs -> Terminals \cup {None}]
  /\ \A g \in Procs : pc[g] = "idle" <=> se[g] = None

\* A registered client has its row, whatever Adds, Removes and restarts overlap:
\* Remove gives up the session long before the row, and an Add of the same name in
\* between must fail.
SessionsPersisted == \A n \in Names : Registered(n) => HasRow(n)

\* Remove disconnects no session on which a command runs.
NoCommandCut ==
  \A g, h \in Procs : pc[g] = "rm_disc" /\ pc[h] = "x_run" => se[g] # se[h]

\* Somebody can end the terminal: disconnectClient and Remove find it under a
\* registered name, or a handler is about to register or close it.
InHand(t) ==
  \E g \in Procs : pc[g] \in {"m_close", "m_install", "rm_term"} /\ tm[g] = t
CanBeEnded(t) == InHand(t) \/ \E n \in Names : Registered(n) /\ terminals[n] = t

\* No race of openers, disconnects and Removes loses a live terminal shell, except
\* one: GetOrCreateTerminal installs a shell for a client that was removed while the
\* shell was opening, because it does not look at m.sessions again.  Nobody can end
\* that one until the name is added again.
NoLeakedTerminal ==
  [][\A t \in alive' : ~CanBeEnded(t)' =>
       \/ t \in alive /\ ~CanBeEnded(t)
       \/ \E g \in Procs : pc[g] = "m_install" /\ tm[g] = t /\ se[g] # sessions[nm[g]]]_vars

\* A Remove under way has taken the name, still has the row, and is the only one.
Removing ==
  \A g \in Procs : pc[g] \in RemovePCs =>
    /\ ~Registered(nm[g]) /\ HasRow(nm[g])
    /\ \A h \in Procs : pc[h] \in RemovePCs /\ nm[h] = nm[g] => h = g

\* Who owns execLock, by where the handlers are.
Locked == \A g \in Procs : pc[g] \in LockedPCs => execLock[se[g]] = g

\* The invariant the proofs need, which is inductive.
RegistryInv == TypeOK /\ SessionsPersisted /\ Removing /\ Locked

\* execLock is given back on every way out of Exec and Remove: who owns it is at
\* work on that very session.
LockHeld == \A s \in Sessions, g \in Procs : execLock[s] = g => pc[g] \in LockedPCs /\ se[g] = s

\* No handler ends the terminal of another client: a terminal is registered for
\* one name, one that is being closed for no other name than the handler's, and
\* one that was just opened is in nobody else's hands.
OwnTerminals ==
  /\ \A m, n \in Names : terminals[m] = terminals[n] /\ terminals[m] # None => m = n
  /\ \A g \in Procs, n \in Names : pc[g] \in {"m_close", "rm_term"} /\ terminals[n] = tm[g] => n = nm[g]
  /\ \A g \in Procs : pc[g] = "m_install" =>
       (\A n \in Names : terminals[n] # tm[g]) /\ (\A h \in Procs : tm[h] = tm[g] => h = g)

\* A Remove that waits for its command, or disconnects, does so on a session that
\* has left the map, also when the name is asked for again meanwhile.
RemovesOwn == \A g \in Procs, n \in Names : pc[g] \in RemovePCs => sessions[n] # se[g]

\* What these rest on: terminals are numbered as they are opened, and a
\* session object is that of its name.
Numbered ==
  /\ \A n \in Names : terminals[n] # None => terminals[n] <= opened
  /\ \A g \in Procs : /\ tm[g] # None => tm[g] <= opened
                      /\ pc[g] \in {"m_close", "m_install", "rm_term"} => tm[g] # None
Named ==
  /\ \A n \in Names : Registered(n) => sessions[n][1] = n
  /\ \A g \in Procs : pc[g] # "idle" => se[g][1] = nm[g]

\* The map and the table together: where a name is.  "lost" would be a session
\* without a row, which a restart forgets.
Status == [n \in Names |->
  IF Registered(n) THEN IF HasRow(n) THEN "listed" ELSE "lost"
                   ELSE IF HasRow(n) THEN "leaving" ELSE "absent"]

Directory == INSTANCE ClientDirectory WITH status <- Status

\* Map and table, changed in several steps by Add, Remove and Load, behave like
\* one directory: no name is registered without its row, none is added over a row
\* that is still being deleted, none comes back but by Add or a restart.
RefinesDirectory == Directory!Spec

\* A command of a client that is still registered when it ends gets its row in the
\* audit log.
AuditedIfRegistered ==
  [][\A g \in Procs :
       pc[g] = "x_run" /\ pc'[g] \in {"x_ok", "x_fail"} /\ sessions[nm[g]] = se[g]
         => nm[g] \in audit']_vars
=============================================================================
