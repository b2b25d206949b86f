--------------------------- MODULE Registry_proofs ---------------------------
(***************************************************************************)
(* RegistryInv is an invariant of Registry: a registered client always has *)
(* its row, Remove cuts no command, and a command of a registered client   *)
(* is audited.  A terminal is lost by a late install only.  No lock stays  *)
(* behind, no handler ends what is another client's, and map and table     *)
(* together implement ClientDirectory.  All of it for every set of names   *)
(* and handlers and any number of sessions, terminals and restarts.        *)
(***************************************************************************)
EXTENDS Registry, TLAPS

\* None is no flag, no session object, no terminal and no handler.
LEMMA NoneApart ==
  None \notin Sessions /\ None \notin Terminals /\ None \notin Procs /\ None \notin BOOLEAN
BY RegistryAssumption

\* The variables have their types at the beginning.
LEMMA InitTyped == ASSUME Init PROVE TypeOK
BY RegistryAssumption, NoneApart DEF Init, TypeOK, PCs, Terminals

\* Add, Update, AuditDelete and what happens around the handlers keep the types.
LEMMA OutsideTyped ==
  ASSUME TypeOK,
         \/ \E n \in Names, flag \in BOOLEAN : Add(n, flag) \/ Update(n, flag)
         \/ \E n \in Names : AuditDelete(n)
         \/ \E s \in Sessions : Drop(s)
         \/ \E t \in Terminals : TermDies(t)
         \/ Restart
  PROVE  TypeOK'
<1> USE RegistryAssumption, NoneApart
<1>1. ASSUME NEW n \in Names, NEW flag \in BOOLEAN, Add(n, flag) PROVE TypeOK'
  <2>1. made[n] + 1 \in 1..MaxSession
    BY <1>1 DEF Add, TypeOK
  <2> QED BY <1>1, <2>1 DEF Add, TypeOK, Sessions, termVars, procVars
<1>2. ASSUME NEW n \in Names, NEW flag \in BOOLEAN, Update(n, flag) PROVE TypeOK'
  BY <1>2 DEF Update, UpdateClient, Registered, TypeOK, mapVars, termVars, procVars
<1>4. ASSUME NEW s \in Sessions, Drop(s) PROVE TypeOK'
  BY <1>4 DEF Drop, TypeOK, mapVars, termVars, dbVars, procVars
<1>5. ASSUME NEW t \in Terminals, TermDies(t) PROVE TypeOK'
  BY <1>5 DEF TermDies, TypeOK, mapVars, sessVars, dbVars, procVars
<1>7. ASSUME NEW n \in Names, AuditDelete(n) PROVE TypeOK'
  BY <1>7 DEF AuditDelete, TypeOK, mapVars, sessVars, termVars, procVars
<1>6. ASSUME Restart PROVE TypeOK'
  <2>1. \A n \in Names : <<n, 1>> \in Sessions
    <3>1. 1 \in 1..MaxSession
      OBVIOUS
    <3> QED BY <3>1 DEF Sessions
  <2>2. /\ sessions' \in [Names -> Sessions \cup {None}] /\ made' \in [Names -> 0..MaxSession]
        /\ safeRm' \subseteq Sessions /\ up' \subseteq Sessions
    BY <1>6, <2>1 DEF Restart
  <2>3. /\ terminals' \in [Names -> Terminals \cup {None}]
        /\ execLock' \in [Sessions -> Procs \cup {None}]
        /\ opened' \in 0..MaxTerm /\ alive' \subseteq Terminals /\ baked' \subseteq Terminals
        /\ restarts' \in 0..MaxRestart
    BY <1>6 DEF Restart, TypeOK
  <2>4. /\ pc' \in [Procs -> PCs] /\ nm' \in [Procs -> Names]
        /\ se' \in [Procs -> Sessions \cup {None}] /\ tm' \in [Procs -> Terminals \cup {None}]
        /\ \A g \in Procs : pc'[g] = "idle" /\ se'[g] = None
    BY <1>6 DEF Restart, TypeOK, PCs
  <2>5. rows' \in [Names -> BOOLEAN \cup {None}] /\ audit' \subseteq Names
    BY <1>6 DEF Restart, TypeOK, dbVars
  <2> QED BY <2>2, <2>3, <2>4, <2>5 DEF TypeOK
<1> QED BY <1>1, <1>2, <1>4, <1>5, <1>6, <1>7

\* A lookup keeps the types.
LEMMA BeginTyped ==
  ASSUME TypeOK, NEW g \in Procs, NEW n \in Names, NEW o \in Entry, Begin(g, n, o)
  PROVE  TypeOK'
<1> USE NoneApart
<1>1. CASE ExecGet(g, n)
  BY <1>1 DEF ExecGet, Take, Goto, Registered, TypeOK, PCs, mapVars, sessVars, termVars, dbVars
<1>2. CASE ConnectGet(g, n)
  BY <1>2 DEF ConnectGet, Take, Goto, Registered, TypeOK, PCs, mapVars, sessVars, termVars, dbVars
<1>3. CASE TransferGet(g, n)
  BY <1>3 DEF TransferGet, Take, Goto, Registered, TypeOK, PCs, mapVars, sessVars, termVars, dbVars
<1>4. CASE TermGet(g, n)
  BY <1>4 DEF TermGet, Take, Goto, Registered, TypeOK, PCs, mapVars, sessVars, termVars, dbVars
<1>5. CASE RemoveBegin(g, n)
  BY <1>5 DEF RemoveBegin, Take, Goto, Registered, TypeOK, PCs, sessVars, termVars, dbVars
<1>6. CASE DisconnectGet(g, n)
  BY <1>6 DEF DisconnectGet, Take, Goto, Registered, TypeOK, PCs, mapVars, sessVars, termVars, dbVars
<1> QED BY <1>1, <1>2, <1>3, <1>4, <1>5, <1>6 DEF Begin

\* The steps of a handler keep the types.
LEMMA HandlerTyped ==
  ASSUME TypeOK, NEW g \in Procs, Exec(g) \/ Unlocked(g) \/ Terminal(g) \/ Remove(g)
  PROVE  TypeOK'
<1> USE NoneApart DEF Goto, Return, TypeOK, PCs, mapVars, sessVars, termVars, dbVars
<1>0. pc[g] # "idle" => se[g] \in Sessions
  OBVIOUS
<1>1. CASE ExecLock(g)
  BY <1>0, <1>1 DEF ExecLock
<1>2. CASE ExecConnect(g)
  BY <1>0, <1>2 DEF ExecConnect
<1>3. CASE ExecAudit(g)
  BY <1>0, <1>3 DEF ExecAudit, InsertAudit
<1>4. CASE ExecEnd(g)
  BY <1>0, <1>4 DEF ExecEnd
<1>5. CASE Connect(g)
  BY <1>0, <1>5 DEF Connect
<1>6. CASE Transfer(g)
  BY <1>0, <1>6 DEF Transfer
<1>7. CASE LogAudit(g)
  BY <1>0, <1>7 DEF LogAudit, InsertAudit
<1>8. CASE TermClose(g)
  BY <1>0, <1>8 DEF TermClose
<1>9. CASE TermOpen(g)
  <2>1. opened < MaxTerm => opened + 1 \in Terminals /\ opened + 1 \in 0..MaxTerm
    BY RegistryAssumption DEF Terminals
  <2> QED BY <1>0, <1>9, <2>1 DEF TermOpen
<1>10. CASE TermInstall(g)
  BY <1>0, <1>10 DEF TermInstall
<1>11. CASE RemoveTerm(g)
  BY <1>0, <1>11 DEF RemoveTerm
<1>12. CASE RemoveLock(g)
  BY <1>0, <1>12 DEF RemoveLock
<1>13. CASE RemoveDisconnect(g)
  BY <1>0, <1>13 DEF RemoveDisconnect
<1>14. CASE RemoveAudit(g)
  BY <1>0, <1>14 DEF RemoveAudit
<1>15. CASE RemoveRow(g)
  BY <1>0, <1>15 DEF RemoveRow, DeleteClient
<1>16. CASE Disconnect(g)
  BY <1>0, <1>16 DEF Disconnect
<1>17. CASE CloseTerminal(g)
  BY <1>0, <1>17 DEF CloseTerminal
<1> QED BY <1>1, <1>2, <1>3, <1>4, <1>5, <1>6, <1>7, <1>8, <1>9, <1>10, <1>11, <1>12, <1>13,
           <1>14, <1>15, <1>16, <1>17 DEF Exec, Unlocked, Terminal, Remove

\* Every step keeps the types.
LEMMA StepTyped == ASSUME TypeOK, [Next]_vars PROVE TypeOK'
<1>1. CASE UNCHANGED vars
  BY <1>1 DEF vars, mapVars, sessVars, termVars, dbVars, procVars, TypeOK
<1>2. CASE Next
  BY <1>2, OutsideTyped, BeginTyped, HandlerTyped DEF Next
<1> QED BY <1>1, <1>2

\* Every variable keeps its type in every behaviour of the registry.
THEOREM TypeCorrect == Spec => []TypeOK
BY InitTyped, StepTyped, PTL DEF Spec

-----------------------------------------------------------------------------
(* The invariant. *)

\* Nothing is registered at the beginning.
LEMMA InitInv == ASSUME Init PROVE RegistryInv
<1>1. TypeOK
  BY InitTyped
<1>2. SessionsPersisted /\ Removing /\ Locked
  BY DEF Init, SessionsPersisted, Removing, Locked, Registered, RemovePCs, LockedPCs
<1> QED BY <1>1, <1>2 DEF RegistryInv

\* A step that changes neither what is registered, nor the rows, nor who removes
\* what keeps what is said of them.
LEMMA RowsKept ==
  ASSUME SessionsPersisted, Removing, UNCHANGED <<sessions, rows, nm>>,
         \A g \in Procs : pc'[g] \in RemovePCs => pc[g] \in RemovePCs
  PROVE  SessionsPersisted' /\ Removing'
BY DEF SessionsPersisted, Removing, Registered, HasRow

\* A step that changes neither execLock nor who needs it keeps what is said of it.
LEMMA LocksKept ==
  ASSUME Locked, UNCHANGED <<execLock, se>>,
         \A g \in Procs : pc'[g] \in LockedPCs => pc[g] \in LockedPCs
  PROVE  Locked'
BY DEF Locked

\* Add needs a name without a row: nobody is removing it.
LEMMA AddInv ==
  ASSUME RegistryInv, NEW n \in Names, NEW flag \in BOOLEAN, Add(n, flag)
  PROVE  (SessionsPersisted /\ Removing /\ Locked)'
<1> USE DEF RegistryInv, Add, procVars, termVars
<1>1. SessionsPersisted'
  BY NoneApart DEF SessionsPersisted, TypeOK, Registered, HasRow
<1>2. Removing'
  <2>1. \A g \in Procs : pc[g] \in RemovePCs => nm[g] # n /\ nm[g] \in Names
    BY DEF Removing, CanInsert, TypeOK
  <2> QED BY <2>1 DEF Removing, TypeOK, Registered, HasRow
<1>3. Locked'
  BY LocksKept
<1> QED BY <1>1, <1>2, <1>3

\* Update writes rows that exist.
LEMMA UpdateInv ==
  ASSUME RegistryInv, NEW n \in Names, NEW flag \in BOOLEAN, Update(n, flag)
  PROVE  (SessionsPersisted /\ Removing /\ Locked)'
<1> USE DEF RegistryInv, Update, procVars, termVars, mapVars
<1>1. \A m \in Names : HasRow(m) => HasRow(m)'
  BY NoneApart DEF UpdateClient, HasRow, TypeOK
<1>2. SessionsPersisted'
  BY <1>1 DEF SessionsPersisted, Registered
<1>3. Removing'
  BY <1>1 DEF Removing, Registered, TypeOK
<1>4. Locked'
  BY LocksKept
<1> QED BY <1>2, <1>3, <1>4

\* After a restart the sessions are those of the rows.
LEMMA RestartInv ==
  ASSUME RegistryInv, Restart
  PROVE  (SessionsPersisted /\ Removing /\ Locked)'
<1>1. SessionsPersisted'
  BY DEF Restart, SessionsPersisted, Registered, HasRow, dbVars
<1>2. \A g \in Procs : pc'[g] = "idle"
  BY DEF Restart
<1> QED BY <1>1, <1>2 DEF Restart, Removing, Locked, RemovePCs, LockedPCs

\* A lookup that changes nothing else; only Remove takes a name.
LEMMA LookupInv ==
  ASSUME RegistryInv, NEW g \in Procs, NEW n \in Names, NEW s, NEW t, NEW l,
         Take(g, n, s, t, l), l \notin RemovePCs \cup LockedPCs,
         UNCHANGED <<mapVars, sessVars, termVars, dbVars>>
  PROVE  (SessionsPersisted /\ Removing /\ Locked)'
<1> USE DEF RegistryInv, TypeOK, mapVars, sessVars, termVars, dbVars, Take, Goto
<1>1. \A h \in Procs : pc'[h] # pc[h] \/ nm'[h] # nm[h] \/ se'[h] # se[h] \/ tm'[h] # tm[h] => h = g
  OBVIOUS
<1>2. SessionsPersisted'
  BY DEF SessionsPersisted, Registered, HasRow
<1>3. Removing'
  BY DEF Removing, Registered, HasRow
<1>4. Locked'
  BY DEF Locked
<1> QED BY <1>2, <1>3, <1>4

\* Remove takes a registered name, which nobody is removing.
LEMMA RemoveBeginInv ==
  ASSUME RegistryInv, NEW g \in Procs, NEW n \in Names, RemoveBegin(g, n)
  PROVE  (SessionsPersisted /\ Removing /\ Locked)'
<1> USE DEF RegistryInv, TypeOK, sessVars, termVars, dbVars, Take, Goto, RemoveBegin
<1>1. \A h \in Procs : pc[h] \in RemovePCs => nm[h] # n
  BY DEF Removing
<1>2. SessionsPersisted'
  BY DEF SessionsPersisted, Registered, HasRow
<1>3. Removing'
  <2>1. HasRow(n)
    BY DEF SessionsPersisted
  <2> QED BY <1>1, <2>1 DEF Removing, Registered, HasRow
<1>4. Locked'
  BY DEF Locked, LockedPCs
<1> QED BY <1>2, <1>3, <1>4

\* Every lookup keeps the invariant.
LEMMA BeginInv ==
  ASSUME RegistryInv, NEW g \in Procs, NEW n \in Names, NEW o \in Entry, Begin(g, n, o)
  PROVE  (SessionsPersisted /\ Removing /\ Locked)'
<1>1. CASE ExecGet(g, n)
  BY <1>1, LookupInv DEF ExecGet, RemovePCs, LockedPCs
<1>2. CASE ConnectGet(g, n)
  BY <1>2, LookupInv DEF ConnectGet, RemovePCs, LockedPCs
<1>3. CASE TransferGet(g, n)
  BY <1>3, LookupInv DEF TransferGet, RemovePCs, LockedPCs
<1>4. CASE TermGet(g, n)
  BY <1>4, LookupInv DEF TermGet, RemovePCs, LockedPCs
<1>5. CASE RemoveBegin(g, n)
  BY <1>5, RemoveBeginInv
<1>6. CASE DisconnectGet(g, n)
  BY <1>6, LookupInv DEF DisconnectGet, RemovePCs, LockedPCs
<1> QED BY <1>1, <1>2, <1>3, <1>4, <1>5, <1>6 DEF Begin

\* The steps of Exec: only the owner of execLock works on the session.
LEMMA ExecInv ==
  ASSUME RegistryInv, NEW g \in Procs, Exec(g)
  PROVE  (SessionsPersisted /\ Removing /\ Locked)'
<1> USE DEF RegistryInv, Goto, Return, mapVars, sessVars, termVars, dbVars, RemovePCs, LockedPCs
<1>0. TypeOK /\ pc[g] # "idle" => se[g] \in Sessions
  BY DEF TypeOK
<1>1. CASE ExecLock(g)
  <2> USE <1>1 DEF ExecLock, TypeOK
  <2>1. SessionsPersisted' /\ Removing'
    BY RowsKept
  <2>2. Locked'
    BY <1>0, NoneApart DEF Locked
  <2> QED BY <2>1, <2>2
<1>2. CASE ExecConnect(g)
  <2> USE <1>2 DEF ExecConnect, TypeOK
  <2>1. SessionsPersisted' /\ Removing'
    BY RowsKept
  <2>2. Locked'
    BY LocksKept
  <2> QED BY <2>1, <2>2
<1>3. CASE ExecAudit(g)
  <2> USE <1>3 DEF ExecAudit, TypeOK
  <2>1. SessionsPersisted' /\ Removing'
    BY RowsKept
  <2>2. Locked'
    BY LocksKept
  <2> QED BY <2>1, <2>2
<1>4. CASE ExecEnd(g)
  <2> USE <1>4 DEF ExecEnd, TypeOK
  <2>1. SessionsPersisted' /\ Removing'
    BY RowsKept
  <2>2. Locked'
    BY <1>0 DEF Locked
  <2> QED BY <2>1, <2>2
<1> QED BY <1>1, <1>2, <1>3, <1>4 DEF Exec

\* The steps of Connect and Transfer touch nothing the invariant speaks of.
LEMMA UnlockedInv ==
  ASSUME RegistryInv, NEW g \in Procs, Unlocked(g)
  PROVE  (SessionsPersisted /\ Removing /\ Locked)'
<1> USE DEF RegistryInv, TypeOK, Goto, Return, mapVars, sessVars, termVars, RemovePCs, LockedPCs,
            Unlocked, Connect, Disconnect, Transfer, LogAudit, dbVars
<1>1. SessionsPersisted' /\ Removing'
  BY RowsKept
<1>2. Locked'
  BY DEF Locked
<1> QED BY <1>1, <1>2

\* The steps of GetOrCreateTerminal and CloseTerminal.
LEMMA TerminalInv ==
  ASSUME RegistryInv, NEW g \in Procs, Terminal(g)
  PROVE  (SessionsPersisted /\ Removing /\ Locked)'
<1> USE DEF RegistryInv, TypeOK, Goto, Return, mapVars, sessVars, termVars, dbVars, RemovePCs, LockedPCs
<1>1. CASE TermClose(g)
  <2> USE <1>1 DEF TermClose
  <2>1. SessionsPersisted' /\ Removing' /\ Locked'
    BY RowsKept, LocksKept
  <2> QED BY <2>1
<1>2. CASE TermOpen(g)
  <2> USE <1>2 DEF TermOpen
  <2>1. SessionsPersisted' /\ Removing'
    BY RowsKept
  <2>2. Locked'
    BY DEF Locked
  <2> QED BY <2>1, <2>2
<1>3. CASE TermInstall(g)
  <2> USE <1>3 DEF TermInstall
  <2>1. SessionsPersisted' /\ Removing'
    BY RowsKept
  <2>2. Locked'
    BY DEF Locked
  <2> QED BY <2>1, <2>2
<1>4. CASE CloseTerminal(g)
  <2> USE <1>4 DEF CloseTerminal
  <2>1. SessionsPersisted' /\ Removing' /\ Locked'
    BY RowsKept, LocksKept
  <2> QED BY <2>1
<1> QED BY <1>1, <1>2, <1>3, <1>4 DEF Terminal

\* The steps of Remove: it waits for execLock, and the row goes last.
LEMMA RemoveInv ==
  ASSUME RegistryInv, NEW g \in Procs, Remove(g)
  PROVE  (SessionsPersisted /\ Removing /\ Locked)'
<1> USE DEF RegistryInv, TypeOK, Goto, Return, mapVars, sessVars, termVars, dbVars, RemovePCs, LockedPCs
<1>0. pc[g] # "idle" => se[g] \in Sessions
  OBVIOUS
<1>1. CASE RemoveTerm(g)
  <2> USE <1>1 DEF RemoveTerm
  <2>1. SessionsPersisted' /\ Removing' /\ Locked'
    BY RowsKept, LocksKept
  <2> QED BY <2>1
<1>2. CASE RemoveLock(g)
  <2> USE <1>2 DEF RemoveLock, ExecFree
  <2>1. SessionsPersisted' /\ Removing'
    BY RowsKept
  <2>2. Locked'
    BY <1>0, NoneApart DEF Locked
  <2> QED BY <2>1, <2>2
<1>3. CASE RemoveDisconnect(g)
  <2> USE <1>3 DEF RemoveDisconnect
  <2>1. SessionsPersisted' /\ Removing'
    BY RowsKept
  <2>2. Locked'
    BY <1>0 DEF Locked
  <2> QED BY <2>1, <2>2
<1>4. CASE RemoveAudit(g)
  <2> USE <1>4 DEF RemoveAudit
  <2>1. SessionsPersisted' /\ Removing' /\ Locked'
    BY RowsKept, LocksKept
  <2> QED BY <2>1
<1>5. CASE RemoveRow(g)
  <2> USE <1>5 DEF RemoveRow, DeleteClient
  <2>1. ~Registered(nm[g]) /\ \A h \in Procs : pc[h] \in RemovePCs /\ nm[h] = nm[g] => h = g
    BY DEF Removing
  <2>2. \A n \in Names : n # nm[g] => rows'[n] = rows[n]
    OBVIOUS
  <2>3. SessionsPersisted' /\ Removing'
    BY <2>1, <2>2 DEF SessionsPersisted, Removing, Registered, HasRow
  <2>4. Locked'
    BY DEF Locked
  <2> QED BY <2>3, <2>4
<1> QED BY <1>1, <1>2, <1>3, <1>4, <1>5 DEF Remove

\* What happens to connections and terminals outside the handlers.
LEMMA OutsideInv ==
  ASSUME RegistryInv,
         \/ \E n \in Names : AuditDelete(n)
         \/ \E s \in Sessions : Drop(s)
         \/ \E t \in Terminals : TermDies(t)
  PROVE  (SessionsPersisted /\ Removing /\ Locked)'
<1> USE DEF RegistryInv, TypeOK, mapVars, sessVars, termVars, dbVars, procVars,
            AuditDelete, Drop, TermDies
<1>1. SessionsPersisted' /\ Removing'
  BY RowsKept
<1>2. Locked'
  BY LocksKept
<1> QED BY <1>1, <1>2

\* RegistryInv is inductive.
LEMMA StepInv == ASSUME RegistryInv, [Next]_vars PROVE RegistryInv'
<1>1. TypeOK'
  BY StepTyped DEF RegistryInv
<1>2. (SessionsPersisted /\ Removing /\ Locked)'
  <2>1. CASE UNCHANGED vars
    BY <2>1 DEF RegistryInv, SessionsPersisted, Removing, Locked, Registered,
               HasRow, vars, mapVars, sessVars, termVars, dbVars, procVars
  <2>2. CASE Next
    BY <2>2, AddInv, UpdateInv, RestartInv, BeginInv, ExecInv, UnlockedInv, TerminalInv, RemoveInv,
       OutsideInv DEF Next
  <2> QED BY <2>1, <2>2
<1> QED BY <1>1, <1>2 DEF RegistryInv

\* The inductive invariant of the registry.
THEOREM RegistryInvariant == Spec => []RegistryInv
BY InitInv, StepInv, PTL DEF Spec

\* A registered client has its row, whatever Adds, Removes and restarts overlap.
THEOREM ClientsPersisted == Spec => []SessionsPersisted
<1>1. RegistryInv => SessionsPersisted
  BY DEF RegistryInv
<1> QED BY <1>1, RegistryInvariant, PTL

\* Remove disconnects no session on which a command runs: both would own execLock.
THEOREM NoCommandIsCut == Spec => []NoCommandCut
<1>1. RegistryInv => NoCommandCut
  BY DEF RegistryInv, Locked, LockedPCs, NoCommandCut
<1> QED BY <1>1, RegistryInvariant, PTL

-----------------------------------------------------------------------------
(* Who can end a terminal. *)

\* The late install: a handler registers what it opened for a session that is gone.
Late(t) == \E g \in Procs : pc[g] = "m_install" /\ tm[g] = t /\ se[g] # sessions[nm[g]]

\* The steps outside the handlers: what is registered and who holds what stay.
LEMMA OutsideEnds ==
  ASSUME TypeOK,
         \/ \E n \in Names, flag \in BOOLEAN : Add(n, flag) \/ Update(n, flag)
         \/ \E n \in Names : AuditDelete(n)
         \/ \E s \in Sessions : Drop(s)
         \/ \E t \in Terminals : TermDies(t)
         \/ Restart,
         NEW x \in alive'
  PROVE  x \in alive /\ (CanBeEnded(x) => CanBeEnded(x)')
<1>1. CASE Restart
  BY <1>1 DEF Restart
<1>2. ASSUME NEW n \in Names, NEW flag \in BOOLEAN, Add(n, flag) PROVE x \in alive /\ (CanBeEnded(x) => CanBeEnded(x)')
  BY <1>2 DEF Add, TypeOK, Registered, CanBeEnded, InHand, termVars, procVars
<1>3. CASE \/ \E n \in Names, flag \in BOOLEAN : Update(n, flag)
           \/ \E n \in Names : AuditDelete(n)
           \/ \E s \in Sessions : Drop(s)
           \/ \E t \in Terminals : TermDies(t)
  BY <1>3 DEF Update, AuditDelete, Drop, TermDies, Registered, CanBeEnded, InHand, mapVars, termVars, procVars
<1> QED BY <1>1, <1>2, <1>3

\* A lookup leaves the terminals, but that of Remove, which takes the name's in hand.
LEMMA BeginEnds ==
  ASSUME TypeOK, NEW g \in Procs, NEW n \in Names, NEW o \in Entry, Begin(g, n, o), NEW x \in alive'
  PROVE  x \in alive /\ (CanBeEnded(x) => CanBeEnded(x)')
<1>1. x \in alive /\ pc[g] = "idle" /\ \A h \in Procs : h # g => pc'[h] = pc[h] /\ tm'[h] = tm[h]
  BY DEF Begin, ExecGet, ConnectGet, TransferGet, TermGet, DisconnectGet, RemoveBegin, Take, Goto, TypeOK, termVars
<1>2. InHand(x) => InHand(x)'
  BY <1>1 DEF InHand
<1>3. CASE UNCHANGED mapVars
  BY <1>1, <1>2, <1>3 DEF CanBeEnded, Registered, mapVars
<1>4. CASE RemoveBegin(g, n)
  <2>1. /\ terminals[n] # None => pc'[g] = "rm_term" /\ tm'[g] = terminals[n]
        /\ \A m \in Names : m # n => sessions'[m] = sessions[m] /\ terminals'[m] = terminals[m]
    BY <1>4 DEF RemoveBegin, Take, Goto, TypeOK
  <2>2. x # None
    BY <1>1, NoneApart DEF TypeOK
  <2>3. ASSUME NEW m \in Names, Registered(m), terminals[m] = x PROVE CanBeEnded(x)'
    <3>1. CASE m = n
      BY <2>1, <2>2, <2>3, <3>1 DEF CanBeEnded, InHand
    <3>2. CASE m # n
      BY <2>1, <2>3, <3>2 DEF CanBeEnded, Registered
    <3> QED BY <3>1, <3>2
  <2> QED BY <1>1, <1>2, <2>3 DEF CanBeEnded
<1> QED BY <1>3, <1>4 DEF Begin, ExecGet, ConnectGet, TransferGet, TermGet, DisconnectGet

\* A handler closes what it lets go, opens into its own hands, and installs under a
\* registered name, unless it is late.
LEMMA HandlerEnds ==
  ASSUME TypeOK, NEW g \in Procs, Exec(g) \/ Unlocked(g) \/ Terminal(g) \/ Remove(g), NEW x \in alive'
  PROVE  \/ x \notin alive /\ CanBeEnded(x)'
         \/ x \in alive /\ (CanBeEnded(x) => CanBeEnded(x)')
         \/ x \in alive /\ Late(x)
<1> DEFINE Held == {"m_close", "m_install", "rm_term"}
<1>0. /\ UNCHANGED sessions /\ pc[g] # "idle" /\ se[g] # None /\ nm[g] \in Names
      /\ \A h \in Procs : h # g => pc'[h] = pc[h] /\ tm'[h] = tm[h]
  BY DEF Exec, ExecLock, ExecConnect, ExecAudit, ExecEnd, Unlocked, Connect, Disconnect, Transfer, LogAudit,
         Remove, RemoveTerm, RemoveLock, RemoveDisconnect, RemoveAudit, RemoveRow,
         Terminal, TermClose, TermOpen, TermInstall, CloseTerminal, Goto, Return, TypeOK, mapVars
<1>1. CASE Exec(g) \/ Unlocked(g) \/ RemoveLock(g) \/ RemoveDisconnect(g) \/ RemoveAudit(g) \/ RemoveRow(g)
  <2>1. UNCHANGED <<alive, terminals>> /\ pc[g] \notin Held
    BY <1>1 DEF Exec, ExecLock, ExecConnect, ExecAudit, ExecEnd, Unlocked, Connect, Disconnect, Transfer,
                LogAudit, RemoveLock, RemoveDisconnect, RemoveAudit, RemoveRow, mapVars, termVars
  <2> QED BY <1>0, <2>1 DEF CanBeEnded, InHand, Registered
<1>2. CASE TermClose(g) \/ RemoveTerm(g)
  <2>1. UNCHANGED terminals /\ alive' = alive \ {tm[g]}
    BY <1>2 DEF TermClose, RemoveTerm, mapVars
  <2> QED BY <1>0, <2>1 DEF CanBeEnded, InHand, Registered
<1>3. CASE CloseTerminal(g)
  <2>1. /\ alive' = alive \ {terminals[nm[g]]} /\ pc[g] = "d_term"
        /\ \A m \in Names : m # nm[g] => terminals'[m] = terminals[m]
    BY <1>3 DEF CloseTerminal, TypeOK
  <2> QED BY <1>0, <2>1 DEF CanBeEnded, InHand, Registered
<1>4. CASE TermOpen(g)
  <2>1. CASE alive' = alive
    BY <1>0, <1>4, <2>1 DEF TermOpen, CanBeEnded, InHand, Registered, mapVars
  <2>2. CASE alive' = alive \cup {opened + 1} /\ pc'[g] = "m_install" /\ tm'[g] = opened + 1
    <3>1. UNCHANGED terminals /\ pc[g] = "m_open"
      BY <1>4 DEF TermOpen, mapVars
    <3>2. CASE x \in alive
      BY <1>0, <3>1, <3>2 DEF CanBeEnded, InHand, Registered
    <3>3. CASE x \notin alive
      BY <2>2, <3>3 DEF CanBeEnded, InHand
    <3> QED BY <3>2, <3>3
  <2> QED BY <1>4, <2>1, <2>2 DEF TermOpen, Goto, TypeOK, termVars
<1>5. CASE TermInstall(g)
  <2>1. pc[g] = "m_install" /\ x \in alive
    BY <1>5 DEF TermInstall
  <2>2. CASE Beaten(nm[g])
    BY <1>0, <1>5, <2>1, <2>2 DEF TermInstall, CanBeEnded, InHand, Registered
  <2>3. CASE ~Beaten(nm[g])
    <3>1. /\ terminals[nm[g]] # x /\ terminals'[nm[g]] = tm[g]
          /\ \A m \in Names : m # nm[g] => terminals'[m] = terminals[m]
      BY <1>0, <1>5, <2>1, <2>3 DEF TermInstall, Beaten, TypeOK
    <3>2. CASE x = tm[g]
      <4>1. CASE se[g] = sessions[nm[g]]
        BY <1>0, <3>1, <3>2, <4>1, <2>1 DEF CanBeEnded, Registered
      <4>2. CASE se[g] # sessions[nm[g]]
        BY <2>1, <3>2, <4>2 DEF Late
      <4> QED BY <4>1, <4>2
    <3>3. CASE x # tm[g]
      BY <1>0, <2>1, <3>1, <3>3 DEF CanBeEnded, InHand, Registered
    <3> QED BY <3>2, <3>3
  <2> QED BY <2>2, <2>3
<1> QED BY <1>1, <1>2, <1>3, <1>4, <1>5 DEF Terminal, Remove

\* No live terminal is lost but by a late install.
THEOREM NoTerminalLeaks == Spec => NoLeakedTerminal
<1>1. ASSUME TypeOK, [Next]_vars, NEW x \in alive', ~CanBeEnded(x)'
      PROVE  x \in alive /\ (~CanBeEnded(x) \/ Late(x))
  <2>1. CASE UNCHANGED vars
    BY <1>1, <2>1 DEF vars, mapVars, termVars, procVars, CanBeEnded, InHand, Registered
  <2>2. CASE Next
    BY <1>1, <2>2, OutsideEnds, BeginEnds, HandlerEnds DEF Next
  <2> QED BY <1>1, <2>1, <2>2
<1>2. TypeOK /\ [Next]_vars =>
        [\A t \in alive' : ~CanBeEnded(t)' =>
           \/ t \in alive /\ ~CanBeEnded(t)
           \/ \E g \in Procs : pc[g] = "m_install" /\ tm[g] = t /\ se[g] # sessions[nm[g]]]_vars
  BY <1>1 DEF Late
<1> QED BY <1>2, TypeCorrect, PTL DEF Spec, NoLeakedTerminal

-----------------------------------------------------------------------------
(* What belongs to whom. *)

Terms == OwnTerminals /\ Numbered

LEMMA InitOwned == ASSUME Init PROVE Terms /\ LockHeld /\ Named
<1>1. \A s \in Sessions, g \in Procs : execLock[s] # g
  BY NoneApart DEF Init
<1> QED BY <1>1 DEF Init, Terms, OwnTerminals, Numbered, LockHeld, Named, Registered

\* No terminal is opened or registered, and none is taken from a handler but by itself.
LEMMA TermsSame ==
  ASSUME Terms, UNCHANGED <<nm, opened>>,
         \A n \in Names : terminals'[n] \in {terminals[n], None},
         \A g \in Procs : tm'[g] \in {tm[g], None},
         \A g \in Procs : pc'[g] \in {"m_close", "m_install", "rm_term"} => pc'[g] = pc[g] /\ tm'[g] = tm[g]
  PROVE  Terms'
BY DEF Terms, OwnTerminals, Numbered

LEMMA OutsideTerms ==
  ASSUME TypeOK, Terms,
         \/ \E n \in Names, flag \in BOOLEAN : Add(n, flag) \/ Update(n, flag)
         \/ \E n \in Names : AuditDelete(n)
         \/ \E s \in Sessions : Drop(s)
         \/ \E t \in Terminals : TermDies(t)
         \/ Restart
  PROVE  Terms'
<1>1. CASE Restart
  BY <1>1 DEF Restart, Terms, OwnTerminals, Numbered
<1>2. CASE ~Restart
  <2>1. UNCHANGED <<procVars, opened>> /\ \A n \in Names : terminals'[n] \in {terminals[n], None}
    BY <1>2 DEF TypeOK, Add, Update, AuditDelete, Drop, TermDies, mapVars, termVars
  <2> QED BY <2>1, TermsSame DEF procVars
<1> QED BY <1>1, <1>2

\* A lookup takes the terminal of its own name.
LEMMA BeginTerms ==
  ASSUME TypeOK, Terms, NEW g \in Procs, NEW n \in Names, NEW o \in Entry, Begin(g, n, o)
  PROVE  Terms'
<1>1. /\ UNCHANGED opened /\ pc[g] = "idle" /\ nm' = [nm EXCEPT ![g] = n]
      /\ \A m \in Names : terminals'[m] \in {terminals[m], None}
      /\ tm'[g] \in {terminals[n], None}
      /\ \A h \in Procs : h # g => pc'[h] = pc[h] /\ nm'[h] = nm[h] /\ tm'[h] = tm[h]
      /\ pc'[g] # "m_install"
      /\ pc'[g] \in {"m_close", "rm_term"} => tm'[g] = terminals[n] /\ tm'[g] # None
  BY DEF Begin, ExecGet, ConnectGet, TransferGet, TermGet, DisconnectGet, RemoveBegin, Take, Goto, TypeOK, mapVars, termVars
<1>2. nm'[g] = n
  BY <1>1 DEF TypeOK
<1> QED BY <1>1, <1>2 DEF Terms, OwnTerminals, Numbered

LEMMA HandlerTerms ==
  ASSUME TypeOK, Terms, NEW g \in Procs, Exec(g) \/ Unlocked(g) \/ Terminal(g) \/ Remove(g)
  PROVE  Terms'
<1>1. CASE Exec(g) \/ Unlocked(g) \/ Remove(g) \/ TermClose(g) \/ CloseTerminal(g)
  <2>1. /\ UNCHANGED <<nm, opened>> /\ \A n \in Names : terminals'[n] \in {terminals[n], None}
        /\ \A h \in Procs : tm'[h] \in {tm[h], None}
        /\ \A h \in Procs : pc'[h] \in {"m_close", "m_install", "rm_term"} => pc'[h] = pc[h] /\ tm'[h] = tm[h]
    BY <1>1 DEF Exec, ExecLock, ExecConnect, ExecAudit, ExecEnd, Unlocked, Connect, Disconnect, Transfer, LogAudit,
                Remove, RemoveTerm, RemoveLock, RemoveDisconnect, RemoveAudit, RemoveRow, TermClose, CloseTerminal,
                Goto, Return, TypeOK, mapVars, termVars
  <2> QED BY <2>1, TermsSame
<1>2. CASE TermOpen(g)
  <2>1. CASE opened' = opened
    <3>1. /\ UNCHANGED <<nm, terminals>> /\ \A h \in Procs : tm'[h] \in {tm[h], None}
          /\ \A h \in Procs : pc'[h] \in {"m_close", "m_install", "rm_term"} => pc'[h] = pc[h] /\ tm'[h] = tm[h]
      BY <1>2, <2>1 DEF TermOpen, Goto, Return, TypeOK, mapVars
    <3> QED BY <2>1, <3>1, TermsSame
  <2>2. CASE opened' = opened + 1
    <3>1. /\ opened \in Nat /\ opened' = opened + 1 /\ UNCHANGED <<nm, terminals>> /\ opened + 1 # None
          /\ pc'[g] = "m_install" /\ tm'[g] = opened + 1
          /\ \A h \in Procs : h # g => pc'[h] = pc[h] /\ tm'[h] = tm[h]
      <4>1. opened \in Nat /\ opened + 1 # opened
        BY RegistryAssumption DEF TypeOK
      <4>2. opened + 1 # None
        BY <1>2, <2>2, <4>1, RegistryAssumption DEF TermOpen, Terminals, termVars
      <4> QED BY <1>2, <2>2, <4>1, <4>2 DEF TermOpen, Goto, Return, TypeOK, mapVars, termVars
    <3>2. /\ \A n \in Names : terminals[n] # None => terminals[n] \in Nat /\ terminals[n] <= opened
          /\ \A h \in Procs : tm[h] # None => tm[h] \in Nat /\ tm[h] <= opened
      BY DEF TypeOK, Terms, Numbered, Terminals
    <3>3. /\ \A n \in Names : terminals[n] # opened + 1 /\ (terminals[n] # None => terminals[n] <= opened + 1)
          /\ \A h \in Procs : tm[h] # opened + 1 /\ (tm[h] # None => tm[h] <= opened + 1)
      BY <3>1, <3>2
    <3>4. Numbered'
      BY <3>1, <3>3 DEF Terms, Numbered
    <3>5. OwnTerminals'
      BY <3>1, <3>3 DEF Terms, OwnTerminals
    <3> QED BY <3>4, <3>5 DEF Terms
  <2> QED BY <1>2, <2>1, <2>2 DEF TermOpen, termVars
<1>3. CASE TermInstall(g)
  <2>1. /\ UNCHANGED <<nm, opened>> /\ pc[g] = "m_install" /\ pc'[g] = "idle" /\ tm'[g] = None /\ nm[g] \in Names
        /\ \A h \in Procs : h # g => pc'[h] = pc[h] /\ tm'[h] = tm[h]
        /\ terminals' = terminals \/ terminals' = [terminals EXCEPT ![nm[g]] = tm[g]]
    BY <1>3 DEF TermInstall, Goto, Return, TypeOK
  <2>2. CASE terminals' = terminals
    BY <2>1, <2>2 DEF Terms, OwnTerminals, Numbered
  <2>3. CASE terminals' = [terminals EXCEPT ![nm[g]] = tm[g]]
    <3>1. terminals'[nm[g]] = tm[g] /\ \A n \in Names : n # nm[g] => terminals'[n] = terminals[n]
      BY <2>1, <2>3 DEF TypeOK
    <3>2. /\ tm[g] # None /\ tm[g] <= opened /\ \A n \in Names : terminals[n] # tm[g]
          /\ \A h \in Procs : h # g => tm[h] # tm[g]
      BY <2>1 DEF Terms, OwnTerminals, Numbered
    <3>3. Numbered'
      BY <2>1, <3>1, <3>2 DEF Terms, Numbered
    <3>4. \A m, n \in Names : terminals'[m] = terminals'[n] /\ terminals'[m] # None => m = n
      BY <3>1, <3>2 DEF Terms, OwnTerminals
    <3>5. ASSUME NEW h \in Procs, NEW n \in Names, pc'[h] \in {"m_close", "rm_term"}, terminals'[n] = tm'[h]
          PROVE  n = nm'[h]
      <4>1. h # g /\ pc[h] \in {"m_close", "rm_term"} /\ terminals'[n] = tm[h] /\ tm[h] # tm[g]
        BY <2>1, <3>2, <3>5
      <4>2. terminals[n] = tm[h]
        BY <3>1, <4>1
      <4> QED BY <2>1, <4>1, <4>2 DEF Terms, OwnTerminals
    <3>6. ASSUME NEW h \in Procs, pc'[h] = "m_install"
          PROVE  (\A n \in Names : terminals'[n] # tm'[h]) /\ (\A k \in Procs : tm'[k] = tm'[h] => k = h)
      <4>1. h # g /\ pc[h] = "m_install" /\ tm'[h] = tm[h] /\ tm[h] # tm[g] /\ tm[h] # None
        BY <2>1, <3>2, <3>6 DEF Terms, Numbered
      <4> QED BY <2>1, <3>1, <4>1 DEF Terms, OwnTerminals
    <3>7. OwnTerminals'
      BY <3>4, <3>5, <3>6 DEF OwnTerminals
    <3> QED BY <3>3, <3>7 DEF Terms
  <2> QED BY <2>1, <2>2, <2>3
<1> QED BY <1>1, <1>2, <1>3 DEF Terminal

LEMMA StepTerms == ASSUME TypeOK, Terms, [Next]_vars PROVE Terms'
<1>1. CASE UNCHANGED vars
  BY <1>1 DEF vars, mapVars, termVars, procVars, Terms, OwnTerminals, Numbered
<1> QED BY <1>1, OutsideTerms, BeginTerms, HandlerTerms DEF Next

LEMMA StepLockHeld == ASSUME RegistryInv, LockHeld, [Next]_vars PROVE LockHeld'
<1> USE DEF LockedPCs
<1>0. TypeOK /\ Locked
  BY DEF RegistryInv
<1>1. CASE UNCHANGED <<execLock, pc, se>>
  BY <1>1 DEF LockHeld
<1>2. CASE Restart
  BY <1>2, NoneApart DEF Restart, LockHeld
<1>3. CASE \/ \E n \in Names, flag \in BOOLEAN : Add(n, flag) \/ Update(n, flag)
           \/ \E n \in Names : AuditDelete(n)
           \/ \E s \in Sessions : Drop(s)
           \/ \E t \in Terminals : TermDies(t)
  BY <1>1, <1>3 DEF Add, Update, AuditDelete, Drop, TermDies, sessVars, procVars
<1>4. ASSUME NEW g \in Procs, NEW n \in Names, NEW o \in Entry, Begin(g, n, o) PROVE LockHeld'
  <2>1. /\ UNCHANGED execLock /\ pc[g] = "idle"
        /\ \A h \in Procs : h # g => pc'[h] = pc[h] /\ se'[h] = se[h]
    <3> USE <1>0 DEF Take, Goto, TypeOK, sessVars
    <3>1. CASE ExecGet(g, n) \/ ConnectGet(g, n) \/ TransferGet(g, n) \/ DisconnectGet(g, n)
      BY <3>1 DEF ExecGet, ConnectGet, TransferGet, DisconnectGet
    <3>2. CASE TermGet(g, n)
      BY <3>2 DEF TermGet
    <3>3. CASE RemoveBegin(g, n)
      BY <3>3 DEF RemoveBegin
    <3> QED BY <1>4, <3>1, <3>2, <3>3 DEF Begin
  <2> QED BY <2>1 DEF LockHeld
<1>5. ASSUME NEW g \in Procs, Exec(g) \/ Unlocked(g) \/ Terminal(g) \/ Remove(g) PROVE LockHeld'
  <2> USE <1>0 DEF TypeOK, Goto, Return, sessVars
  <2>1. se[g] \in Sessions /\ \A h \in Procs : h # g => pc'[h] = pc[h] /\ se'[h] = se[h]
    BY <1>5 DEF Exec, ExecLock, ExecConnect, ExecAudit, ExecEnd, Unlocked, Connect, Disconnect, Transfer, LogAudit,
                Remove, RemoveTerm, RemoveLock, RemoveDisconnect, RemoveAudit, RemoveRow,
                Terminal, TermClose, TermOpen, TermInstall, CloseTerminal
  <2>2. CASE ExecLock(g) \/ RemoveLock(g)
    BY <2>1, <2>2 DEF ExecLock, RemoveLock, LockHeld
  <2>3. CASE ExecEnd(g) \/ RemoveDisconnect(g)
    <3>1. execLock' = [execLock EXCEPT ![se[g]] = None]
      BY <2>3 DEF ExecEnd, RemoveDisconnect
    <3>2. ASSUME NEW s \in Sessions, NEW h \in Procs, execLock'[s] = h PROVE h # g /\ execLock[s] = h
      <4>1. s # se[g] /\ execLock[s] = h
        BY <2>1, <3>1, <3>2, NoneApart
      <4> QED BY <4>1 DEF LockHeld
    <3> QED BY <2>1, <3>2 DEF LockHeld
  <2>4. CASE ExecConnect(g) \/ ExecAudit(g)
    BY <2>1, <2>4 DEF ExecConnect, ExecAudit, LockHeld
  <2>5. CASE Unlocked(g) \/ Terminal(g) \/ RemoveTerm(g) \/ RemoveAudit(g) \/ RemoveRow(g)
    <3>1. execLock' = execLock /\ pc[g] \notin LockedPCs
      BY <2>5 DEF Unlocked, Connect, Disconnect, Transfer, LogAudit, Terminal, TermClose, TermOpen, TermInstall, CloseTerminal,
                  RemoveTerm, RemoveAudit, RemoveRow
    <3> QED BY <2>1, <3>1 DEF LockHeld
  <2> QED BY <1>5, <2>2, <2>3, <2>4, <2>5 DEF Exec, Remove
<1> QED BY <1>1, <1>2, <1>3, <1>4, <1>5 DEF Next, vars, sessVars, procVars

LEMMA StepNamed == ASSUME TypeOK, Named, [Next]_vars PROVE Named'
<1>1. CASE UNCHANGED <<sessions, pc, se, nm>>
  BY <1>1 DEF Named, Registered
<1>2. ASSUME NEW n \in Names, NEW flag \in BOOLEAN, Add(n, flag) PROVE Named'
  BY <1>2 DEF Add, procVars, Named, Registered, TypeOK
<1>3. CASE Restart
  BY <1>3 DEF Restart, Named, Registered
<1>4. CASE \/ \E n \in Names, flag \in BOOLEAN : Update(n, flag)
           \/ \E n \in Names : AuditDelete(n)
           \/ \E s \in Sessions : Drop(s)
           \/ \E t \in Terminals : TermDies(t)
  BY <1>1, <1>4 DEF Update, AuditDelete, Drop, TermDies, mapVars, procVars
<1>5. ASSUME NEW g \in Procs, NEW n \in Names, NEW o \in Entry, Begin(g, n, o) PROVE Named'
  <2>1. /\ \A m \in Names : sessions'[m] \in {sessions[m], None}
        /\ \A h \in Procs : h # g => pc'[h] = pc[h] /\ se'[h] = se[h] /\ nm'[h] = nm[h]
        /\ Registered(n) /\ se'[g] = sessions[n] /\ nm'[g] = n
    BY <1>5 DEF Begin, ExecGet, ConnectGet, TransferGet, TermGet, DisconnectGet, RemoveBegin, Take, Goto, TypeOK, mapVars
  <2> QED BY <2>1 DEF Named, Registered
<1>6. ASSUME NEW g \in Procs, Exec(g) \/ Unlocked(g) \/ Terminal(g) \/ Remove(g) PROVE Named'
  <2>1. /\ UNCHANGED <<sessions, nm>> /\ pc[g] # "idle"
        /\ \A h \in Procs : pc'[h] # "idle" => pc[h] # "idle" /\ se'[h] = se[h]
    BY <1>6 DEF Exec, ExecLock, ExecConnect, ExecAudit, ExecEnd, Unlocked, Connect, Disconnect, Transfer, LogAudit,
                Remove, RemoveTerm, RemoveLock, RemoveDisconnect, RemoveAudit, RemoveRow,
                Terminal, TermClose, TermOpen, TermInstall, CloseTerminal, Goto, Return, TypeOK, mapVars
  <2> QED BY <2>1 DEF Named, Registered
<1> QED BY <1>1, <1>2, <1>3, <1>4, <1>5, <1>6 DEF Next, vars, mapVars, procVars

\* Every way out of Exec and Remove gives execLock back.
THEOREM LocksGivenBack == Spec => []LockHeld
BY InitOwned, StepLockHeld, RegistryInvariant, PTL DEF Spec

\* No handler ends or replaces the terminal of another client.
THEOREM TerminalsAreOwn == Spec => []OwnTerminals
<1>1. Terms => OwnTerminals
  BY DEF Terms
<1> QED BY <1>1, InitOwned, StepTerms, TypeCorrect, PTL DEF Spec

\* Remove disconnects no session that is registered: the name is free of it and
\* cannot be added again before the row has gone.
THEOREM RemoveKeepsToItsOwn == Spec => []RemovesOwn
<1>1. ASSUME RegistryInv, Named PROVE RemovesOwn
  <2> SUFFICES ASSUME NEW g \in Procs, NEW n \in Names, pc[g] \in RemovePCs, sessions[n] = se[g] PROVE FALSE
    BY DEF RemovesOwn
  <2>1. pc[g] # "idle" /\ se[g] # None /\ ~Registered(nm[g])
    BY <1>1 DEF RegistryInv, Removing, RemovePCs, TypeOK
  <2>2. n = nm[g]
    BY <1>1, <2>1 DEF Named, Registered
  <2> QED BY <2>1, <2>2 DEF Registered
<1> QED BY <1>1, InitOwned, StepNamed, TypeCorrect, RegistryInvariant, PTL DEF Spec

-----------------------------------------------------------------------------
(* The audit log. *)

\* A handler whose command is running goes on by ExecAudit alone.
LEMMA MovesAlone ==
  ASSUME RegistryInv, [Next]_vars, NEW g \in Procs,
         pc[g] = "x_run", pc'[g] \in {"x_ok", "x_fail"}
  PROVE  ExecAudit(g)
<1> USE DEF RegistryInv, TypeOK
<1>1. CASE UNCHANGED vars
  BY <1>1 DEF vars, procVars
<1>2. CASE \E n \in Names, flag \in BOOLEAN : Add(n, flag) \/ Update(n, flag)
  BY <1>2 DEF Add, Update, procVars
<1>3. CASE \E h \in Procs, n \in Names, o \in Entry : Begin(h, n, o)
  BY <1>3 DEF Begin, ExecGet, ConnectGet, TransferGet, TermGet, DisconnectGet, RemoveBegin, Take, Goto
<1>4. ASSUME NEW h \in Procs, Exec(h) PROVE ExecAudit(g)
  BY <1>4 DEF Exec, ExecLock, ExecConnect, ExecAudit, ExecEnd, Goto, Return
<1>5. ASSUME NEW h \in Procs, Unlocked(h) \/ Terminal(h) \/ Remove(h) PROVE ExecAudit(g)
  <2>1. \A k \in Procs : k # h => pc'[k] = pc[k]
    BY <1>5 DEF Unlocked, Connect, Disconnect, Transfer, LogAudit, Terminal, TermClose, TermOpen, TermInstall, CloseTerminal,
               Remove, RemoveTerm, RemoveLock, RemoveDisconnect, RemoveAudit, RemoveRow, Goto, Return
  <2>2. pc[h] # "x_run"
    BY <1>5 DEF Unlocked, Connect, Disconnect, Transfer, LogAudit, Terminal, TermClose, TermOpen, TermInstall, CloseTerminal,
               Remove, RemoveTerm, RemoveLock, RemoveDisconnect, RemoveAudit, RemoveRow
  <2> QED BY <2>1, <2>2
<1>6. CASE \/ \E n \in Names : AuditDelete(n)
           \/ \E s \in Sessions : Drop(s)
           \/ \E t \in Terminals : TermDies(t)
  BY <1>6 DEF AuditDelete, Drop, TermDies, procVars
<1>7. CASE Restart
  BY <1>7 DEF Restart
<1> QED BY <1>1, <1>2, <1>3, <1>4, <1>5, <1>6, <1>7 DEF Next

\* A command whose client is still registered when it ends is audited: the client has
\* its row, so the foreign key of the audit row holds.
THEOREM CommandsAudited == Spec => AuditedIfRegistered
<1>1. ASSUME RegistryInv, [Next]_vars, NEW g \in Procs,
             pc[g] = "x_run", pc'[g] \in {"x_ok", "x_fail"}, sessions[nm[g]] = se[g]
      PROVE  nm[g] \in audit'
  <2>1. Registered(nm[g]) /\ nm[g] \in Names
    BY <1>1 DEF RegistryInv, TypeOK, Registered
  <2>2. HasRow(nm[g])
    BY <1>1, <2>1 DEF RegistryInv, SessionsPersisted
  <2>3. ExecAudit(g)
    BY <1>1, MovesAlone
  <2> QED BY <2>2, <2>3 DEF ExecAudit, InsertAudit
<1>2. RegistryInv /\ [Next]_vars =>
        [\A g \in Procs :
           pc[g] = "x_run" /\ pc'[g] \in {"x_ok", "x_fail"} /\ sessions[nm[g]] = se[g]
             => nm[g] \in audit']_vars
  BY <1>1
<1> QED BY <1>2, RegistryInvariant, PTL DEF Spec, AuditedIfRegistered

-----------------------------------------------------------------------------
(* The refinement. *)

\* The directory sees only the map, the table and the restarts.
LEMMA SameStatus ==
  ASSUME UNCHANGED restarts, \A n \in Names : (Registered(n)' <=> Registered(n)) /\ (HasRow(n)' <=> HasRow(n))
  PROVE  UNCHANGED Directory!vars
<1>1. Status' = Status
  BY DEF Status
<1> QED BY <1>1 DEF Directory!vars

\* One name moves.
LEMMA OneMoves ==
  ASSUME NEW n \in Names, NEW s, NEW t, Status[n] = s, Status'[n] = t,
         \A m \in Names : m # n => Status'[m] = Status[m], UNCHANGED restarts
  PROVE  Directory!Moves(n, s, t)
<1>1. Status' = [Status EXCEPT ![n] = t]
  BY DEF Status
<1> QED BY <1>1 DEF Directory!Moves

LEMMA AddMaps ==
  ASSUME RegistryInv, NEW n \in Names, NEW flag \in BOOLEAN, Add(n, flag)
  PROVE  Directory!Add(n)
<1>1. /\ rows' = [rows EXCEPT ![n] = flag] /\ rows \in [Names -> BOOLEAN \cup {None}]
      /\ sessions' = [sessions EXCEPT ![n] = <<n, made[n] + 1>>] /\ sessions \in [Names -> Sessions \cup {None}]
      /\ ~Registered(n) /\ ~HasRow(n) /\ UNCHANGED restarts
  BY DEF Add, CanInsert, RegistryInv, TypeOK
<1>2. <<n, made[n] + 1>> # None /\ flag # None
  <2>1. made[n] + 1 \in 1..MaxSession
    BY RegistryAssumption DEF Add, RegistryInv, TypeOK
  <2> QED BY <2>1, NoneApart DEF Sessions
<1>3. Registered(n)' /\ HasRow(n)'
  BY <1>1, <1>2 DEF Registered, HasRow
<1>4. \A m \in Names : m # n => (Registered(m)' <=> Registered(m)) /\ (HasRow(m)' <=> HasRow(m))
  BY <1>1 DEF Registered, HasRow
<1>5. Status[n] = "absent" /\ Status'[n] = "listed" /\ \A m \in Names : m # n => Status'[m] = Status[m]
  BY <1>1, <1>3, <1>4 DEF Status
<1> QED BY <1>1, <1>5, OneMoves DEF Directory!Add

\* Remove takes the name off the list.
LEMMA RemoveMaps ==
  ASSUME RegistryInv, NEW g \in Procs, NEW n \in Names, RemoveBegin(g, n)
  PROVE  Directory!Remove(n)
<1>1. sessions' = [sessions EXCEPT ![n] = None] /\ rows' = rows /\ UNCHANGED restarts /\ Registered(n) /\ HasRow(n)
  BY DEF RemoveBegin, RegistryInv, SessionsPersisted, dbVars
<1>2. /\ ~Registered(n)' /\ HasRow(n)'
      /\ \A m \in Names : m # n => (Registered(m)' <=> Registered(m)) /\ (HasRow(m)' <=> HasRow(m))
  BY <1>1 DEF Registered, HasRow, RegistryInv, TypeOK
<1>3. Status[n] = "listed" /\ Status'[n] = "leaving" /\ \A m \in Names : m # n => Status'[m] = Status[m]
  BY <1>1, <1>2 DEF Status
<1> QED BY <1>1, <1>3, OneMoves DEF Directory!Remove

\* The row goes last, unless an audit row holds it.
LEMMA RowMaps ==
  ASSUME RegistryInv, NEW g \in Procs, RemoveRow(g)
  PROVE  Directory!Forget(nm[g]) \/ UNCHANGED Directory!vars
<1>1. PICK n \in Names : n = nm[g]
  BY DEF RegistryInv, TypeOK
<1>2. /\ ~Registered(n) /\ HasRow(n) /\ UNCHANGED <<sessions, restarts>>
      /\ rows' = rows \/ rows' = [rows EXCEPT ![n] = None]
  BY <1>1 DEF RemoveRow, DeleteClient, RegistryInv, Removing, RemovePCs, TypeOK, mapVars
<1>3. CASE rows' = rows
  <2>1. \A m \in Names : (Registered(m)' <=> Registered(m)) /\ (HasRow(m)' <=> HasRow(m))
    BY <1>2, <1>3 DEF Registered, HasRow
  <2> QED BY <1>2, <2>1, SameStatus
<1>4. CASE rows' = [rows EXCEPT ![n] = None]
  <2>1. rows'[n] = None /\ \A m \in Names : m # n => rows'[m] = rows[m]
    BY <1>4 DEF RegistryInv, TypeOK
  <2>2. ~HasRow(n)' /\ ~Registered(n)' /\ \A m \in Names : (Registered(m)' <=> Registered(m)) /\ (m # n => (HasRow(m)' <=> HasRow(m)))
    BY <1>2, <2>1 DEF Registered, HasRow
  <2>3. Status[n] = "leaving" /\ Status'[n] = "absent" /\ \A m \in Names : m # n => Status'[m] = Status[m]
    BY <1>2, <2>2 DEF Status
  <2>4. Directory!Moves(n, "leaving", "absent")
    BY <1>2, <2>3, OneMoves
  <2> QED BY <1>1, <2>4 DEF Directory!Forget
<1> QED BY <1>2, <1>3, <1>4

\* Load lists what has a row.
LEMMA RestartMaps ==
  ASSUME RegistryInv, Restart
  PROVE  Directory!Restart
<1>1. \A n \in Names : (Registered(n)' <=> HasRow(n)) /\ (HasRow(n)' <=> HasRow(n))
  <2>1. \A n \in Names : <<n, 1>> # None
    <3>1. \A n \in Names : <<n, 1>> \in Sessions
      <4>1. 1 \in 1..MaxSession
        BY RegistryAssumption
      <4> QED BY <4>1 DEF Sessions
    <3> QED BY <3>1, NoneApart
  <2>2. sessions' = [n \in Names |-> IF HasRow(n) THEN <<n, 1>> ELSE None] /\ rows' = rows
    BY DEF Restart, dbVars
  <2> QED BY <2>1, <2>2 DEF Registered, HasRow
<1>2. \A n \in Names : Registered(n) => HasRow(n)
  BY DEF RegistryInv, SessionsPersisted
<1>3. \A n \in Names : Status'[n] = IF Status[n] = "absent" THEN "absent" ELSE "listed"
  BY <1>1, <1>2 DEF Status
<1>4. Status' = [n \in Names |-> IF Status[n] = "absent" THEN "absent" ELSE "listed"]
  BY <1>3 DEF Status
<1> QED BY <1>4 DEF Restart, Directory!Restart

LEMMA StepMaps ==
  ASSUME RegistryInv, [Next]_vars
  PROVE  [Directory!Next]_(Directory!vars)
<1>1. CASE UNCHANGED <<sessions, rows, restarts>>
  <2>1. \A n \in Names : (Registered(n)' <=> Registered(n)) /\ (HasRow(n)' <=> HasRow(n))
    BY <1>1 DEF Registered, HasRow
  <2> QED BY <1>1, <2>1, SameStatus
<1>2. ASSUME NEW n \in Names, NEW flag \in BOOLEAN, Add(n, flag) PROVE Directory!Next
  BY <1>2, AddMaps DEF Directory!Next
<1>3. ASSUME NEW n \in Names, NEW flag \in BOOLEAN, Update(n, flag) PROVE UNCHANGED Directory!vars
  <2>1. \A m \in Names : (Registered(m)' <=> Registered(m)) /\ (HasRow(m)' <=> HasRow(m))
    BY <1>3, NoneApart DEF Update, UpdateClient, Registered, HasRow, RegistryInv, TypeOK, mapVars
  <2> QED BY <1>3, <2>1, SameStatus DEF Update
<1>4. CASE \/ \E n \in Names : AuditDelete(n)
           \/ \E s \in Sessions : Drop(s)
           \/ \E t \in Terminals : TermDies(t)
  BY <1>1, <1>4 DEF AuditDelete, Drop, TermDies, mapVars, dbVars
<1>5. CASE Restart
  BY <1>5, RestartMaps DEF Directory!Next
<1>6. ASSUME NEW g \in Procs, NEW n \in Names, NEW o \in Entry, Begin(g, n, o)
      PROVE  [Directory!Next]_(Directory!vars)
  <2>1. CASE RemoveBegin(g, n)
    BY <2>1, RemoveMaps DEF Directory!Next
  <2>2. CASE ~RemoveBegin(g, n)
    BY <1>1, <1>6, <2>2 DEF Begin, ExecGet, ConnectGet, TransferGet, TermGet, DisconnectGet, mapVars, dbVars
  <2> QED BY <2>1, <2>2
<1>7. ASSUME NEW g \in Procs, Exec(g) \/ Unlocked(g) \/ Terminal(g) \/ Remove(g)
      PROVE  [Directory!Next]_(Directory!vars)
  <2>1. CASE RemoveRow(g)
    <3>1. nm[g] \in Names
      BY DEF RegistryInv, TypeOK
    <3> QED BY <2>1, <3>1, RowMaps DEF Directory!Next
  <2>2. CASE ~RemoveRow(g)
    <3>1. UNCHANGED <<sessions, rows, restarts>>
      BY <1>7, <2>2 DEF Exec, ExecLock, ExecConnect, ExecAudit, ExecEnd, Unlocked, Connect, Disconnect, Transfer, LogAudit,
                Remove, RemoveTerm, RemoveLock, RemoveDisconnect, RemoveAudit,
                Terminal, TermClose, TermOpen, TermInstall, CloseTerminal, mapVars, dbVars
    <3> QED BY <1>1, <3>1
  <2> QED BY <2>1, <2>2
<1>8. CASE UNCHANGED vars
  BY <1>1, <1>8 DEF vars, mapVars, dbVars
<1> QED BY <1>2, <1>3, <1>4, <1>5, <1>6, <1>7, <1>8 DEF Next

\* Map and table implement one directory of names: what Remove does in several
\* steps, and a crash between any two of them, is never seen half done by an Add.
THEOREM RegistryImplementsDirectory == Spec => RefinesDirectory
<1>1. Init => Directory!Init
  BY DEF Init, Directory!Init, Status, Registered, HasRow
<1> QED BY <1>1, StepMaps, RegistryInvariant, PTL DEF Spec, RefinesDirectory, Directory!Spec
=============================================================================
