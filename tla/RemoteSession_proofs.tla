---------------------- MODULE RemoteSession_proofs ----------------------
(***************************************************************************)
(* SessionInv is an invariant of RemoteSession, for every number of        *)
(* goroutines, clients and shells.                                         *)
(*                                                                         *)
(* Type correctness is proved per operation: an action moves its goroutine *)
(* with Goto, which keeps PCTypeOK, and the rest of TypeOK follows from    *)
(* what the action assigns.                                                *)
(***************************************************************************)
EXTENDS RemoteSession, TLAPS

\* The labels a goroutine may be sent to.
MayStandAt(g, label) ==
  /\ g \in Procs => label \in CallerPCs
  /\ g \in ConnIds => label \in KeeperPCs

\* Goto keeps callers and keepalive goroutines where each belongs.
LEMMA GotoTyped ==
  ASSUME PCTypeOK, NEW g \in Goroutines, NEW label, MayStandAt(g, label), Goto(g, label)
  PROVE  PCTypeOK'
<1>1. \A c \in ConnIds : c \notin Procs
  BY SessionAssumption DEF SessionAssumption, ConnIds
<1>2. label \in PCs
  BY DEF MayStandAt, Goroutines, CallerPCs, KeeperPCs, PCs, DisconnectPCs
<1>3. g \in ConnIds => label # "idle"
  BY DEF MayStandAt, KeeperPCs, DisconnectPCs
<1>4. pc' \in [Goroutines -> PCs] /\ op' \in [Goroutines -> Ops]
  BY <1>2 DEF PCTypeOK, Goto, Label, Ops
<1>5. \A p \in Procs : pc'[p] \in CallerPCs /\ op'[p] # "keepalive"
  BY DEF PCTypeOK, Goto, Label, MayStandAt, Goroutines
<1>6. \A c \in ConnIds : pc'[c] \in KeeperPCs /\ op'[c] = "keepalive"
  BY <1>1, <1>3 DEF PCTypeOK, Goto, Label, MayStandAt, Goroutines
<1> QED BY <1>4, <1>5, <1>6 DEF PCTypeOK

\* The same for a step of a caller, whose labels need only be caller labels.
LEMMA CallerGoto ==
  ASSUME PCTypeOK, NEW g \in Procs, NEW label \in CallerPCs, Goto(g, label)
  PROVE  PCTypeOK'
<1>1. g \in Goroutines /\ MayStandAt(g, label)
  BY SessionAssumption DEF SessionAssumption, ConnIds, Goroutines, MayStandAt
<1> QED BY <1>1, GotoTyped

\* Close keeps the types of what it writes.
LEMMA MarkDeadTyped ==
  ASSUME ShellTypeOK, NEW k, MarkDead(k)
  PROVE  alive' \in [ShellIds -> BOOLEAN] /\ pending' \in [ShellIds -> Procs \cup {None}]
BY DEF ShellTypeOK, MarkDead

\* Closing a shell keeps the types of what it writes.
LEMMA CloseShellTyped ==
  ASSUME ShellTypeOK, NEW k, CloseShell(k)
  PROVE  alive' \in [ShellIds -> BOOLEAN] /\ pending' \in [ShellIds -> Procs \cup {None}]
BY MarkDeadTyped DEF CloseShell

\* A step of Connect keeps every type.
LEMMA ConnectTyped == ASSUME TypeOK, NEW g \in Procs, Connect(g) PROVE TypeOK'
<1> USE DEF connVars, shellVars, dataVars, lockVars, goVars
<1> DEFINE Early == ConnectLock(g) \/ ConnectStop(g) \/ Dial(g) \/ Handshake(g) \/ ResetCwd(g)
<1>1. g \in Goroutines
  BY DEF Goroutines
<1>2. PCTypeOK'
  <2>1. CASE Early
    <3>1. PICK label \in CallerPCs : Goto(g, label)
      BY <2>1 DEF ConnectLock, ConnectStop, Dial, Handshake, ResetCwd, ConnectErr,
                  AfterConnect, AfterConnectErr, CallerPCs, PCs, ConnectPCs
    <3> QED BY <3>1, CallerGoto DEF TypeOK
  <2>2. CASE StartKeepalive(g)
    <3>1. AfterConnect(g) \in CallerPCs /\ AfterConnect(g) \in PCs
      BY DEF AfterConnect, CallerPCs, PCs
    <3>2. "k_new" \in PCs /\ "k_new" \in KeeperPCs /\ "none" \in Ops
      BY DEF PCs, KeeperPCs, Ops
    <3>3. \A c \in ConnIds : c \in Goroutines /\ c \notin Procs
      BY SessionAssumption DEF SessionAssumption, ConnIds, Goroutines
    <3>4. \A p \in Procs : p \in Goroutines
      BY DEF Goroutines
    <3>5. dialed \notin Procs
      BY SessionAssumption DEF SessionAssumption, TypeOK, ConnTypeOK
    <3>6. pc' \in [Goroutines -> PCs] /\ op' \in [Goroutines -> Ops]
      BY <2>2, <3>1, <3>2 DEF TypeOK, PCTypeOK, StartKeepalive
    <3>7. \A p \in Procs : pc'[p] \in CallerPCs /\ op'[p] # "keepalive"
      BY <2>2, <3>1, <3>4, <3>5 DEF TypeOK, PCTypeOK, StartKeepalive
    <3>8. \A c \in ConnIds : pc'[c] \in KeeperPCs /\ op'[c] = "keepalive"
      BY <2>2, <3>2, <3>3 DEF TypeOK, PCTypeOK, StartKeepalive
    <3> QED BY <3>6, <3>7, <3>8 DEF PCTypeOK
  <2> QED BY <2>1, <2>2 DEF Connect
<1>3. ConnTypeOK'
  <2>1. CASE ConnectStop(g)
    BY <2>1, SessionAssumption DEF SessionAssumption, TypeOK, ConnTypeOK, ConnectStop, StopSignal, ConnIds
  <2>2. CASE Handshake(g)
    <3>1. CASE dialed < MaxConn /\ dialed' = dialed + 1
      <4>1. dialed' \in 0..MaxConn
        BY <3>1, SessionAssumption DEF SessionAssumption, TypeOK, ConnTypeOK
      <4>2. link' \in [ConnIds -> Links]
        BY <2>2 DEF TypeOK, ConnTypeOK, Handshake, Links
      <4>3. conn' \in 0..MaxConn
        BY <2>2, <4>1 DEF TypeOK, ConnTypeOK, Handshake
      <4> QED BY <2>2, <4>1, <4>2, <4>3 DEF TypeOK, ConnTypeOK, Handshake, CloseRelay
    <3>2. CASE UNCHANGED <<conn, dialed, link>>
      BY <2>2, <3>2 DEF TypeOK, ConnTypeOK, Handshake, CloseRelay
    <3> QED BY <2>2, <3>1, <3>2 DEF Handshake
  <2>3. CASE ~ConnectStop(g) /\ ~Handshake(g)
    BY <2>3 DEF Connect, TypeOK, ConnTypeOK, ConnectLock, Dial, ResetCwd, StartKeepalive,
                FreshChannel
  <2> QED BY <2>1, <2>2, <2>3
<1>4. ShellTypeOK' /\ LocalTypeOK'
  BY DEF TypeOK, ShellTypeOK, LocalTypeOK, Connect, ConnectLock, ConnectStop, Dial, Handshake,
         ResetCwd, StartKeepalive
<1>5. DataTypeOK'
  BY SessionAssumption DEF SessionAssumption, TypeOK, DataTypeOK, Connect, ConnectLock,
         ConnectStop, Dial, Handshake, ResetCwd, StartKeepalive
<1>6. LockTypeOK'
  BY <1>1 DEF TypeOK, LockTypeOK, Connect, ConnectLock, ConnectStop, Dial, Handshake,
         ConnectErr, ResetCwd, StartKeepalive
<1> QED BY <1>2, <1>3, <1>4, <1>5, <1>6 DEF TypeOK

\* A step of Disconnect, by a caller or by a keepalive goroutine, keeps every type.
LEMMA DisconnectTyped == ASSUME TypeOK, NEW g \in Goroutines, Disconnect(g) PROVE TypeOK'
<1> USE DEF connVars, shellVars, dataVars, lockVars, goVars
<1>1. PCTypeOK'
  <2>1. PICK label : Goto(g, label) /\ label \in {"d_close", "d_shlock", "d_shell", "d_relay",
                                                   AfterDisconnect(g)}
    BY DEF Disconnect, Claim, CloseClient, TeardownLock, TeardownShell, TeardownRelay
  <2>2. MayStandAt(g, AfterDisconnect(g))
    BY SessionAssumption DEF SessionAssumption, ConnIds, TypeOK, PCTypeOK, MayStandAt, AfterDisconnect,
         CallerPCs, KeeperPCs, PCs, Goroutines
  <2>3. MayStandAt(g, label)
    BY <2>1, <2>2 DEF MayStandAt, CallerPCs, KeeperPCs, PCs, DisconnectPCs
  <2> QED BY <2>1, <2>3, GotoTyped DEF TypeOK
<1>2. ConnTypeOK'
  <2>1. CASE Claim(g)
    BY <2>1, SessionAssumption DEF SessionAssumption, TypeOK, ConnTypeOK, Claim, StopSignal, ConnIds
  <2>2. CASE CloseClient(g)
    BY <2>2 DEF TypeOK, ConnTypeOK, CloseClient, CloseTransport, Links
  <2>3. CASE ~Claim(g) /\ ~CloseClient(g)
    BY <2>3 DEF Disconnect, TypeOK, ConnTypeOK, TeardownLock, TeardownShell, TeardownRelay,
                CloseRelay
  <2> QED BY <2>1, <2>2, <2>3
<1>3. ShellTypeOK'
  <2>1. CASE TeardownShell(g)
    BY <2>1, CloseShellTyped, SessionAssumption
       DEF SessionAssumption, TypeOK, ShellTypeOK, TeardownShell, ForgetShell
  <2>2. CASE ~TeardownShell(g)
    BY <2>2 DEF Disconnect, TypeOK, ShellTypeOK, Claim, CloseClient, TeardownLock, TeardownRelay
  <2> QED BY <2>1, <2>2
<1>4. DataTypeOK'
  BY SessionAssumption DEF SessionAssumption, TypeOK, DataTypeOK, Disconnect, Claim, CloseClient,
         TeardownLock, TeardownShell, TeardownRelay
<1>5. LockTypeOK'
  BY DEF TypeOK, LockTypeOK, Disconnect, Claim, CloseClient, TeardownLock, TeardownShell,
         TeardownRelay
<1>6. LocalTypeOK'
  <2>1. CASE Claim(g)
    BY <2>1 DEF TypeOK, LocalTypeOK, ConnTypeOK, Claim
  <2>2. CASE TeardownRelay(g)
    BY <2>2, SessionAssumption DEF SessionAssumption, TypeOK, LocalTypeOK, TeardownRelay
  <2>3. CASE ~Claim(g) /\ ~TeardownRelay(g)
    BY <2>3 DEF Disconnect, TypeOK, LocalTypeOK, CloseClient, TeardownLock, TeardownShell
  <2> QED BY <2>1, <2>2, <2>3
<1> QED BY <1>1, <1>2, <1>3, <1>4, <1>5, <1>6 DEF TypeOK

\* A step of EnsureShell keeps every type.
LEMMA EnsureTyped == ASSUME TypeOK, NEW g \in Procs, EnsureShell(g) PROVE TypeOK'
<1> USE DEF connVars, shellVars, dataVars, lockVars, goVars
<1>1. g \in Goroutines
  BY DEF Goroutines
<1>2. PCTypeOK'
  <2>1. PICK label \in CallerPCs : Goto(g, label)
    BY DEF EnsureShell, EnsureLock, EnsureCheck, EnsureScript, NewShell, OpenShell, StartShell,
           EnsureErr, AfterEnsure, AfterEnsureErr, CallerPCs, PCs, EnsurePCs, RunPCs
  <2> QED BY <2>1, CallerGoto DEF TypeOK
<1>3. ConnTypeOK'
  BY DEF TypeOK, ConnTypeOK, EnsureShell, EnsureLock, EnsureCheck, EnsureScript, NewShell,
         OpenShell, StartShell
<1>4. LockTypeOK'
  BY <1>1 DEF TypeOK, LockTypeOK, EnsureShell, EnsureLock, EnsureCheck, EnsureScript, NewShell,
         OpenShell, StartShell, EnsureErr
<1>5. DataTypeOK'
  BY SessionAssumption DEF SessionAssumption, TypeOK, DataTypeOK, EnsureShell, EnsureLock,
         EnsureCheck, EnsureScript, NewShell, OpenShell, StartShell
<1>6. cl[g] \in 0..MaxConn /\ sh[g] \in 0..MaxShell /\ 0 \in 0..MaxConn /\ 0 \in 0..MaxShell
  BY <1>1, SessionAssumption DEF SessionAssumption, TypeOK, LocalTypeOK
<1>7. ShellTypeOK'
  <2>1. CASE EnsureCheck(g)
    BY <2>1, <1>6, CloseShellTyped DEF TypeOK, ShellTypeOK, EnsureCheck
  <2>2. CASE NewShell(g)
    <3>1. CASE started < MaxShell /\ started' = started + 1
      <4>1. started' \in 0..MaxShell
        BY <3>1, SessionAssumption DEF SessionAssumption, TypeOK, ShellTypeOK
      <4>2. shConn' \in [ShellIds -> 0..MaxConn] /\ shFlag' \in [ShellIds -> BOOLEAN]
        BY <2>2, <3>1, <1>6 DEF TypeOK, ShellTypeOK, DataTypeOK, NewShell, EnsureErr
      <4>3. shShim' \in [ShellIds -> BOOLEAN]
        BY <2>2, <3>1, <1>1 DEF TypeOK, ShellTypeOK, LocalTypeOK, NewShell, EnsureErr
      <4> QED BY <2>2, <4>1, <4>2, <4>3 DEF TypeOK, ShellTypeOK, NewShell
    <3>2. CASE UNCHANGED <<started, shConn, shFlag, shShim>>
      BY <2>2, <3>2 DEF TypeOK, ShellTypeOK, NewShell
    <3> QED BY <2>2, <3>1, <3>2 DEF NewShell
  <2>3. CASE OpenShell(g)
    BY <2>3 DEF TypeOK, ShellTypeOK, OpenShell
  <2>4. CASE StartShell(g)
    <3>1. alive' \in [ShellIds -> BOOLEAN] /\ pending' \in [ShellIds -> Procs \cup {None}]
      BY <2>4, CloseShellTyped DEF TypeOK, ShellTypeOK, StartShell
    <3>2. shell' \in 0..MaxShell /\ shellType' \in 0..MaxShell
      BY <2>4, <1>6 DEF TypeOK, ShellTypeOK, StartShell
    <3> QED BY <2>4, <3>1, <3>2 DEF TypeOK, ShellTypeOK, StartShell
  <2>5. CASE EnsureLock(g) \/ EnsureScript(g)
    BY <2>5 DEF TypeOK, ShellTypeOK, EnsureLock, EnsureScript
  <2> QED BY <2>1, <2>2, <2>3, <2>4, <2>5 DEF EnsureShell
<1>8. LocalTypeOK'
  <2>1. CASE EnsureLock(g)
    BY <2>1 DEF TypeOK, LocalTypeOK, ConnTypeOK, EnsureLock
  <2>2. CASE EnsureCheck(g)
    BY <2>2, <1>6 DEF TypeOK, LocalTypeOK, ShellTypeOK, EnsureCheck
  <2>3. CASE EnsureScript(g)
    BY <2>3 DEF TypeOK, LocalTypeOK, DataTypeOK, EnsureScript
  <2>4. CASE NewShell(g)
    <3>1. CASE started < MaxShell /\ started' = started + 1 /\ UNCHANGED cl
               /\ sh' = [sh EXCEPT ![g] = started']
      <4>1. started' \in 0..MaxShell
        BY <3>1, SessionAssumption DEF SessionAssumption, TypeOK, ShellTypeOK
      <4> QED BY <2>4, <3>1, <4>1 DEF TypeOK, LocalTypeOK, NewShell
    <3>2. CASE EnsureErr(g)
      BY <2>4, <3>2, <1>6 DEF TypeOK, LocalTypeOK, NewShell, EnsureErr
    <3> QED BY <2>4, <3>1, <3>2 DEF NewShell
  <2>5. CASE OpenShell(g)
    BY <2>5, <1>6 DEF TypeOK, LocalTypeOK, OpenShell, EnsureErr
  <2>6. CASE StartShell(g)
    BY <2>6, <1>6 DEF TypeOK, LocalTypeOK, StartShell, EnsureErr
  <2> QED BY <2>1, <2>2, <2>3, <2>4, <2>5, <2>6 DEF EnsureShell
<1> QED BY <1>2, <1>3, <1>4, <1>5, <1>7, <1>8 DEF TypeOK

\* A step of Exec or Transfer outside the operations they call keeps every type.
LEMMA ExecTyped == ASSUME TypeOK, NEW g \in Procs, Exec(g) \/ Transfer(g) PROVE TypeOK'
<1> USE DEF connVars, shellVars, dataVars, lockVars, goVars, Exec, Transfer, ExecLock,
        ExecUnlock, Dispatch, Write, Result, RunErr, ExecOk, ExecErr, HomeRead, HomeSnapshot,
        HomeFetch, HomeStore, Copy
<1>1. g \in Goroutines
  BY DEF Goroutines
<1>2. PCTypeOK'
  <2>1. PICK label \in CallerPCs : Goto(g, label)
    BY DEF CallerPCs, PCs, RunPCs
  <2> QED BY <2>1, CallerGoto DEF TypeOK
<1>3. ConnTypeOK'
  BY DEF TypeOK, ConnTypeOK
<1>4. cl[g] \in 0..MaxConn /\ sh[g] \in 0..MaxShell /\ 0 \in 0..MaxConn /\ 0 \in 0..MaxShell
  BY <1>1, SessionAssumption DEF SessionAssumption, TypeOK, LocalTypeOK
<1>5. DataTypeOK'
  BY <1>4 DEF TypeOK, DataTypeOK
<1>6. LockTypeOK'
  BY DEF TypeOK, LockTypeOK
<1>7. ShellTypeOK'
  <2>1. CASE RunErr(g)
    BY <2>1, CloseShellTyped DEF TypeOK, ShellTypeOK
  <2>2. CASE ~RunErr(g)
    BY <2>2 DEF TypeOK, ShellTypeOK
  <2> QED BY <2>1, <2>2
<1>8. LocalTypeOK'
  BY <1>4 DEF TypeOK, LocalTypeOK, ConnTypeOK
<1> QED BY <1>2, <1>3, <1>5, <1>6, <1>7, <1>8 DEF TypeOK

\* A step of keepaliveLoop outside Disconnect keeps every type.
LEMMA KeepaliveTyped == ASSUME TypeOK, NEW g \in ConnIds, KeepaliveLoop(g) PROVE TypeOK'
<1> USE DEF connVars, shellVars, dataVars, lockVars, goVars, KeepaliveLoop, KeepaliveCapture,
        KeepaliveStop, KeepaliveTick, KeepaliveSent, KeepaliveLost
<1>1. g \in Goroutines
  BY DEF Goroutines
<1>2. PCTypeOK'
  <2>1. PICK label \in {"k_loop", "k_send", "exited", "d_lock"} : Goto(g, label)
    OBVIOUS
  <2>2. MayStandAt(g, label)
    BY SessionAssumption DEF SessionAssumption, ConnIds, MayStandAt, KeeperPCs
  <2> QED BY <1>1, <2>1, <2>2, GotoTyped DEF TypeOK
<1>3. ConnTypeOK' /\ DataTypeOK' /\ LockTypeOK' /\ ShellTypeOK'
  BY DEF TypeOK, ConnTypeOK, DataTypeOK, LockTypeOK, ShellTypeOK
<1>4. LocalTypeOK'
  BY SessionAssumption DEF SessionAssumption, TypeOK, LocalTypeOK, ConnTypeOK
<1> QED BY <1>2, <1>3, <1>4 DEF TypeOK

\* A new call, and whatever happens around the session, keep every type.
LEMMA OutsideTyped ==
  ASSUME TypeOK, Environment \/ \E g \in Procs, o \in Entry \ {"update"} : Begin(g, o)
  PROVE  TypeOK'
<1> USE DEF connVars, shellVars, dataVars, lockVars, goVars
<1>1. CASE ToggleSafeRm
  BY <1>1 DEF ToggleSafeRm, TypeOK, ConnTypeOK, DataTypeOK, LockTypeOK, ShellTypeOK,
              PCTypeOK, LocalTypeOK
<1>2. ASSUME NEW c \in ConnIds, Stall(c) \/ Hang(c) \/ Drop(c) PROVE TypeOK'
  <2>1. link' \in [ConnIds -> Links]
    BY <1>2 DEF Stall, Hang, Drop, Degrade, TypeOK, ConnTypeOK, Links
  <2> QED BY <1>2, <2>1 DEF Stall, Hang, Drop, Degrade, TypeOK, ConnTypeOK, DataTypeOK,
              LockTypeOK, ShellTypeOK, PCTypeOK, LocalTypeOK
<1>3. ASSUME NEW k \in ShellIds, ShellDies(k) PROVE TypeOK'
  BY <1>3, MarkDeadTyped DEF ShellDies, TypeOK, ConnTypeOK, DataTypeOK,
              LockTypeOK, ShellTypeOK, PCTypeOK, LocalTypeOK
<1>4. ASSUME NEW g \in Procs, NEW o \in Entry \ {"update"}, Begin(g, o) PROVE TypeOK'
  <2>1. \A c \in ConnIds : c \notin Procs
    BY SessionAssumption DEF SessionAssumption, ConnIds
  <2>2. o \in Ops /\ o # "keepalive"
    BY SessionAssumption DEF SessionAssumption, Ops
  <2>3. PICK label \in {"x_lock", "d_lock", "c_lock"} : Label(g, label)
    BY <1>4 DEF Begin
  <2>4. label \in PCs /\ label \in CallerPCs
    BY DEF PCs, CallerPCs
  <2>5. pc' \in [Goroutines -> PCs]
    BY <2>3, <2>4 DEF Label, TypeOK, PCTypeOK
  <2>8. op' \in [Goroutines -> Ops]
    BY <1>4, <2>2 DEF Begin, TypeOK, PCTypeOK
  <2>6. \A p \in Procs : pc'[p] \in CallerPCs /\ op'[p] # "keepalive"
    BY <1>4, <2>2, <2>3, <2>4 DEF Begin, Label, TypeOK, PCTypeOK, Goroutines
  <2>7. \A c \in ConnIds : pc'[c] \in KeeperPCs /\ op'[c] = "keepalive"
    BY <1>4, <2>1, <2>3 DEF Begin, Label, TypeOK, PCTypeOK, Goroutines
  <2> QED BY <1>4, <2>5, <2>6, <2>7, <2>8 DEF Begin, TypeOK, ConnTypeOK, DataTypeOK,
              LockTypeOK, ShellTypeOK, PCTypeOK, LocalTypeOK
<1> QED BY <1>1, <1>2, <1>3, <1>4 DEF Environment

\* Every step keeps every type.
LEMMA TypeStep == ASSUME TypeOK, [Next]_vars PROVE TypeOK'
<1>1. CASE UNCHANGED vars
  BY <1>1 DEF vars, connVars, shellVars, dataVars, lockVars, goVars, TypeOK, ConnTypeOK,
              DataTypeOK, LockTypeOK, ShellTypeOK, PCTypeOK, LocalTypeOK
<1>2. ASSUME NEW g \in Procs, CallerStep(g) PROVE TypeOK'
  <2>1. g \in Goroutines
    BY DEF Goroutines
  <2> QED BY <1>2, <2>1, ConnectTyped, DisconnectTyped, EnsureTyped, ExecTyped DEF CallerStep
<1>3. ASSUME NEW g \in ConnIds, KeeperStep(g) PROVE TypeOK'
  <2>1. g \in Goroutines
    BY DEF Goroutines
  <2> QED BY <1>3, <2>1, KeepaliveTyped, DisconnectTyped DEF KeeperStep
<1> QED BY <1>1, <1>2, <1>3, OutsideTyped DEF Next

\* The initial state is typed.
LEMMA TypeInit == ASSUME Init PROVE TypeOK
<1> USE SessionAssumption DEF SessionAssumption, Init
<1>1. ConnTypeOK
  <2>1. link \in [ConnIds -> Links]
    BY DEF Links
  <2>2. 0 \in 0..MaxConn
    OBVIOUS
  <2> QED BY <2>1, <2>2, Zenon DEF ConnTypeOK
<1>6. DataTypeOK
  BY DEF DataTypeOK
<1>4. ShellTypeOK /\ LockTypeOK
  BY DEF ShellTypeOK, LockTypeOK
<1>5. LocalTypeOK
  BY DEF LocalTypeOK
<1>2. \A c \in ConnIds : c \in Goroutines /\ c \notin Procs
  BY SMTT(30) DEF Goroutines, ConnIds
<1>3. PCTypeOK
  BY <1>2 DEF PCTypeOK, PCs, Ops, CallerPCs, KeeperPCs, Goroutines
<1> QED BY <1>1, <1>3, <1>4, <1>5, <1>6 DEF TypeOK

\* Every variable keeps its type: the invariant TypeOK of RemoteSession.
THEOREM TypeCorrect == Spec => []TypeOK
<1>1. TypeOK /\ [Next]_vars => TypeOK'
  BY TypeStep
<1> QED BY <1>1, TypeInit, PTL DEF Spec

-----------------------------------------------------------------------------
(* The invariant SessionInv. *)

ConnHolders  == ConnectPCs \cup DisconnectPCs
ShellHolders == EnsurePCs \cup {"d_shell"}
ClosingPCs   == {"d_close", "d_shlock", "d_shell"}

\* A client is published or being closed: a shell may exist.
Open == conn # 0 \/ Closing

\* A step of g alone: it goes to label and touches no other goroutine's locals.
Moves(g, label) ==
  /\ pc'[g] = label
  /\ \A h \in Goroutines : h # g => pc'[h] = pc[h] /\ cl'[h] = cl[h] /\ sh'[h] = sh[h]

\* Every action that uses Goto and writes only its own locals is such a step.
LEMMA GotoMoves ==
  ASSUME TypeOK, NEW g \in Goroutines, NEW label, Goto(g, label),
         NEW c, cl' = cl \/ cl' = [cl EXCEPT ![g] = c],
         NEW k, sh' = sh \/ sh' = [sh EXCEPT ![g] = k]
  PROVE  Moves(g, label)
<1>1. pc'[g] = label /\ \A h \in Goroutines : h # g => pc'[h] = pc[h]
  BY DEF Goto, Label, TypeOK, PCTypeOK
<1>2. \A h \in Goroutines : h # g => cl'[h] = cl[h] /\ sh'[h] = sh[h]
  BY DEF TypeOK, LocalTypeOK
<1> QED BY <1>1, <1>2 DEF Moves

\* connectLock and shellLock exclude: their holder is the one goroutine inside.
LEMMA OneHolder ==
  ASSUME LocksHeld, NEW g \in Goroutines, NEW h \in Goroutines
  PROVE  /\ pc[g] \in ConnHolders /\ pc[h] \in ConnHolders => g = h
         /\ pc[g] \in ShellHolders /\ pc[h] \in ShellHolders => g = h
BY DEF LocksHeld, ConnHolders, ShellHolders

\* A step keeps LocksHeld when g is inside after it exactly if it then holds the
\* lock, and the step takes the lock from nobody else.
LEMMA LocksMove ==
  ASSUME LocksHeld, NEW g \in Goroutines, NEW label, Moves(g, label),
         label \in ConnHolders <=> connectLock' = g,
         label \in ShellHolders <=> shellLock' = g,
         \A h \in Goroutines : h # g => /\ connectLock' = h <=> connectLock = h
                                        /\ shellLock' = h <=> shellLock = h
  PROVE  LocksHeld'
BY DEF LocksHeld, Moves, ConnHolders, ShellHolders

\* A step that leaves the clients alone keeps ConnNewest if its goroutine may be
\* where it goes.
LEMMA ConnKept ==
  ASSUME ConnNewest, NEW g \in Goroutines, NEW label, Moves(g, label),
         UNCHANGED <<conn, dialed>>,
         label \in {"c_stop", "c_dial", "c_shake"} \cup DisconnectPCs => conn = 0,
         label \in {"c_cwd", "c_keep"} => conn # 0
  PROVE  ConnNewest'
BY DEF ConnNewest, Moves

\* A step that does not end a closing keeps the session open.
LEMMA OpenKept ==
  ASSUME TypeOK, NEW g \in Goroutines, NEW label, Moves(g, label), Open,
         conn' = conn \/ label \in ClosingPCs,
         pc[g] \in ClosingPCs => label \in ClosingPCs
  PROVE  Open'
BY DEF Open, Closing, Moves, ClosingPCs

\* A step that starts no shell and stays out of EnsureShell keeps ShellNewest.
LEMMA ShellKept ==
  ASSUME ShellNewest, SessionAssumption, TypeOK, NEW g \in Goroutines, NEW label,
         Moves(g, label), shell' \in {0, shell}, UNCHANGED <<dialed, started, shConn>>,
         Open => Open', label \notin EnsurePCs, sh'[g] \in {0, sh[g]}
  PROVE  ShellNewest'
<1>1. shell' <= started' /\ \A h \in Goroutines : sh'[h] <= started'
  BY DEF ShellNewest, Moves, TypeOK, ShellTypeOK, LocalTypeOK, SessionAssumption
<1>2. shell' # 0 => shConn'[shell'] = dialed' /\ Open'
  BY DEF ShellNewest, Open
<1>3. ASSUME NEW h \in Goroutines, pc'[h] \in EnsurePCs
      PROVE  h # g /\ pc'[h] = pc[h] /\ cl'[h] = cl[h] /\ sh'[h] = sh[h]
  BY <1>3 DEF Moves
<1>4. \A h \in Goroutines :
        /\ pc'[h] \in EnsurePCs => cl'[h] = dialed' /\ dialed' # 0 /\ Open'
        /\ pc'[h] \in {"s_open", "s_start"} => sh'[h] # 0 /\ shConn'[sh'[h]] = dialed'
  BY <1>3 DEF ShellNewest, Open, EnsurePCs
<1> QED BY <1>1, <1>2, <1>4 DEF ShellNewest, Open

\* A step outside the critical sections keeps the invariant.
LEMMA QuietStep ==
  ASSUME SessionInv, NEW g \in Goroutines, NEW label, Moves(g, label),
         UNCHANGED <<conn, dialed, started, shell, shConn, connectLock, shellLock>>,
         label \notin ConnHolders \cup ShellHolders,
         pc[g] \notin ConnHolders \cup ShellHolders,
         sh'[g] \in {0, sh[g]}
  PROVE  LocksHeld' /\ ConnNewest' /\ ShellNewest'
<1>1. LocksHeld'
  <2>1. connectLock # g /\ shellLock # g
    BY DEF SessionInv, LocksHeld, ConnHolders, ShellHolders
  <2> QED BY <2>1, LocksMove DEF SessionInv
<1>2. ConnNewest'
  BY ConnKept DEF SessionInv, ConnHolders, ConnectPCs
<1>3. Open => Open'
  BY OpenKept DEF SessionInv, ClosingPCs, ConnHolders, DisconnectPCs
<1>4. ShellNewest'
  BY <1>3, ShellKept, SessionAssumption DEF SessionInv, ShellHolders
<1> QED BY <1>1, <1>2, <1>4

\* Exec and Transfer, outside the operations they call.
LEMMA ExecStep ==
  ASSUME SessionInv, NEW g \in Procs, Exec(g) \/ Transfer(g)
  PROVE  LocksHeld' /\ ConnNewest' /\ ShellNewest'
<1> USE DEF connVars, shellVars, dataVars, lockVars, goVars, Exec, Transfer, ExecLock,
        ExecUnlock, Dispatch, Write, Result, RunErr, ExecOk, ExecErr, HomeRead, HomeSnapshot,
        HomeFetch, HomeStore, Copy
<1>1. g \in Goroutines
  BY DEF Goroutines
<1>2. PICK label \in {"c_lock", "d_lock", "idle", "r_write", "r_wait", "x_cwd", "x_fail",
                      "x_unlock", "h_snap", "h_fetch", "h_store", "t_conn"} : Goto(g, label)
  OBVIOUS
<1>3. label \notin ConnHolders \cup ShellHolders
  BY DEF ConnHolders, ShellHolders, ConnectPCs, DisconnectPCs, EnsurePCs
<1>4. pc[g] \notin ConnHolders \cup ShellHolders
  BY DEF ConnHolders, ShellHolders, ConnectPCs, DisconnectPCs, EnsurePCs
<1>5. \E c : cl' = cl \/ cl' = [cl EXCEPT ![g] = c]
  OBVIOUS
<1>6. sh' = sh \/ sh' = [sh EXCEPT ![g] = 0]
  OBVIOUS
<1>7. Moves(g, label)
  BY <1>1, <1>2, <1>5, <1>6, GotoMoves DEF SessionInv
<1>8. sh'[g] \in {0, sh[g]}
  BY <1>1, <1>6 DEF SessionInv, TypeOK, LocalTypeOK
<1>9. UNCHANGED <<conn, dialed, started, shell, shConn, connectLock, shellLock>>
  OBVIOUS
<1> QED BY <1>1, <1>3, <1>4, <1>7, <1>8, <1>9, QuietStep

\* keepaliveLoop, outside Disconnect.
LEMMA KeepaliveStep ==
  ASSUME SessionInv, NEW g \in ConnIds, KeepaliveLoop(g)
  PROVE  LocksHeld' /\ ConnNewest' /\ ShellNewest'
<1> USE DEF connVars, shellVars, dataVars, lockVars, goVars, KeepaliveLoop, KeepaliveCapture,
        KeepaliveStop, KeepaliveTick, KeepaliveSent, KeepaliveLost
<1>1. g \in Goroutines
  BY DEF Goroutines
<1>2. PICK label \in {"k_loop", "k_send", "exited", "d_lock"} : Goto(g, label)
  OBVIOUS
<1>3. label \notin ConnHolders \cup ShellHolders /\ pc[g] \notin ConnHolders \cup ShellHolders
  BY DEF ConnHolders, ShellHolders, ConnectPCs, DisconnectPCs, EnsurePCs
<1>4. \E c : cl' = cl \/ cl' = [cl EXCEPT ![g] = c]
  OBVIOUS
<1>5. Moves(g, label)
  BY <1>1, <1>2, <1>4, GotoMoves DEF SessionInv
<1>6. UNCHANGED <<conn, dialed, started, shell, shConn, connectLock, shellLock, sh>>
  OBVIOUS
<1> QED BY <1>1, <1>3, <1>5, <1>6, QuietStep

\* Connect.
LEMMA ConnectStep ==
  ASSUME SessionInv, TypeOK', NEW g \in Procs, Connect(g)
  PROVE  LocksHeld' /\ ConnNewest' /\ ShellNewest'
<1> USE DEF connVars, shellVars, dataVars, lockVars, goVars
<1>1. g \in Goroutines /\ g # None
  BY SessionAssumption DEF SessionAssumption, Goroutines
<1>2. /\ AfterConnect(g) \notin ConnHolders \cup ShellHolders
      /\ AfterConnectErr(g) \notin ConnHolders \cup ShellHolders
  BY DEF AfterConnect, AfterConnectErr, ConnHolders, ShellHolders, ConnectPCs, DisconnectPCs,
         EnsurePCs
<1>3. \A label : Goto(g, label) /\ UNCHANGED <<cl, sh>> => Moves(g, label)
  BY <1>1, GotoMoves DEF SessionInv
<1>4. \A label \in ConnectPCs : label \in ConnHolders /\ label \notin ShellHolders
                                /\ label \notin ClosingPCs /\ label \notin EnsurePCs
  BY DEF ConnectPCs, ConnHolders, ShellHolders, ClosingPCs, EnsurePCs
<1>5. pc[g] \notin ClosingPCs /\ pc[g] \notin ShellHolders /\ shellLock # g
  BY <1>1 DEF Connect, ConnectLock, ConnectStop, Dial, Handshake, ResetCwd, StartKeepalive,
         ClosingPCs, ShellHolders, EnsurePCs, SessionInv, LocksHeld
<1>6. ASSUME NEW label, Goto(g, label), label \in ConnectPCs \/ label = AfterConnectErr(g),
             UNCHANGED <<cl, sh, conn, dialed, started, shell, shConn, shellLock>>,
             conn = 0 <=> label \notin {"c_cwd", "c_keep"},
             label \in ConnectPCs => connectLock' = g,
             label \notin ConnectPCs => connectLock' = None,
             connectLock \in {None, g}
      PROVE  LocksHeld' /\ ConnNewest' /\ ShellNewest'
  <2>1. Moves(g, label)
    BY <1>3, <1>6
  <2>2. label \notin ShellHolders /\ label \notin DisconnectPCs /\ label \notin EnsurePCs
    BY <1>2, <1>4, <1>6 DEF ConnHolders, ShellHolders, ConnectPCs, DisconnectPCs
  <2>3. LocksHeld'
    <3>1. label \in ConnHolders <=> connectLock' = g
      BY <1>1, <1>2, <1>4, <1>6 DEF ConnHolders
    <3>2. label \in ShellHolders <=> shellLock' = g
      BY <1>5, <1>6, <2>2
    <3>3. \A h \in Goroutines : h # g => (connectLock' = h <=> connectLock = h)
      BY <1>6, SessionAssumption DEF SessionAssumption
    <3> QED BY <1>1, <1>6, <2>1, <3>1, <3>2, <3>3, LocksMove DEF SessionInv
  <2>4. ConnNewest'
    BY <1>1, <1>6, <2>1, <2>2, ConnKept DEF SessionInv
  <2>5. Open => Open'
    BY <1>1, <1>5, <1>6, <2>1, OpenKept DEF SessionInv
  <2> QED BY <1>1, <1>6, <2>1, <2>2, <2>3, <2>4, <2>5, ShellKept, SessionAssumption
             DEF SessionInv
<1>7. \A label \in ConnectPCs : pc[g] = label => connectLock = g
  BY <1>1 DEF SessionInv, LocksHeld
<1>8. /\ pc[g] \in {"c_stop", "c_dial", "c_shake"} => conn = 0
      /\ pc[g] \in {"c_cwd", "c_keep"} => conn # 0
  BY <1>1 DEF SessionInv, ConnNewest
<1>9. CASE ConnectLock(g)
  <2>1. CASE Connected
    BY <1>1, <1>2, <1>3, <1>9, <2>1, QuietStep
       DEF ConnectLock, ConnHolders, ShellHolders, ConnectPCs, DisconnectPCs, EnsurePCs
  <2>2. CASE ~Connected
    BY <1>6, <1>9, <2>2 DEF ConnectLock, Connected, ConnectUnlocked, ConnectPCs
  <2> QED BY <2>1, <2>2
<1>10. CASE ConnectStop(g)
  BY <1>6, <1>7, <1>8, <1>10 DEF ConnectStop, ConnectPCs
<1>11. CASE Dial(g)
  BY <1>6, <1>7, <1>8, <1>11, <1>2 DEF Dial, ConnectErr, ConnectPCs, ConnHolders, AfterConnectErr
<1>12. CASE ResetCwd(g)
  BY <1>6, <1>7, <1>8, <1>12 DEF ResetCwd, ConnectPCs
<1>13. CASE Handshake(g) /\ UNCHANGED <<conn, dialed, link>>
  BY <1>6, <1>7, <1>8, <1>13, <1>2 DEF Handshake, ConnectErr, ConnectPCs, AfterConnectErr, TypeOK, SessionInv, ConnTypeOK
<1>14. CASE Handshake(g) /\ conn' = dialed' /\ dialed' = dialed + 1
  <2>1. pc[g] = "c_shake" /\ connectLock = g /\ conn = 0 /\ connectLock' = g
    BY <1>7, <1>8, <1>14 DEF Handshake, ConnectErr, ConnectPCs, SessionInv, TypeOK, ConnTypeOK
  <2>2. Goto(g, "c_cwd") /\ UNCHANGED <<cl, sh, started, shell, shConn, shellLock>>
    BY <1>14, <2>1 DEF Handshake, SessionInv, TypeOK, ConnTypeOK
  <2>3. Moves(g, "c_cwd")
    BY <1>3, <2>2
  <2>4. \A h \in Goroutines : pc[h] \in ConnHolders => h = g
    BY <1>1, <2>1, OneHolder DEF SessionInv, ConnHolders, ConnectPCs
  <2>5. ~Open
    BY <2>1, <2>4 DEF Open, Closing, ConnHolders, DisconnectPCs
  <2>6. shell = 0 /\ \A h \in Goroutines : pc[h] \notin EnsurePCs
    BY <2>5 DEF Open, SessionInv, ShellNewest
  <2>7. LocksHeld'
    BY <1>1, <1>4, <1>5, <2>1, <2>2, <2>3, LocksMove DEF SessionInv, ConnectPCs
  <2>8. ConnNewest'
    <3>1. conn' # 0
      BY <1>14 DEF SessionInv, TypeOK, ConnTypeOK
    <3> QED BY <1>14, <2>3, <2>4, <3>1 DEF ConnNewest, Moves, ConnHolders, ConnectPCs,
               DisconnectPCs
  <2>9. ShellNewest'
    BY <1>1, <2>2, <2>3, <2>6 DEF SessionInv, ShellNewest, Moves, EnsurePCs
  <2> QED BY <2>7, <2>8, <2>9
<1>15. CASE StartKeepalive(g)
  <2>1. pc[g] = "c_keep" /\ connectLock = g /\ conn # 0 /\ connectLock' = None
    BY <1>7, <1>8, <1>15 DEF StartKeepalive, ConnectPCs
  <2>2. UNCHANGED <<cl, sh, conn, dialed, started, shell, shConn, shellLock>>
    BY <1>15 DEF StartKeepalive
  <2>3. \A h \in Goroutines : pc[h] \in ConnHolders => h = g
    BY <1>1, <2>1, OneHolder DEF SessionInv, ConnHolders, ConnectPCs
  <2>4. \A c \in ConnIds : c \in Goroutines /\ c # g
    BY SessionAssumption DEF SessionAssumption, Goroutines, ConnIds
  <2>5. \A c \in ConnIds : pc[c] \notin ConnHolders \cup ShellHolders
    BY <2>3, <2>4 DEF SessionInv, TypeOK, PCTypeOK, KeeperPCs, ConnHolders, ShellHolders,
       DisconnectPCs, EnsurePCs
  <2>6. "k_new" \notin ConnHolders \cup ShellHolders
    BY DEF ConnHolders, ShellHolders, ConnectPCs, DisconnectPCs, EnsurePCs
  <2>7. \A h \in Goroutines : \/ pc'[h] = pc[h] /\ h # g
                             \/ /\ pc'[h] \notin ConnHolders \cup ShellHolders
                                /\ h = g \/ pc[h] \notin ConnHolders \cup ShellHolders
    <3>1. ASSUME NEW h \in Goroutines, h # g, h # dialed PROVE pc'[h] = pc[h]
      BY <1>15, <3>1 DEF StartKeepalive, SessionInv, TypeOK, PCTypeOK
    <3>2. ASSUME NEW h \in Goroutines, h # g, h = dialed
          PROVE  pc'[h] = "k_new" /\ h \in ConnIds
      <4>1. h \in ConnIds
        BY <3>2, SessionAssumption
           DEF SessionAssumption, SessionInv, TypeOK, ConnTypeOK, Goroutines, ConnIds
      <4> QED BY <1>15, <3>2, <4>1 DEF StartKeepalive, SessionInv, TypeOK, PCTypeOK
    <3>3. pc'[g] = AfterConnect(g)
      <4>1. dialed # g
        BY SessionAssumption DEF SessionAssumption, SessionInv, TypeOK, ConnTypeOK
      <4> QED BY <1>1, <1>15, <4>1 DEF StartKeepalive, SessionInv, TypeOK, PCTypeOK
    <3> QED BY <1>2, <2>5, <2>6, <3>1, <3>2, <3>3
  <2>8. LocksHeld'
    BY <1>1, <1>5, <2>1, <2>2, <2>3, <2>7, SessionAssumption
       DEF SessionAssumption, SessionInv, LocksHeld, ConnHolders, ShellHolders
  <2>9. ConnNewest'
    BY <2>1, <2>2, <2>3, <2>7 DEF SessionInv, ConnNewest, ConnHolders, ConnectPCs, DisconnectPCs
  <2>10. ShellNewest'
    BY <2>1, <2>2, <2>7 DEF SessionInv, ShellNewest, ShellHolders, EnsurePCs
  <2> QED BY <2>8, <2>9, <2>10
<1>16. Handshake(g) => \/ UNCHANGED <<conn, dialed, link>>
                       \/ conn' = dialed' /\ dialed' = dialed + 1
  BY DEF Handshake
<1> QED BY <1>9, <1>10, <1>11, <1>12, <1>13, <1>14, <1>15, <1>16 DEF Connect

\* Disconnect.
LEMMA DisconnectStep ==
  ASSUME SessionInv, TypeOK', NEW g \in Goroutines, Disconnect(g)
  PROVE  LocksHeld' /\ ConnNewest' /\ ShellNewest'
<1> USE DEF connVars, shellVars, dataVars, lockVars, goVars
<1>1. g # None /\ \A h \in Goroutines : h # None
  BY SessionAssumption DEF SessionAssumption
<1>2. PICK label : Goto(g, label) /\ label \in {"d_close", "d_shlock", "d_shell", "d_relay",
                                                 AfterDisconnect(g)}
  BY DEF Disconnect, Claim, CloseClient, TeardownLock, TeardownShell, TeardownRelay
<1>3. Moves(g, label)
  <2>1. \E c : cl' = cl \/ cl' = [cl EXCEPT ![g] = c]
    BY DEF Disconnect, Claim, CloseClient, TeardownLock, TeardownShell, TeardownRelay
  <2>2. sh' = sh \/ sh' = [sh EXCEPT ![g] = 0]
    BY DEF Disconnect, Claim, CloseClient, TeardownLock, TeardownShell, TeardownRelay
  <2> QED BY <1>2, <2>1, <2>2, GotoMoves DEF SessionInv
<1>4. sh'[g] \in {0, sh[g]} /\ label \notin EnsurePCs
  <2>1. sh'[g] \in {0, sh[g]}
    BY DEF Disconnect, Claim, CloseClient, TeardownLock, TeardownShell, TeardownRelay,
           SessionInv, TypeOK, LocalTypeOK
  <2> QED BY <1>2, <2>1 DEF AfterDisconnect, EnsurePCs
<1>5. UNCHANGED <<dialed, started, shConn>> /\ shell' \in {0, shell}
  BY DEF Disconnect, Claim, CloseClient, TeardownLock, TeardownShell, ForgetShell, TeardownRelay
<1>6. /\ pc[g] \in DisconnectPCs => connectLock = g /\ conn = 0
      /\ pc[g] = "d_shell" => shellLock = g
      /\ pc[g] # "d_shell" /\ pc[g] \notin EnsurePCs => shellLock # g
  BY DEF SessionInv, LocksHeld, ConnNewest
<1>7. AfterDisconnect(g) \notin ConnHolders \cup ShellHolders \cup ClosingPCs
  BY DEF AfterDisconnect, ConnHolders, ShellHolders, ConnectPCs, DisconnectPCs, EnsurePCs,
         ClosingPCs
<1>8. pc'[g] = label
  BY <1>3 DEF Moves
<1>9. CASE Claim(g)
  <2>1. label = "d_close" /\ connectLock = None /\ connectLock' = g /\ conn' = 0
        /\ UNCHANGED shellLock /\ pc[g] = "d_lock"
    BY <1>2, <1>9, <1>8, <1>3 DEF Claim, Goto, Label, Moves, ConnectUnlocked, SessionInv, TypeOK, PCTypeOK
  <2>2. LocksHeld'
    BY <1>1, <1>3, <1>6, <2>1, LocksMove
       DEF SessionInv, ConnHolders, ShellHolders, DisconnectPCs, EnsurePCs
  <2>3. \A h \in Goroutines : pc[h] \notin ConnHolders
    BY <1>1, <2>1 DEF SessionInv, LocksHeld, ConnHolders
  <2>4. ConnNewest'
    BY <1>3, <1>5, <2>1, <2>3 DEF ConnNewest, Moves, ConnHolders, ConnectPCs
  <2>5. Open'
    BY <1>8, <2>1 DEF Open, Closing
  <2> QED BY <1>3, <1>4, <1>5, <2>2, <2>4, <2>5, ShellKept, SessionAssumption DEF SessionInv
<1>10. CASE CloseClient(g)
  <2>1. label = "d_shlock" /\ UNCHANGED <<connectLock, shellLock, conn>> /\ pc[g] = "d_close"
    BY <1>2, <1>10, <1>8, <1>3 DEF CloseClient, Goto, Label, Moves, SessionInv, TypeOK, PCTypeOK
  <2> QED BY <1>3, <1>4, <1>5, <1>6, <2>1, LocksMove, ConnKept, OpenKept, ShellKept,
             SessionAssumption
          DEF SessionInv, ConnHolders, ShellHolders, DisconnectPCs, EnsurePCs, ClosingPCs
<1>11. CASE TeardownLock(g)
  <2>1. label = "d_shell" /\ UNCHANGED <<connectLock, conn>> /\ pc[g] = "d_shlock"
        /\ shellLock = None /\ shellLock' = g
    BY <1>2, <1>11, <1>8, <1>3 DEF TeardownLock, ShellUnlocked, Goto, Label, Moves, SessionInv, TypeOK, PCTypeOK
  <2> QED BY <1>1, <1>3, <1>4, <1>5, <1>6, <2>1, LocksMove, ConnKept, OpenKept, ShellKept,
             SessionAssumption
          DEF SessionInv, ConnHolders, ShellHolders, DisconnectPCs, EnsurePCs, ClosingPCs
<1>12. CASE TeardownShell(g)
  <2>1. label = "d_relay" /\ UNCHANGED <<connectLock, conn>> /\ pc[g] = "d_shell"
        /\ shellLock' = None /\ shell' = 0
    BY <1>2, <1>12, <1>8, <1>3 DEF TeardownShell, ForgetShell, Goto, Label, Moves, SessionInv, TypeOK, PCTypeOK
  <2>2. LocksHeld'
    BY <1>1, <1>3, <1>6, <2>1, LocksMove
       DEF SessionInv, ConnHolders, ShellHolders, DisconnectPCs, EnsurePCs
  <2>3. ConnNewest'
    BY <1>3, <1>5, <1>6, <2>1, ConnKept DEF SessionInv, DisconnectPCs
  <2>4. \A h \in Goroutines : pc'[h] \notin EnsurePCs
    BY <1>3, <1>4, <1>6, <2>1, OneHolder DEF SessionInv, Moves, ShellHolders
  <2>5. \A h \in Goroutines : sh'[h] <= started'
    BY <1>3, <1>4, <1>5, SessionAssumption
       DEF Moves, SessionInv, ShellNewest, TypeOK, ShellTypeOK, SessionAssumption
  <2>6. shell' <= started' /\ \A h \in Goroutines : pc'[h] \notin {"s_open", "s_start"}
    BY <1>5, <2>1, <2>4, SessionAssumption
       DEF SessionInv, TypeOK, ShellTypeOK, SessionAssumption, EnsurePCs
  <2> QED BY <2>1, <2>2, <2>3, <2>4, <2>5, <2>6 DEF ShellNewest
<1>13. CASE TeardownRelay(g)
  <2>1. label = AfterDisconnect(g) /\ connectLock' = None /\ UNCHANGED <<shellLock, conn>>
        /\ pc[g] = "d_relay"
    BY <1>2, <1>13, <1>8, <1>3 DEF TeardownRelay, Goto, Label, Moves, SessionInv, TypeOK, PCTypeOK
  <2>2. label \notin DisconnectPCs /\ label \notin {"c_stop", "c_dial", "c_shake", "c_cwd", "c_keep"}
    BY <1>7, <2>1 DEF ConnHolders, ConnectPCs
  <2> QED BY <1>1, <1>3, <1>4, <1>5, <1>6, <1>7, <2>1, <2>2, LocksMove, ConnKept, OpenKept, ShellKept,
             SessionAssumption
          DEF SessionInv, ConnHolders, ShellHolders, DisconnectPCs, EnsurePCs, ClosingPCs
<1> QED BY <1>9, <1>10, <1>11, <1>12, <1>13 DEF Disconnect

\* EnsureShell.
LEMMA EnsureStep ==
  ASSUME SessionInv, TypeOK', NEW g \in Procs, EnsureShell(g)
  PROVE  LocksHeld' /\ ConnNewest' /\ ShellNewest'
<1> USE DEF connVars, shellVars, dataVars, lockVars, goVars
<1>1. g \in Goroutines /\ g # None /\ \A h \in Goroutines : h # None
  BY SessionAssumption DEF SessionAssumption, Goroutines
<1>2. PICK label : Goto(g, label) /\ label \in {"s_check", "s_script", "s_new", "s_open",
                      "s_start", AfterEnsure(g), AfterEnsureErr(g)}
  BY DEF EnsureShell, EnsureLock, EnsureCheck, EnsureScript, NewShell, OpenShell, StartShell,
         EnsureErr
<1>3. Moves(g, label)
  <2>1. \E c : cl' = cl \/ cl' = [cl EXCEPT ![g] = c]
    BY DEF EnsureShell, EnsureLock, EnsureCheck, EnsureScript, NewShell, OpenShell, StartShell,
           EnsureErr
  <2>2. \E k : sh' = sh \/ sh' = [sh EXCEPT ![g] = k]
    BY DEF EnsureShell, EnsureLock, EnsureCheck, EnsureScript, NewShell, OpenShell, StartShell,
           EnsureErr
  <2> QED BY <1>1, <1>2, <2>1, <2>2, GotoMoves DEF SessionInv
<1>4. pc'[g] = label /\ (\A l : Goto(g, l) => l = label)
  BY <1>1, <1>2, <1>3 DEF Moves, Goto, Label, SessionInv, TypeOK, PCTypeOK
<1>5. /\ AfterEnsure(g) \notin ConnHolders \cup ShellHolders
      /\ AfterEnsureErr(g) \notin ConnHolders \cup ShellHolders
  BY DEF AfterEnsure, AfterEnsureErr, ConnHolders, ShellHolders, ConnectPCs, DisconnectPCs,
         EnsurePCs
<1>6. UNCHANGED <<conn, dialed, connectLock>>
  BY DEF EnsureShell, EnsureLock, EnsureCheck, EnsureScript, NewShell, OpenShell, StartShell
<1>7. pc[g] \notin ConnHolders /\ label \notin ConnHolders /\ connectLock # g
  <2>1. pc[g] \in EnsurePCs \cup {"s_lock"}
    BY DEF EnsureShell, EnsureLock, EnsureCheck, EnsureScript, NewShell, OpenShell, StartShell,
           EnsurePCs
  <2>2. pc[g] \notin ConnHolders
    BY <2>1 DEF EnsurePCs, ConnHolders, ConnectPCs, DisconnectPCs
  <2>3. connectLock # g
    BY <1>1, <2>2 DEF SessionInv, LocksHeld, ConnHolders
  <2> QED BY <1>2, <1>5, <2>2, <2>3 DEF ConnHolders, ConnectPCs, DisconnectPCs
<1>8. ConnNewest'
  BY <1>1, <1>3, <1>6, <1>7, ConnKept DEF SessionInv, ConnHolders, ConnectPCs
<1>9. Open => Open'
  BY <1>1, <1>3, <1>6, <1>7, OpenKept DEF SessionInv, ConnHolders, DisconnectPCs, ClosingPCs
<1>10. pc[g] \in EnsurePCs => /\ shellLock = g /\ cl[g] = dialed /\ dialed # 0 /\ Open
                              /\ \A h \in Goroutines : h # g => pc[h] \notin ShellHolders
  BY <1>1, OneHolder DEF SessionInv, LocksHeld, ShellNewest, Open, ShellHolders
<1>11. LocksHeld'
  <2>1. CASE shellLock' = g /\ shellLock \in {None, g} /\ label \in EnsurePCs
    BY <1>1, <1>3, <1>6, <1>7, <2>1, LocksMove DEF SessionInv, ShellHolders
  <2>2. CASE shellLock' = None /\ shellLock = g /\ label \notin ShellHolders
    BY <1>1, <1>3, <1>6, <1>7, <2>2, LocksMove DEF SessionInv
  <2>3. CASE UNCHANGED shellLock /\ shellLock # g /\ label \notin ShellHolders
    BY <1>1, <1>3, <1>6, <1>7, <2>3, LocksMove DEF SessionInv
  <2>4. pc[g] = "s_lock" => shellLock # g
    BY <1>1 DEF SessionInv, LocksHeld, EnsurePCs
  <2>5. \/ shellLock' = g /\ shellLock \in {None, g} /\ label \in EnsurePCs
        \/ shellLock' = None /\ shellLock = g /\ label \notin ShellHolders
        \/ UNCHANGED shellLock /\ shellLock # g /\ label \notin ShellHolders
    BY <1>4, <1>5, <1>10, <2>4
       DEF EnsureShell, EnsureLock, EnsureCheck, EnsureScript, NewShell, OpenShell, StartShell,
           EnsureErr, ShellUnlocked, EnsurePCs
  <2> QED BY <2>1, <2>2, <2>3, <2>5
<1>12. ASSUME UNCHANGED <<started, shConn>>, shell' \in {0, shell}, sh'[g] \in {0, sh[g]},
              label \notin EnsurePCs
       PROVE  ShellNewest'
  BY <1>1, <1>3, <1>6, <1>9, <1>12, ShellKept, SessionAssumption DEF SessionInv
<1>13. ASSUME pc[g] \in EnsurePCs \/ conn # 0, shell' \in {0, shell},
              UNCHANGED <<started, shConn>>,
              label \in {"s_check", "s_script", "s_new", "s_start"}, sh'[g] = sh[g],
              cl'[g] = IF pc[g] \in EnsurePCs THEN cl[g] ELSE conn,
              label = "s_start" => pc[g] = "s_open",
              \A h \in Goroutines : h # g => pc[h] \notin ShellHolders
       PROVE  ShellNewest'
  <2>1. cl'[g] = dialed' /\ dialed' # 0 /\ Open'
    BY <1>1, <1>6, <1>9, <1>10, <1>13 DEF SessionInv, ConnNewest, Open
  <2>2. label = "s_start" => sh'[g] # 0 /\ shConn'[sh'[g]] = dialed'
    BY <1>1, <1>6, <1>13 DEF SessionInv, ShellNewest
  <2>3. shell' <= started' /\ \A h \in Goroutines : sh'[h] <= started'
    BY <1>1, <1>3, <1>13, SessionAssumption
       DEF Moves, SessionInv, ShellNewest, TypeOK, ShellTypeOK, SessionAssumption
  <2>4. shell' # 0 => shConn'[shell'] = dialed'
    BY <1>6, <1>13 DEF SessionInv, ShellNewest
  <2>5. \A h \in Goroutines : h # g => pc'[h] \notin EnsurePCs
    BY <1>3, <1>13 DEF Moves, ShellHolders
  <2> QED BY <1>4, <1>13, <2>1, <2>2, <2>3, <2>4, <2>5 DEF ShellNewest, Open, EnsurePCs
<1>14. ASSUME EnsureLock(g) PROVE ShellNewest'
  <2>1. CASE conn = 0
    BY <1>1, <1>4, <1>5, <1>12, <1>14, <2>1
       DEF EnsureLock, ShellHolders, SessionInv, TypeOK, LocalTypeOK
  <2>2. CASE conn # 0
    <3>1. \A h \in Goroutines : pc[h] \notin ShellHolders
      BY <1>1, <1>14 DEF EnsureLock, ShellUnlocked, SessionInv, LocksHeld, ShellHolders
    <3>2. cl'[g] = conn /\ label = "s_check" /\ pc[g] \notin EnsurePCs
      BY <1>1, <1>4, <1>14, <2>2 DEF EnsureLock, SessionInv, TypeOK, LocalTypeOK, EnsurePCs
    <3> QED BY <1>13, <1>14, <2>2, <3>1, <3>2 DEF EnsureLock
  <2> QED BY <2>1, <2>2
<1>15. ASSUME EnsureCheck(g) PROVE ShellNewest'
  <2>1. CASE shell' = 0 /\ label = "s_script" /\ UNCHANGED <<sh, cl>>
    BY <1>1, <1>10, <1>13, <1>15, <2>1 DEF EnsureCheck, EnsurePCs
  <2>2. CASE UNCHANGED shell /\ label = AfterEnsure(g) /\ sh'[g] \in {0, shell}
    <3>1. Open'
      BY <1>9, <1>10, <1>15 DEF EnsureCheck, EnsurePCs
    <3>2. \A h \in Goroutines : sh'[h] <= started'
      BY <1>3, <1>15, <2>2, SessionAssumption
         DEF EnsureCheck, Moves, SessionInv, ShellNewest, TypeOK, ShellTypeOK, SessionAssumption
    <3>3. \A h \in Goroutines : pc'[h] \notin EnsurePCs
      BY <1>1, <1>3, <1>5, <1>10, <1>15, <2>2 DEF EnsureCheck, EnsurePCs, Moves, ShellHolders
    <3> QED BY <1>6, <1>15, <2>2, <3>1, <3>2, <3>3
            DEF EnsureCheck, SessionInv, ShellNewest, Open, EnsurePCs
  <2>3. sh' = [sh EXCEPT ![g] = IF op[g] = "exec" THEN shell ELSE 0] => sh'[g] \in {0, shell}
    BY <1>1 DEF SessionInv, TypeOK, LocalTypeOK
  <2> QED BY <1>4, <1>15, <2>1, <2>2, <2>3 DEF EnsureCheck
<1>16. ASSUME EnsureScript(g) PROVE ShellNewest'
  BY <1>1, <1>4, <1>10, <1>13, <1>16 DEF EnsureScript, EnsurePCs
<1>17. ASSUME EnsureErr(g), UNCHANGED <<started, shConn, shell>> PROVE ShellNewest'
  <2>1. sh'[g] = 0 /\ label \notin EnsurePCs
    BY <1>1, <1>4, <1>5, <1>17 DEF EnsureErr, ShellHolders, SessionInv, TypeOK, LocalTypeOK
  <2> QED BY <1>12, <1>17, <2>1
<1>18. ASSUME NewShell(g) PROVE ShellNewest'
  <2>1. CASE EnsureErr(g) /\ UNCHANGED <<started, shConn>>
    BY <1>17, <1>18, <2>1 DEF NewShell
  <2>2. CASE /\ started < MaxShell /\ started' = started + 1 /\ label = "s_open"
             /\ shConn' = [shConn EXCEPT ![started'] = cl[g]]
             /\ sh' = [sh EXCEPT ![g] = started'] /\ UNCHANGED cl
    <3>1. started' \in ShellIds /\ started \in Nat /\ shell \in Nat
      BY <2>2, SessionAssumption DEF SessionAssumption, SessionInv, TypeOK, ShellTypeOK, ShellIds
    <3>2. sh'[g] = started' /\ shConn'[started'] = dialed' /\ started' # 0
      BY <1>1, <1>6, <1>10, <1>18, <2>2, <3>1
         DEF NewShell, EnsurePCs, SessionInv, TypeOK, LocalTypeOK, ShellTypeOK
    <3>3. shell' <= started' /\ shell' # started' /\ UNCHANGED shell
      BY <1>18, <2>2, <3>1 DEF NewShell, SessionInv, ShellNewest
    <3>4. shell' # 0 => shConn'[shell'] = dialed'
      <4>1. shell # 0 => shell \in ShellIds
        BY SessionAssumption DEF SessionAssumption, SessionInv, TypeOK, ShellTypeOK, ShellIds
      <4> QED BY <1>6, <2>2, <3>3, <4>1 DEF SessionInv, ShellNewest, TypeOK, ShellTypeOK
    <3>5. \A h \in Goroutines : sh'[h] <= started'
      BY <1>3, <2>2, <3>1, <3>2, SessionAssumption
         DEF Moves, SessionInv, ShellNewest, TypeOK, LocalTypeOK, SessionAssumption
    <3>6. cl'[g] = dialed' /\ dialed' # 0 /\ Open'
      BY <1>6, <1>9, <1>10, <1>18, <2>2 DEF NewShell, EnsurePCs
    <3>7. \A h \in Goroutines : h # g => pc'[h] \notin EnsurePCs
      BY <1>3, <1>10, <1>18 DEF NewShell, EnsurePCs, Moves, ShellHolders
    <3> QED BY <3>2, <3>3, <3>4, <3>5, <3>6, <3>7 DEF ShellNewest, Open, EnsurePCs
  <2> QED BY <1>4, <1>18, <2>1, <2>2 DEF NewShell
<1>19. ASSUME OpenShell(g) PROVE ShellNewest'
  <2>1. CASE EnsureErr(g)
    BY <1>17, <1>19, <2>1 DEF OpenShell
  <2>2. CASE label = "s_start" /\ UNCHANGED <<sh, cl>>
    BY <1>1, <1>10, <1>13, <1>19, <2>2 DEF OpenShell, EnsurePCs
  <2> QED BY <1>4, <1>19, <2>1, <2>2 DEF OpenShell
<1>20. ASSUME StartShell(g) PROVE ShellNewest'
  <2>1. CASE EnsureErr(g) /\ UNCHANGED shell
    BY <1>17, <1>20, <2>1 DEF StartShell
  <2>2. CASE shell' = sh[g] /\ label = AfterEnsure(g)
             /\ sh' = [sh EXCEPT ![g] = IF op[g] = "exec" THEN @ ELSE 0]
    <3>1. shell' # 0 /\ shConn'[shell'] = dialed' /\ Open' /\ shell' <= started'
      BY <1>1, <1>6, <1>9, <1>10, <1>20, <2>2
         DEF StartShell, EnsurePCs, SessionInv, ShellNewest
    <3>2. sh'[g] \in {0, sh[g]}
      BY <1>1, <2>2 DEF SessionInv, TypeOK, LocalTypeOK
    <3>3. \A h \in Goroutines : sh'[h] <= started'
      BY <1>3, <1>20, <3>2, SessionAssumption
         DEF StartShell, Moves, SessionInv, ShellNewest, TypeOK, ShellTypeOK, SessionAssumption
    <3>4. \A h \in Goroutines : pc'[h] \notin EnsurePCs
      BY <1>1, <1>3, <1>5, <1>10, <1>20, <2>2 DEF StartShell, EnsurePCs, Moves, ShellHolders
    <3> QED BY <3>1, <3>3, <3>4 DEF ShellNewest, Open, EnsurePCs
  <2> QED BY <1>4, <1>20, <2>1, <2>2 DEF StartShell
<1> QED BY <1>8, <1>11, <1>14, <1>15, <1>16, <1>18, <1>19, <1>20 DEF EnsureShell

\* A new call, and whatever happens around the session.
LEMMA OutsideStep ==
  ASSUME SessionInv, Environment \/ \E g \in Procs, o \in Entry \ {"update"} : Begin(g, o)
  PROVE  LocksHeld' /\ ConnNewest' /\ ShellNewest'
<1> USE DEF connVars, shellVars, dataVars, lockVars, goVars
<1>1. CASE Environment
  <2>1. UNCHANGED <<conn, dialed, started, shell, shConn, connectLock, shellLock, pc, cl, sh>>
    BY <1>1 DEF Environment, ToggleSafeRm, Stall, Hang, Drop, Degrade, ShellDies
  <2> QED BY <2>1 DEF SessionInv, LocksHeld, ConnNewest, ShellNewest, Closing
<1>2. ASSUME NEW g \in Procs, NEW o \in Entry \ {"update"}, Begin(g, o)
      PROVE  LocksHeld' /\ ConnNewest' /\ ShellNewest'
  <2>1. g \in Goroutines
    BY DEF Goroutines
  <2>2. PICK label \in {"x_lock", "d_lock", "c_lock"} : Label(g, label)
    BY <1>2 DEF Begin
  <2>3. Moves(g, label)
    BY <1>2, <2>1, <2>2 DEF Begin, Label, Moves, SessionInv, TypeOK, PCTypeOK
  <2>4. label \notin ConnHolders \cup ShellHolders /\ pc[g] \notin ConnHolders \cup ShellHolders
    BY <1>2 DEF Begin, ConnHolders, ShellHolders, ConnectPCs, DisconnectPCs, EnsurePCs
  <2> QED BY <1>2, <2>1, <2>3, <2>4, QuietStep DEF Begin
<1> QED BY <1>1, <1>2

\* The initial state satisfies the invariant ...
LEMMA InvInit == ASSUME Init PROVE SessionInv
<1>1. \A g \in Goroutines : pc[g] \in {"idle", "exited"} /\ g # None /\ sh[g] = 0
  BY SessionAssumption DEF SessionAssumption, Init
<1>2. connectLock = None /\ shellLock = None /\ conn = 0 /\ dialed = 0 /\ shell = 0 /\ started = 0
  BY DEF Init
<1>3. LocksHeld
  BY <1>1, <1>2 DEF LocksHeld, ConnectPCs, DisconnectPCs, EnsurePCs
<1>4. ConnNewest /\ ShellNewest
  BY <1>1, <1>2 DEF ConnNewest, ShellNewest, DisconnectPCs, EnsurePCs
<1> QED BY <1>3, <1>4, TypeInit DEF SessionInv

\* ... and every step keeps it.
LEMMA InvStep == ASSUME SessionInv, [Next]_vars PROVE SessionInv'
<1>1. TypeOK'
  BY TypeStep DEF SessionInv
<1>2. CASE UNCHANGED vars
  BY <1>2 DEF vars, connVars, shellVars, dataVars, lockVars, goVars, SessionInv, TypeOK,
     ConnTypeOK, DataTypeOK, LockTypeOK, ShellTypeOK, PCTypeOK, LocalTypeOK, LocksHeld,
     ConnNewest, ShellNewest, Closing
<1>3. ASSUME NEW g \in Procs, CallerStep(g) PROVE LocksHeld' /\ ConnNewest' /\ ShellNewest'
  <2>1. g \in Goroutines
    BY DEF Goroutines
  <2> QED BY <1>1, <1>3, <2>1, ConnectStep, DisconnectStep, EnsureStep, ExecStep DEF CallerStep
<1>4. ASSUME NEW g \in ConnIds, KeeperStep(g) PROVE LocksHeld' /\ ConnNewest' /\ ShellNewest'
  <2>1. g \in Goroutines
    BY DEF Goroutines
  <2> QED BY <1>1, <1>4, <2>1, KeepaliveStep, DisconnectStep DEF KeeperStep
<1> QED BY <1>1, <1>2, <1>3, <1>4, OutsideStep DEF Next, SessionInv

\* The invariant SessionInv holds for every number of goroutines, clients, shells.
THEOREM SessionInvariant == Spec => []SessionInv
<1>1. SessionInv /\ [Next]_vars => SessionInv'
  BY InvStep
<1> QED BY <1>1, InvInit, PTL DEF Spec

\* A shell outlives no client: whenever no Connect or Disconnect is in progress the
\* shell the session holds runs on its current client.
THEOREM ShellIsOnCurrentClient == Spec => []NoStaleShell
<1>1. SessionInv => NoStaleShell
  <2> SUFFICES ASSUME SessionInv, connectLock = None, shell # 0 PROVE shConn[shell] = conn
    BY DEF NoStaleShell
  <2>1. ~Closing
    BY SessionAssumption
       DEF SessionAssumption, Closing, SessionInv, LocksHeld, ConnectPCs, DisconnectPCs
  <2> QED BY <2>1 DEF SessionInv, ConnNewest, ShellNewest
<1> QED BY <1>1, SessionInvariant, PTL
=============================================================================
