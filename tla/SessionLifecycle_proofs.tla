----------------------- MODULE SessionLifecycle_proofs -----------------------
(***************************************************************************)
(* What a RemoteSession keeps of its clients, relay, keepalive goroutines, *)
(* shells, commands and locks, and that it implements SessionLifecycle.    *)
(*                                                                         *)
(* Every proof starts from SessionInv of RemoteSession_proofs, which says  *)
(* who is inside the locks, and adds one conjunct at a time.               *)
(***************************************************************************)
EXTENDS RemoteSession_proofs

\* The goroutines that begin, run EnsureShell, a command, or a transfer leave the
\* clients alone and stay out of Connect and Disconnect.
LEMMA CallerQuiet ==
  ASSUME SessionInv, NEW g \in Procs,
         \/ EnsureShell(g) \/ Exec(g) \/ Transfer(g)
         \/ \E o \in Entry \ {"update"} : Begin(g, o)
  PROVE  \E label : /\ Moves(g, label)
                    /\ label \notin ConnHolders /\ pc[g] \notin ConnHolders
                    /\ UNCHANGED <<connVars, stop>>
<1> USE DEF connVars, shellVars, dataVars, lockVars, goVars
<1>1. g \in Goroutines
  BY DEF Goroutines
<1>2. CASE EnsureShell(g)
  <2> USE DEF EnsureShell, EnsureLock, EnsureCheck, EnsureScript, NewShell, OpenShell,
          StartShell, EnsureErr
  <2>1. PICK label \in {"s_check", "s_script", "s_new", "s_open", "s_start",
                        AfterEnsure(g), AfterEnsureErr(g)} : Goto(g, label)
    BY <1>2
  <2>2. label \notin ConnHolders /\ pc[g] \notin ConnHolders
    BY <1>2 DEF AfterEnsure, AfterEnsureErr, ConnHolders, ConnectPCs, DisconnectPCs
  <2>3. \E c : cl' = cl \/ cl' = [cl EXCEPT ![g] = c]
    BY <1>2
  <2>4. \E k : sh' = sh \/ sh' = [sh EXCEPT ![g] = k]
    BY <1>2
  <2>5. UNCHANGED <<connVars, stop>>
    BY <1>2
  <2> QED BY <1>1, <2>1, <2>2, <2>3, <2>4, <2>5, GotoMoves DEF SessionInv
<1>3. CASE Exec(g) \/ Transfer(g)
  <2> USE DEF Exec, Transfer, ExecLock, ExecUnlock, Dispatch, Write, Result, RunErr, ExecOk,
          ExecErr, HomeRead, HomeSnapshot, HomeFetch, HomeStore, Copy
  <2>1. PICK label \in {"c_lock", "d_lock", "idle", "r_write", "r_wait", "x_cwd", "x_fail",
                        "x_unlock", "h_snap", "h_fetch", "h_store", "t_conn"} : Goto(g, label)
    BY <1>3
  <2>2. label \notin ConnHolders /\ pc[g] \notin ConnHolders
    BY <1>3 DEF ConnHolders, ConnectPCs, DisconnectPCs
  <2>3. \E c : cl' = cl \/ cl' = [cl EXCEPT ![g] = c]
    BY <1>3
  <2>4. \E k : sh' = sh \/ sh' = [sh EXCEPT ![g] = k]
    BY <1>3
  <2>5. UNCHANGED <<connVars, stop>>
    BY <1>3
  <2> QED BY <1>1, <2>1, <2>2, <2>3, <2>4, <2>5, GotoMoves DEF SessionInv
<1>4. ASSUME NEW o \in Entry \ {"update"}, Begin(g, o)
      PROVE  \E label : /\ Moves(g, label)
                        /\ label \notin ConnHolders /\ pc[g] \notin ConnHolders
                        /\ UNCHANGED <<connVars, stop>>
  <2>1. PICK label \in {"x_lock", "d_lock", "c_lock"} : Label(g, label)
    BY <1>4 DEF Begin
  <2>2. Moves(g, label)
    BY <1>1, <1>4, <2>1 DEF Begin, Label, Moves, SessionInv, TypeOK, PCTypeOK
  <2> QED BY <1>4, <2>1, <2>2 DEF Begin, ConnHolders, ConnectPCs, DisconnectPCs
<1> QED BY <1>2, <1>3, <1>4

\* keepaliveLoop outside Disconnect leaves the clients alone.
LEMMA KeeperQuiet ==
  ASSUME SessionInv, NEW g \in ConnIds, KeepaliveLoop(g)
  PROVE  \E label : /\ Moves(g, label)
                    /\ label \notin ConnHolders /\ pc[g] \notin ConnHolders
                    /\ UNCHANGED connVars
<1> USE DEF connVars, shellVars, dataVars, lockVars, goVars, KeepaliveLoop, KeepaliveCapture,
        KeepaliveStop, KeepaliveTick, KeepaliveSent, KeepaliveLost
<1>1. g \in Goroutines
  BY DEF Goroutines
<1>2. PICK label \in {"k_loop", "k_send", "exited", "d_lock"} : Goto(g, label)
  OBVIOUS
<1>3. label \notin ConnHolders /\ pc[g] \notin ConnHolders
  BY DEF ConnHolders, ConnectPCs, DisconnectPCs
<1>4. \E c : cl' = cl \/ cl' = [cl EXCEPT ![g] = c]
  OBVIOUS
<1> QED BY <1>1, <1>2, <1>3, <1>4, GotoMoves DEF SessionInv

\* A step inside Connect or Disconnect is a step of the one goroutine there.
LEMMA Alone ==
  ASSUME SessionInv, NEW g \in Goroutines,
         pc[g] \in ConnHolders \/ connectLock = None, NEW h \in Goroutines, h # g
  PROVE  pc[h] \notin ConnHolders
<1>1. h # None
  BY SessionAssumption DEF SessionAssumption
<1> QED BY <1>1 DEF SessionInv, LocksHeld, ConnHolders

\* Every step of Connect but the start of the keepalive moves its goroutine alone.
LEMMA ConnectMoves ==
  ASSUME SessionInv, NEW g \in Procs, Connect(g), ~StartKeepalive(g)
  PROVE  \E label : Goto(g, label) /\ Moves(g, label) /\ UNCHANGED <<cl, sh>>
<1> USE DEF connVars, shellVars, dataVars, lockVars, goVars
<1>1. g \in Goroutines
  BY DEF Goroutines
<1>2. \E label : Goto(g, label) /\ UNCHANGED <<cl, sh>>
  BY DEF Connect, ConnectLock, ConnectStop, Dial, Handshake, ResetCwd, ConnectErr
<1> QED BY <1>1, <1>2, GotoMoves DEF SessionInv

\* The start of the keepalive also sets the goroutine of the new client going.
LEMMA KeepaliveStarts ==
  ASSUME SessionInv, NEW g \in Procs, StartKeepalive(g)
  PROVE  /\ pc[g] = "c_keep" /\ connectLock = g
         /\ dialed \in ConnIds /\ dialed \in Goroutines /\ dialed # g
         /\ conn = dialed /\ conn # 0
         /\ pc'[g] = AfterConnect(g) /\ pc'[dialed] = "k_new"
         /\ \A h \in Goroutines : h # g /\ h # dialed => pc'[h] = pc[h]
         /\ UNCHANGED <<cl, sh, conn, dialed, link, relay, closedCh, stop>>
         /\ keepaliveDone' = dialed
<1> USE DEF connVars, shellVars, dataVars, lockVars, goVars
<1>1. g \in Goroutines /\ dialed # g
  BY SessionAssumption DEF SessionAssumption, Goroutines, SessionInv, TypeOK, ConnTypeOK
<1>2. pc[g] = "c_keep" /\ connectLock = g /\ conn # 0
  BY <1>1 DEF StartKeepalive, SessionInv, LocksHeld, ConnectPCs, ConnNewest
<1>3. conn = dialed /\ dialed \in ConnIds /\ dialed \in Goroutines
  BY <1>2, SessionAssumption
     DEF SessionAssumption, SessionInv, ConnNewest, TypeOK, ConnTypeOK, ConnIds, Goroutines
<1> QED BY <1>1, <1>2, <1>3 DEF StartKeepalive, SessionInv, TypeOK, PCTypeOK, FreshChannel

\* A step of Disconnect moves its goroutine alone.
LEMMA DisconnectMoves ==
  ASSUME SessionInv, NEW g \in Goroutines, Disconnect(g)
  PROVE  \E label : Goto(g, label) /\ Moves(g, label)
<1> USE DEF connVars, shellVars, dataVars, lockVars, goVars
<1>1. PICK label : Goto(g, label)
  BY DEF Disconnect, Claim, CloseClient, TeardownLock, TeardownShell, TeardownRelay
<1>2. \E c : cl' = cl \/ cl' = [cl EXCEPT ![g] = c]
  BY DEF Disconnect, Claim, CloseClient, TeardownLock, TeardownShell, TeardownRelay
<1>3. sh' = sh \/ sh' = [sh EXCEPT ![g] = 0]
  BY DEF Disconnect, Claim, CloseClient, TeardownLock, TeardownShell, TeardownRelay
<1> QED BY <1>1, <1>2, <1>3, GotoMoves DEF SessionInv

-----------------------------------------------------------------------------
(* No client is lost: NoLeakedClient. *)

\* Every client dialed so far is published, over, or about to be closed by the
\* Disconnect that claimed it.
ClientsKnown ==
  \A c \in ConnIds : c <= dialed =>
    \/ c = conn \/ link[c] \in {"hung", "down"}
    \/ \E g \in Goroutines : pc[g] = "d_close" /\ cl[g] = c

\* A step that publishes and closes nothing keeps it.
LEMMA ClientsKept ==
  ASSUME ClientsKnown, UNCHANGED <<conn, dialed, link>>,
         \A h \in Goroutines : pc[h] = "d_close" => pc'[h] = "d_close" /\ cl'[h] = cl[h]
  PROVE  ClientsKnown'
BY DEF ClientsKnown

LEMMA ClientsStep ==
  ASSUME SessionInv, SessionInv', ClientsKnown, [Next]_vars PROVE ClientsKnown'
<1> USE DEF connVars, shellVars, dataVars, lockVars, goVars
<1>1. CASE UNCHANGED vars
  BY <1>1, ClientsKept DEF vars
<1>2. ASSUME NEW g \in Goroutines, NEW label, Moves(g, label), pc[g] \notin ConnHolders,
             UNCHANGED connVars
      PROVE  ClientsKnown'
  BY <1>2, ClientsKept DEF Moves, ConnHolders, DisconnectPCs
<1>3. ASSUME NEW g \in Procs, Connect(g), ~StartKeepalive(g) PROVE ClientsKnown'
  <2>1. PICK label : Moves(g, label) /\ UNCHANGED <<cl, sh>>
    BY <1>3, ConnectMoves
  <2>2. \A h \in Goroutines : pc[h] = "d_close" => pc'[h] = "d_close" /\ cl'[h] = cl[h]
    BY <1>3, <2>1 DEF Connect, ConnectLock, ConnectStop, Dial, Handshake, ResetCwd, Moves
  <2>3. CASE UNCHANGED <<conn, dialed, link>>
    BY <2>2, <2>3, ClientsKept
  <2>4. CASE Handshake(g) /\ dialed < MaxConn /\ dialed' = dialed + 1 /\ conn' = dialed'
             /\ link' = [link EXCEPT ![dialed'] = "up"]
    <3>1. conn = 0 /\ dialed \in Nat
      BY <2>4, SessionAssumption
         DEF SessionAssumption, Handshake, SessionInv, ConnNewest, TypeOK, ConnTypeOK, Goroutines
    <3>2. ASSUME NEW c \in ConnIds, c <= dialed', c # conn'
          PROVE  c <= dialed /\ c # conn /\ link'[c] = link[c]
      BY <2>4, <3>1, <3>2, SessionAssumption
         DEF SessionAssumption, ConnIds, SessionInv, TypeOK, ConnTypeOK
    <3> QED BY <2>2, <3>2 DEF ClientsKnown
  <2> QED BY <1>3, <2>3, <2>4
         DEF Connect, ConnectLock, ConnectStop, Dial, Handshake, ResetCwd
<1>4. ASSUME NEW g \in Procs, StartKeepalive(g) PROVE ClientsKnown'
  <2>1. g \in Goroutines
    BY DEF Goroutines
  <2>2. \A h \in Goroutines : pc[h] = "d_close" => h # g /\ h # dialed
    BY <1>4, <2>1, KeepaliveStarts, Alone DEF ConnHolders, ConnectPCs, DisconnectPCs
  <2> QED BY <1>4, <2>2, KeepaliveStarts, ClientsKept
<1>5. ASSUME NEW g \in Goroutines, Disconnect(g) PROVE ClientsKnown'
  <2>1. PICK label : Goto(g, label) /\ Moves(g, label)
    BY <1>5, DisconnectMoves
  <2>2. CASE Claim(g)
    <3>1. pc'[g] = "d_close" /\ cl'[g] = conn
      BY <2>2 DEF Claim, Goto, Label, SessionInv, TypeOK, PCTypeOK, LocalTypeOK
    <3>2. \A h \in Goroutines : pc[h] = "d_close" => h # g
      BY <2>2 DEF Claim
    <3> QED BY <2>1, <2>2, <3>1, <3>2 DEF ClientsKnown, Claim, Moves
  <2>3. CASE CloseClient(g)
    <3>1. \A h \in Goroutines : pc[h] = "d_close" => h = g
      BY <2>3, Alone DEF CloseClient, ConnHolders, DisconnectPCs
    <3>2. \A c \in ConnIds : link[c] \in {"hung", "down"} => link'[c] \in {"hung", "down"}
      BY <2>3 DEF CloseClient, CloseTransport
    <3>3. cl[g] \in ConnIds => link'[cl[g]] \in {"hung", "down"}
      BY <2>3 DEF CloseClient, CloseTransport
    <3> QED BY <2>3, <3>1, <3>2, <3>3 DEF ClientsKnown, CloseClient
  <2>4. CASE TeardownLock(g) \/ TeardownShell(g) \/ TeardownRelay(g)
    <3>1. pc[g] # "d_close" /\ UNCHANGED <<conn, dialed, link>>
      BY <2>4 DEF TeardownLock, TeardownShell, TeardownRelay
    <3> QED BY <2>1, <3>1, ClientsKept DEF Moves
  <2> QED BY <1>5, <2>2, <2>3, <2>4 DEF Disconnect
<1>6. ASSUME NEW g \in Procs, CallerStep(g) \/ \E o \in Entry \ {"update"} : Begin(g, o)
      PROVE  ClientsKnown'
  <2>1. g \in Goroutines
    BY DEF Goroutines
  <2>2. CASE EnsureShell(g) \/ Exec(g) \/ Transfer(g) \/ \E o \in Entry \ {"update"} : Begin(g, o)
    BY <1>2, <2>1, <2>2, CallerQuiet
  <2> QED BY <1>3, <1>4, <1>5, <1>6, <2>1, <2>2 DEF CallerStep
<1>7. ASSUME NEW g \in ConnIds, KeeperStep(g) PROVE ClientsKnown'
  <2>1. g \in Goroutines
    BY DEF Goroutines
  <2> QED BY <1>2, <1>5, <1>7, <2>1, KeeperQuiet DEF KeeperStep
<1>8. CASE Environment
  <2>1. UNCHANGED <<conn, dialed, pc, cl>>
    BY <1>8 DEF Environment, ToggleSafeRm, Stall, Hang, Drop, Degrade, ShellDies
  <2>2. \A c \in ConnIds : link[c] \in {"hung", "down"} => link'[c] \in {"hung", "down"}
    BY <1>8 DEF Environment, ToggleSafeRm, Stall, Hang, Drop, Degrade, ShellDies, SessionInv,
                TypeOK, ConnTypeOK
  <2> QED BY <2>1, <2>2 DEF ClientsKnown
<1> QED BY <1>1, <1>6, <1>7, <1>8 DEF Next

\* No client is overwritten and lost: whenever no Connect or Disconnect is in
\* progress, every client but the current one was closed, or its Close still hangs.
THEOREM NoClientLeaks == Spec => []NoLeakedClient
<1>1. Init => ClientsKnown
  BY DEF Init, ClientsKnown, ConnIds
<1>2. SessionInv /\ SessionInv' /\ ClientsKnown /\ [Next]_vars => ClientsKnown'
  BY ClientsStep
<1>3. SessionInv /\ ClientsKnown => NoLeakedClient
  <2> SUFFICES ASSUME SessionInv, ClientsKnown, connectLock = None PROVE NoLeakedClient
    BY DEF NoLeakedClient
  <2>1. \A g \in Goroutines : pc[g] # "d_close"
    BY SessionAssumption DEF SessionAssumption, SessionInv, LocksHeld, DisconnectPCs
  <2> QED BY <2>1 DEF ClientsKnown, NoLeakedClient
<1> QED BY <1>1, <1>2, <1>3, SessionInvariant, PTL DEF Spec

-----------------------------------------------------------------------------
(* The relay and the client: RelayMatchesConn. *)

\* A relay runs only under a published client, or while a handshake through it or
\* a Disconnect is in progress.
RelayPCs == {"c_shake"} \cup DisconnectPCs
RelayKnown == relay => conn # 0 \/ \E g \in Goroutines : pc[g] \in RelayPCs

\* A step that leaves the clients and the relay alone keeps it, if its goroutine
\* does not leave Connect or Disconnect by it.
LEMMA RelayKept ==
  ASSUME RelayKnown, NEW g \in Goroutines, NEW label, Moves(g, label),
         UNCHANGED <<conn, relay>>, pc[g] \in RelayPCs => label \in RelayPCs
  PROVE  RelayKnown'
BY DEF RelayKnown, Moves

LEMMA RelayStep ==
  ASSUME SessionInv, SessionInv', RelayKnown, [Next]_vars PROVE RelayKnown'
<1> USE DEF connVars, shellVars, dataVars, lockVars, goVars
<1>1. CASE UNCHANGED vars
  BY <1>1 DEF vars, RelayKnown
<1>2. ASSUME NEW g \in Goroutines, NEW label, Moves(g, label), pc[g] \notin ConnHolders,
             UNCHANGED connVars
      PROVE  RelayKnown'
  BY <1>2, RelayKept DEF RelayPCs, ConnHolders, ConnectPCs, DisconnectPCs
<1>3. ASSUME NEW g \in Procs, Connect(g), ~StartKeepalive(g) PROVE RelayKnown'
  <2>1. g \in Goroutines
    BY DEF Goroutines
  <2>2. PICK label : Goto(g, label) /\ Moves(g, label) /\ UNCHANGED <<cl, sh>>
    BY <1>3, ConnectMoves
  <2>3. CASE ConnectLock(g) \/ ConnectStop(g) \/ ResetCwd(g)
    BY <2>1, <2>2, <2>3, RelayKept
       DEF ConnectLock, ConnectStop, ResetCwd, RelayPCs, DisconnectPCs
  <2>4. CASE Dial(g)
    <3>1. conn = 0 /\ \A h \in Goroutines : pc[h] \notin RelayPCs
      BY <2>1, <2>4, Alone
         DEF Dial, SessionInv, ConnNewest, RelayPCs, ConnHolders, ConnectPCs, DisconnectPCs
    <3>2. ~relay
      BY <3>1 DEF RelayKnown
    <3>3. CASE Goto(g, "c_shake")
      BY <2>1, <3>3 DEF RelayKnown, RelayPCs, Goto, Label, SessionInv, TypeOK, PCTypeOK
    <3> QED BY <2>4, <3>2, <3>3 DEF Dial, RelayKnown
  <2>5. CASE Handshake(g)
    <3>1. relay' => conn' # 0
      BY <2>5 DEF Handshake, CloseRelay, SessionInv, TypeOK, ConnTypeOK
    <3> QED BY <3>1 DEF RelayKnown
  <2> QED BY <1>3, <2>3, <2>4, <2>5 DEF Connect
<1>4. ASSUME NEW g \in Procs, StartKeepalive(g) PROVE RelayKnown'
  BY <1>4, KeepaliveStarts DEF RelayKnown
<1>5. ASSUME NEW g \in Goroutines, Disconnect(g) PROVE RelayKnown'
  <2>1. PICK label : Goto(g, label) /\ Moves(g, label)
    BY <1>5, DisconnectMoves
  <2>2. CASE TeardownRelay(g)
    BY <2>2 DEF TeardownRelay, CloseRelay, RelayKnown
  <2>3. CASE ~TeardownRelay(g)
    <3>1. pc'[g] \in RelayPCs
      BY <1>5, <2>3 DEF Disconnect, Claim, CloseClient, TeardownLock, TeardownShell, Goto, Label,
         SessionInv, TypeOK, PCTypeOK, RelayPCs, DisconnectPCs
    <3> QED BY <3>1 DEF RelayKnown
  <2> QED BY <2>2, <2>3
<1>6. ASSUME NEW g \in Procs, CallerStep(g) \/ \E o \in Entry \ {"update"} : Begin(g, o)
      PROVE  RelayKnown'
  <2>1. g \in Goroutines
    BY DEF Goroutines
  <2>2. CASE EnsureShell(g) \/ Exec(g) \/ Transfer(g) \/ \E o \in Entry \ {"update"} : Begin(g, o)
    BY <1>2, <2>1, <2>2, CallerQuiet
  <2> QED BY <1>3, <1>4, <1>5, <1>6, <2>1, <2>2 DEF CallerStep
<1>7. ASSUME NEW g \in ConnIds, KeeperStep(g) PROVE RelayKnown'
  <2>1. g \in Goroutines
    BY DEF Goroutines
  <2> QED BY <1>2, <1>5, <1>7, <2>1, KeeperQuiet DEF KeeperStep
<1>8. CASE Environment
  BY <1>8 DEF Environment, ToggleSafeRm, Stall, Hang, Drop, Degrade, ShellDies, RelayKnown
<1> QED BY <1>1, <1>6, <1>7, <1>8 DEF Next

\* Whenever no Connect or Disconnect is in progress, a relay process exists only
\* under a published client: a failed handshake or a Disconnect stops it.
THEOREM RelayHasClient == Spec => []RelayMatchesConn
<1>1. Init => RelayKnown
  BY DEF Init, RelayKnown
<1>2. SessionInv /\ SessionInv' /\ RelayKnown /\ [Next]_vars => RelayKnown'
  BY RelayStep
<1>3. SessionInv /\ RelayKnown => RelayMatchesConn
  <2> SUFFICES ASSUME SessionInv, RelayKnown, connectLock = None PROVE RelayMatchesConn
    BY DEF RelayMatchesConn
  <2>1. \A g \in Goroutines : pc[g] \notin RelayPCs
    BY SessionAssumption
       DEF SessionAssumption, SessionInv, LocksHeld, RelayPCs, ConnectPCs, DisconnectPCs
  <2> QED BY <2>1 DEF RelayKnown, RelayMatchesConn
<1> QED BY <1>1, <1>2, <1>3, SessionInvariant, PTL DEF Spec

-----------------------------------------------------------------------------
(* The client and its keepalive goroutine: WatchedConn. *)

\* A client is published and its keepalive not yet started.
Publishing == \E g \in Procs : pc[g] \in {"c_cwd", "c_keep"}

\* Channels are as old as the clients they were made for; only old ones are closed.
ChannelsInOrder ==
  /\ keepaliveDone <= dialed /\ \A c \in closedCh : c <= keepaliveDone
  /\ Publishing => keepaliveDone < dialed

\* The published client has the newest channel, it is open, and the client's
\* goroutine is in its loop or about to disconnect.
Attended ==
  conn # 0 /\ ~Publishing =>
    /\ keepaliveDone = conn /\ conn \notin closedCh
    /\ pc[conn] \in {"k_new", "k_loop", "k_send", "d_lock"}

\* A keepalive goroutine captures its own client's channel or a later one.
StopsLater ==
  \A c \in ConnIds :
    /\ pc[c] = "k_new" => c <= keepaliveDone
    /\ pc[c] \in {"k_loop", "k_send"} => c <= stop[c] /\ stop[c] <= keepaliveDone

Watched == ChannelsInOrder /\ Attended /\ StopsLater

LEMMA WatchedStep ==
  ASSUME SessionInv, SessionInv', Watched, [Next]_vars PROVE Watched'
<1> USE DEF connVars, shellVars, dataVars, lockVars, goVars
<1>1. \A c \in ConnIds : c \in Goroutines /\ c \notin Procs /\ c \in Nat
  BY SessionAssumption DEF SessionAssumption, ConnIds, Goroutines
<1>2. conn # 0 => conn \in ConnIds
  BY SessionAssumption DEF SessionAssumption, SessionInv, TypeOK, ConnTypeOK, ConnIds
<1>3. keepaliveDone \in Nat /\ dialed \in Nat /\ closedCh \subseteq Nat
      /\ \A c \in ConnIds : stop[c] \in Nat
  BY SessionAssumption
     DEF SessionAssumption, SessionInv, TypeOK, ConnTypeOK, LocalTypeOK, ConnIds
<1>4. ASSUME \A h \in Goroutines : pc'[h] = pc[h], UNCHANGED <<connVars, stop>>
             \/ UNCHANGED <<conn, dialed, keepaliveDone, closedCh, stop>>
      PROVE  Watched'
  BY <1>1, <1>2, <1>4
     DEF Watched, ChannelsInOrder, Attended, StopsLater, Publishing, Goroutines
<1>5. ASSUME NEW g \in Procs, NEW label, Moves(g, label),
             pc[g] \notin ConnHolders, label \notin ConnHolders, UNCHANGED <<connVars, stop>>
      PROVE  Watched'
  <2>1. g \in Goroutines /\ \A c \in ConnIds : pc'[c] = pc[c]
    BY <1>1, <1>5 DEF Moves, Goroutines
  <2>2. Publishing' <=> Publishing
    BY <1>5 DEF Publishing, Moves, ConnHolders, ConnectPCs, Goroutines
  <2> QED BY <1>2, <1>5, <2>1, <2>2 DEF Watched, ChannelsInOrder, Attended, StopsLater
<1>6. ASSUME NEW g \in Procs, Connect(g), ~StartKeepalive(g) PROVE Watched'
  <2>1. g \in Goroutines
    BY DEF Goroutines
  <2>2. PICK label : Goto(g, label) /\ Moves(g, label) /\ UNCHANGED <<cl, sh>>
    BY <1>6, ConnectMoves
  <2>3. UNCHANGED stop /\ \A c \in ConnIds : pc'[c] = pc[c]
    BY <1>1, <1>6, <2>2
       DEF Connect, ConnectLock, ConnectStop, Dial, Handshake, ResetCwd, Moves
  <2>4. \A h \in Procs : h # g => (pc'[h] = pc[h])
    BY <2>2 DEF Moves, Goroutines
  <2>5. pc'[g] = label
    BY <2>2 DEF Moves
  <2>6. CASE ConnectLock(g)
    <3>1. pc[g] = "c_lock" /\ label \notin {"c_cwd", "c_keep"}
      BY <2>1, <2>5, <2>6 DEF ConnectLock, AfterConnect, Goto, Label, SessionInv, TypeOK, PCTypeOK
    <3>2. Publishing' <=> Publishing
      BY <2>4, <2>5, <3>1 DEF Publishing
    <3> QED BY <1>2, <2>3, <2>6, <3>2
            DEF ConnectLock, Watched, ChannelsInOrder, Attended, StopsLater
  <2>7. CASE ConnectStop(g) \/ Dial(g) \/ (Handshake(g) /\ UNCHANGED <<conn, dialed>>)
    <3>1. pc[g] \in {"c_stop", "c_dial", "c_shake"} /\ conn = 0 /\ UNCHANGED <<conn, dialed>>
      BY <2>1, <2>7 DEF ConnectStop, Dial, Handshake, SessionInv, ConnNewest
    <3>2. label \notin {"c_cwd", "c_keep"}
      <4>1. \A l : pc'[g] = l => label = l
        BY <2>5
      <4>2. pc'[g] \in {"c_dial", "c_shake", AfterConnectErr(g)} \/ dialed' = dialed + 1
        BY <2>1, <2>7
           DEF ConnectStop, Dial, Handshake, ConnectErr, Goto, Label, SessionInv, TypeOK, PCTypeOK
      <4>3. dialed' # dialed + 1
        BY <1>3, <3>1
      <4> QED BY <4>1, <4>2, <4>3 DEF AfterConnectErr
    <3>3. ~Publishing'
      BY <2>1, <2>4, <2>5, <3>1, <3>2, Alone DEF Publishing, ConnHolders, ConnectPCs, Goroutines
    <3>4. keepaliveDone' = keepaliveDone /\ closedCh' \subseteq closedCh \cup {keepaliveDone}
      BY <2>7 DEF ConnectStop, StopSignal, Dial, Handshake
    <3> QED BY <1>3, <2>3, <3>1, <3>3, <3>4
            DEF Watched, ChannelsInOrder, Attended, StopsLater
  <2>8. CASE Handshake(g) /\ dialed' = dialed + 1
    <3>1. pc'[g] = "c_cwd" /\ UNCHANGED <<keepaliveDone, closedCh>>
      BY <1>3, <2>1, <2>8 DEF Handshake, Goto, Label, SessionInv, TypeOK, PCTypeOK
    <3>2. Publishing'
      BY <3>1 DEF Publishing
    <3> QED BY <1>3, <2>3, <2>8, <3>1, <3>2
            DEF Watched, ChannelsInOrder, Attended, StopsLater
  <2>9. CASE ResetCwd(g)
    <3>1. pc[g] = "c_cwd" /\ pc'[g] = "c_keep"
      BY <2>1, <2>9 DEF ResetCwd, Goto, Label, SessionInv, TypeOK, PCTypeOK
    <3>2. Publishing' /\ Publishing
      BY <3>1 DEF Publishing
    <3> QED BY <2>3, <2>9, <3>2 DEF ResetCwd, Watched, ChannelsInOrder, Attended, StopsLater
  <2> QED BY <1>6, <2>6, <2>7, <2>8, <2>9 DEF Connect, Handshake
<1>7. ASSUME NEW g \in Procs, StartKeepalive(g) PROVE Watched'
  <2>1. Publishing /\ ~Publishing'
    <3>1. g \in Goroutines /\ \A h \in Procs : h \in Goroutines /\ h # dialed
      BY <1>1, <1>7, KeepaliveStarts DEF Goroutines
    <3>2. \A h \in Procs : h # g => pc'[h] = pc[h] /\ pc[h] \notin ConnHolders
      BY <1>7, <3>1, KeepaliveStarts, Alone DEF ConnHolders, ConnectPCs
    <3>3. pc'[g] \notin {"c_cwd", "c_keep"}
      BY <1>7, KeepaliveStarts DEF AfterConnect
    <3> QED BY <1>7, <3>2, <3>3, KeepaliveStarts DEF Publishing, ConnHolders, ConnectPCs
  <2>2. keepaliveDone < dialed /\ keepaliveDone' = dialed /\ conn' = dialed
    BY <1>7, <2>1, KeepaliveStarts DEF Watched, ChannelsInOrder
  <2>3. \A c \in ConnIds : c # dialed => pc'[c] = pc[c] /\ stop'[c] = stop[c]
    BY <1>1, <1>7, KeepaliveStarts
  <2>4. pc'[dialed] = "k_new" /\ UNCHANGED <<dialed, closedCh>>
    BY <1>7, KeepaliveStarts
  <2>5. ChannelsInOrder'
    BY <1>3, <2>1, <2>2, <2>4 DEF Watched, ChannelsInOrder
  <2>6. Attended'
    BY <1>3, <2>2, <2>4 DEF Watched, ChannelsInOrder, Attended
  <2>7. StopsLater'
    BY <1>1, <1>3, <2>2, <2>3, <2>4 DEF Watched, StopsLater
  <2> QED BY <2>5, <2>6, <2>7 DEF Watched
<1>8. ASSUME NEW g \in Goroutines, Disconnect(g) PROVE Watched'
  <2>1. PICK label : Goto(g, label) /\ Moves(g, label)
    BY <1>8, DisconnectMoves
  <2>2. conn' = 0 /\ UNCHANGED <<dialed, keepaliveDone, stop>>
        /\ closedCh' \subseteq closedCh \cup {keepaliveDone}
    BY <1>8 DEF Disconnect, Claim, StopSignal, CloseClient, TeardownLock, TeardownShell, TeardownRelay,
       SessionInv, ConnNewest, DisconnectPCs
  <2>3. pc'[g] \notin {"c_cwd", "c_keep", "k_new", "k_loop", "k_send"}
    BY <1>8 DEF Disconnect, Claim, CloseClient, TeardownLock, TeardownShell, TeardownRelay,
       AfterDisconnect, Goto, Label, SessionInv, TypeOK, PCTypeOK
  <2>4. pc[g] \in ConnHolders \/ connectLock = None
    BY <1>8 DEF Disconnect, Claim, CloseClient, TeardownLock, TeardownShell, TeardownRelay,
       ConnectUnlocked, ConnHolders, DisconnectPCs
  <2>5. ~Publishing'
    BY <2>1, <2>3, <2>4, Alone DEF Publishing, Moves, ConnHolders, ConnectPCs, Goroutines
  <2>6. \A c \in ConnIds : pc'[c] \in {"k_new", "k_loop", "k_send"} => pc'[c] = pc[c]
    BY <1>1, <2>1, <2>3 DEF Moves
  <2> QED BY <1>3, <2>2, <2>5, <2>6 DEF Watched, ChannelsInOrder, Attended, StopsLater
<1>9. ASSUME NEW g \in ConnIds, KeepaliveLoop(g) PROVE Watched'
  <2>1. PICK label : /\ Moves(g, label) /\ label \notin ConnHolders
                     /\ pc[g] \notin ConnHolders /\ UNCHANGED connVars
    BY <1>9, KeeperQuiet
  <2>2. /\ \A h \in Procs : pc'[h] = pc[h]
        /\ \A c \in ConnIds : c # g => pc'[c] = pc[c] /\ stop'[c] = stop[c]
    <3>1. \A h \in Procs : h \in Goroutines /\ h # g
      BY <1>1, <1>9 DEF Goroutines
    <3>2. \A c \in ConnIds : c # g => stop'[c] = stop[c]
      BY <1>9 DEF KeepaliveLoop, KeepaliveCapture, KeepaliveStop, KeepaliveTick, KeepaliveSent,
         KeepaliveLost, SessionInv, TypeOK, LocalTypeOK
    <3> QED BY <1>1, <2>1, <3>1, <3>2 DEF Moves
  <2>3. Publishing' <=> Publishing
    BY <2>2 DEF Publishing
  <2>4. CASE KeepaliveCapture(g)
    <3>1. pc[g] = "k_new" /\ pc'[g] = "k_loop" /\ stop'[g] = keepaliveDone
      BY <1>1, <2>4 DEF KeepaliveCapture, Goto, Label, SessionInv, TypeOK, PCTypeOK, LocalTypeOK
    <3> QED BY <1>2, <1>3, <2>1, <2>2, <2>3, <3>1
            DEF Watched, ChannelsInOrder, Attended, StopsLater
  <2>5. CASE KeepaliveStop(g)
    <3>1. pc[g] \in {"k_loop", "k_send"} /\ pc'[g] = "exited" /\ stop[g] \in closedCh
      BY <1>1, <2>5 DEF KeepaliveStop, Goto, Label, SessionInv, TypeOK, PCTypeOK
    <3>2. conn # 0 /\ ~Publishing => g # conn
      BY <1>1, <1>3, <3>1 DEF Watched, Attended, StopsLater
    <3> QED BY <1>1, <1>2, <2>1, <2>2, <2>3, <3>1, <3>2
            DEF Watched, ChannelsInOrder, Attended, StopsLater
  <2>6. CASE KeepaliveTick(g) \/ KeepaliveSent(g) \/ KeepaliveLost(g)
    <3>1. /\ pc[g] \in {"k_loop", "k_send"} /\ stop'[g] = stop[g]
          /\ pc'[g] \in {"k_loop", "k_send", "d_lock"} \/ (pc'[g] = "exited" /\ conn = 0)
      BY <1>1, <2>6 DEF KeepaliveTick, KeepaliveSent, KeepaliveLost, Goto, Label, SessionInv,
         TypeOK, PCTypeOK
    <3> QED BY <1>1, <1>2, <2>1, <2>2, <2>3, <3>1
            DEF Watched, ChannelsInOrder, Attended, StopsLater
  <2> QED BY <1>9, <2>4, <2>5, <2>6 DEF KeepaliveLoop
<1>10. ASSUME NEW g \in Procs, CallerStep(g) \/ \E o \in Entry \ {"update"} : Begin(g, o)
       PROVE  Watched'
  <2>1. g \in Goroutines
    BY DEF Goroutines
  <2>2. CASE EnsureShell(g) \/ Exec(g) \/ Transfer(g) \/ \E o \in Entry \ {"update"} : Begin(g, o)
    BY <1>5, <2>2, CallerQuiet
  <2> QED BY <1>6, <1>7, <1>8, <1>10, <2>1, <2>2 DEF CallerStep
<1>11. ASSUME NEW g \in ConnIds, KeeperStep(g) PROVE Watched'
  BY <1>1, <1>8, <1>9, <1>11 DEF KeeperStep
<1>12. CASE Environment
  BY <1>4, <1>12 DEF Environment, ToggleSafeRm, Stall, Hang, Drop, Degrade, ShellDies
<1>13. CASE UNCHANGED vars
  BY <1>4, <1>13 DEF vars
<1> QED BY <1>10, <1>11, <1>12, <1>13 DEF Next

\* Whenever no Connect or Disconnect is in progress, the published client is watched:
\* its stop channel is open and its keepalive goroutine is in its loop or about to
\* disconnect.  A goroutine of an older client cannot take its place, and no channel
\* closed for an older client stops it.
THEOREM ClientIsWatched == Spec => []WatchedConn
<1>1. Init => Watched
  <2> SUFFICES ASSUME Init PROVE Watched
    OBVIOUS
  <2>1. \A c \in ConnIds : c \in Goroutines /\ c \notin Procs
    BY SessionAssumption DEF SessionAssumption, ConnIds, Goroutines
  <2>2. \A c \in ConnIds : pc[c] = "exited"
    BY <2>1 DEF Init
  <2>3. ~Publishing
    BY DEF Init, Publishing, Goroutines
  <2>4. keepaliveDone = 0 /\ dialed = 0 /\ closedCh = {} /\ conn = 0
    BY DEF Init
  <2> QED BY <2>2, <2>3, <2>4 DEF Watched, ChannelsInOrder, Attended, StopsLater
<1>2. SessionInv /\ SessionInv' /\ Watched /\ [Next]_vars => Watched'
  BY WatchedStep
<1>3. SessionInv /\ Watched => WatchedConn
  <2> SUFFICES ASSUME SessionInv, Watched, connectLock = None PROVE WatchedConn
    BY DEF WatchedConn
  <2>1. ~Publishing
    BY SessionAssumption
       DEF SessionAssumption, SessionInv, LocksHeld, Publishing, ConnectPCs, Goroutines
  <2> QED BY <2>1 DEF Watched, Attended, WatchedConn
<1> QED BY <1>1, <1>2, <1>3, SessionInvariant, PTL DEF Spec

-----------------------------------------------------------------------------
(* execLock and the command that runs: NeverBusy. *)

\* Exec and Remove hold execLock, and a shell's pending command is that of a caller
\* who writes it or waits for its result.
Excl == {"exec", "remove"}
ExecHeld ==
  /\ \A g \in Procs : op[g] \in Excl /\ pc[g] # "x_lock" => execLock = g
  /\ \A g \in Procs : pc[g] \in RunPCs \cup {"x_unlock"} => op[g] \in Excl
PendingHeld ==
  \A k \in ShellIds : pending[k] # None =>
    pc[pending[k]] \in {"r_write", "r_wait"} /\ sh[pending[k]] = k

\* A step that does not touch execLock keeps ExecHeld ...
LEMMA ExecKept ==
  ASSUME SessionInv, ExecHeld, NEW g \in Goroutines, NEW label, Goto(g, label),
         UNCHANGED execLock, pc[g] # "x_lock",
         label \in RunPCs \cup {"x_unlock"} => op[g] \in Excl
  PROVE  ExecHeld'
<1>1. \A h \in Goroutines : h # g => pc'[h] = pc[h] /\ op'[h] = op[h]
  BY DEF Goto, Label, SessionInv, TypeOK, PCTypeOK
<1>2. pc'[g] = label /\ op'[g] \in {op[g], "none"} /\ (label # "idle" => op'[g] = op[g])
  BY DEF Goto, Label, SessionInv, TypeOK, PCTypeOK
<1>3. "idle" \notin RunPCs \cup {"x_unlock"} /\ "none" \notin Excl
  BY DEF RunPCs, Excl
<1>4. ASSUME NEW h \in Procs PROVE h \in Goroutines
  BY DEF Goroutines
<1> QED BY <1>1, <1>2, <1>3, <1>4 DEF ExecHeld

\* ... and one that adds no pending command keeps PendingHeld.
LEMMA PendingKept ==
  ASSUME SessionInv, PendingHeld, NEW g \in Goroutines, NEW label, Moves(g, label),
         \A k \in ShellIds : pending'[k] \in {pending[k], None},
         pc[g] \notin {"r_write", "r_wait"}
  PROVE  PendingHeld'
<1>1. \A k \in ShellIds : pending[k] # None => pending[k] \in Goroutines
  BY DEF SessionInv, TypeOK, ShellTypeOK, Goroutines
<1> QED BY <1>1 DEF PendingHeld, Moves

\* Closing a shell adds no pending command, and leaves the others' alone.
LEMMA CloseShellPending ==
  ASSUME SessionInv, NEW j, CloseShell(j)
  PROVE  \A k \in ShellIds : pending'[k] = IF k = j THEN None ELSE pending[k]
BY DEF CloseShell, MarkDead, SessionInv, TypeOK, ShellTypeOK

LEMMA ExecHeldStep ==
  ASSUME SessionInv, SessionInv', ExecHeld, PendingHeld, [Next]_vars
  PROVE  ExecHeld' /\ PendingHeld'
<1> USE DEF connVars, shellVars, dataVars, lockVars, goVars
<1>1. \A c \in ConnIds : c \in Goroutines /\ c \notin Procs
  BY SessionAssumption DEF SessionAssumption, ConnIds, Goroutines
<1>2. \A h \in Procs : h \in Goroutines /\ h # None
  BY SessionAssumption DEF SessionAssumption, Goroutines
<1>3. ASSUME UNCHANGED <<execLock, pc, op, sh>>,
             \A k \in ShellIds : pending'[k] \in {pending[k], None}
      PROVE  ExecHeld' /\ PendingHeld'
  BY <1>3 DEF ExecHeld, PendingHeld
<1>4. ASSUME NEW g \in Procs, Connect(g), ~StartKeepalive(g) PROVE ExecHeld' /\ PendingHeld'
  <2>1. PICK label : Goto(g, label) /\ Moves(g, label)
    BY <1>4, ConnectMoves
  <2>2. label = pc'[g] /\ UNCHANGED <<execLock, pending>>
    BY <1>4, <2>1 DEF Moves, Connect, ConnectLock, ConnectStop, Dial, Handshake, ResetCwd
  <2>3. pc'[g] \in ConnectPCs \cup {AfterConnect(g), AfterConnectErr(g)}
    BY <1>2, <1>4 DEF Connect, ConnectLock, ConnectStop, Dial, Handshake, ResetCwd, ConnectErr,
       Goto, Label, ConnectPCs, SessionInv, TypeOK, PCTypeOK
  <2>4. label \in RunPCs \cup {"x_unlock"} => op[g] \in Excl
    BY <2>2, <2>3 DEF ConnectPCs, RunPCs, AfterConnect, AfterConnectErr, Excl
  <2>5. pc[g] \notin {"x_lock", "r_write", "r_wait"}
    BY <1>4 DEF Connect, ConnectLock, ConnectStop, Dial, Handshake, ResetCwd
  <2> QED BY <1>2, <2>1, <2>2, <2>4, <2>5, ExecKept, PendingKept
<1>5. ASSUME NEW g \in Procs, StartKeepalive(g) PROVE ExecHeld' /\ PendingHeld'
  <2>1. pc[g] = "c_keep" /\ pc'[g] = AfterConnect(g) /\ UNCHANGED <<execLock, pending, sh>>
    BY <1>5, KeepaliveStarts DEF StartKeepalive
  <2>2. \A h \in Procs : h # g => pc'[h] = pc[h]
    BY <1>1, <1>2, <1>5, KeepaliveStarts
  <2>3. \A h \in Procs : op'[h] = IF h = g /\ AfterConnect(g) = "idle" THEN "none" ELSE op[h]
    BY <1>2, <1>5 DEF StartKeepalive, SessionInv, TypeOK, PCTypeOK
  <2>4. AfterConnect(g) \notin RunPCs \cup {"x_unlock"}
    BY DEF AfterConnect, RunPCs
  <2>5. ExecHeld'
    BY <2>1, <2>2, <2>3, <2>4 DEF ExecHeld, Excl
  <2>6. \A k \in ShellIds : pending[k] # None => pending[k] \in Procs
    BY DEF SessionInv, TypeOK, ShellTypeOK
  <2> QED BY <2>1, <2>2, <2>5, <2>6 DEF PendingHeld
<1>6. ASSUME NEW g \in Goroutines, Disconnect(g) PROVE ExecHeld' /\ PendingHeld'
  <2>1. PICK label : Goto(g, label) /\ Moves(g, label)
    BY <1>6, DisconnectMoves
  <2>2. UNCHANGED execLock
    BY <1>6 DEF Disconnect, Claim, CloseClient, TeardownLock, TeardownShell, TeardownRelay
  <2>3. label = pc'[g] /\ pc'[g] \in DisconnectPCs \cup {AfterDisconnect(g)}
    BY <1>6, <2>1 DEF Disconnect, Claim, CloseClient, TeardownLock, TeardownShell, TeardownRelay,
       Goto, Label, Moves, DisconnectPCs, SessionInv, TypeOK, PCTypeOK
  <2>4. label \in RunPCs \cup {"x_unlock"} => op[g] \in Excl
    BY <2>3 DEF DisconnectPCs, RunPCs, AfterDisconnect, Excl
  <2>5. pc[g] \notin {"x_lock", "r_write", "r_wait"}
    BY <1>6 DEF Disconnect, Claim, CloseClient, TeardownLock, TeardownShell, TeardownRelay
  <2>6. \A k \in ShellIds : pending'[k] \in {pending[k], None}
    BY <1>6, CloseShellPending
       DEF Disconnect, Claim, CloseClient, TeardownLock, TeardownShell, TeardownRelay
  <2> QED BY <2>1, <2>2, <2>4, <2>5, <2>6, ExecKept, PendingKept
<1>7. ASSUME NEW g \in Procs, EnsureShell(g) PROVE ExecHeld' /\ PendingHeld'
  <2> USE DEF EnsureShell, EnsureLock, EnsureCheck, EnsureScript, NewShell, OpenShell, StartShell,
          EnsureErr
  <2>1. PICK label \in EnsurePCs \cup {AfterEnsure(g), AfterEnsureErr(g)} : Goto(g, label)
    BY <1>7 DEF EnsurePCs
  <2>2. UNCHANGED execLock
    BY <1>7
  <2>3. label \in RunPCs \cup {"x_unlock"} => op[g] \in Excl
    BY DEF EnsurePCs, RunPCs, AfterEnsure, AfterEnsureErr, Excl
  <2>4. pc[g] \notin {"x_lock", "r_write", "r_wait"}
    BY <1>7
  <2>5. \A k \in ShellIds : pending'[k] \in {pending[k], None}
    BY <1>7, CloseShellPending
  <2>6. PICK l : Moves(g, l)
    BY <1>7, CallerQuiet
  <2> QED BY <1>2, <2>1, <2>2, <2>3, <2>4, <2>5, <2>6, ExecKept, PendingKept
<1>8. ASSUME NEW g \in Procs, ExecLock(g) PROVE ExecHeld' /\ PendingHeld'
  <2>1. pc[g] = "x_lock" /\ execLock = None /\ execLock' = g /\ UNCHANGED <<pending, sh>>
    BY <1>8 DEF ExecLock, ExecUnlocked
  <2>2. PICK label \in {"c_lock", "d_lock"} : Goto(g, label)
    BY <1>8 DEF ExecLock
  <2>3. Moves(g, label)
    BY <1>2, <1>8, <2>2, GotoMoves DEF ExecLock, SessionInv
  <2>4. \A h \in Procs : op'[h] = op[h] /\ (h # g => pc'[h] = pc[h]) /\ pc'[g] = label
    BY <1>2, <2>2, <2>3 DEF Goto, Moves
  <2>5. ExecHeld'
    BY <1>2, <2>1, <2>2, <2>4 DEF ExecHeld, RunPCs
  <2> QED BY <1>2, <2>1, <2>3, <2>5, PendingKept
<1>9. ASSUME NEW g \in Procs, ExecUnlock(g) PROVE ExecHeld' /\ PendingHeld'
  <2>1. pc[g] = "x_unlock" /\ Goto(g, "idle") /\ UNCHANGED <<pending, sh>> /\ op[g] \in Excl
    BY <1>9 DEF ExecUnlock, ExecHeld
  <2>2. Moves(g, "idle")
    BY <1>2, <1>9, <2>1, GotoMoves DEF ExecUnlock, SessionInv
  <2>3. op'[g] = "none" /\ \A h \in Procs : h # g => op'[h] = op[h] /\ pc'[h] = pc[h]
    BY <1>2, <2>1, <2>2 DEF Goto, Moves, SessionInv, TypeOK, PCTypeOK
  <2>4. pc'[g] = "idle"
    BY <2>2 DEF Moves
  <2>5. \A h \in Procs : op[h] \in Excl /\ pc[h] # "x_lock" => h = g
    BY <2>1 DEF ExecHeld
  <2>6. ExecHeld'
    BY <2>3, <2>4, <2>5 DEF ExecHeld, RunPCs, Excl
  <2> QED BY <1>2, <2>1, <2>2, <2>6, PendingKept
<1>10. ASSUME NEW g \in Procs, Dispatch(g) \/ Write(g) \/ Result(g) \/ RunErr(g)
       PROVE  ExecHeld' /\ PendingHeld'
  <2> USE DEF Dispatch, Write, Result, RunErr
  <2>1. PICK label \in {"r_write", "r_wait", "x_cwd", "x_fail"} : Goto(g, label)
    BY <1>10
  <2>2. pc[g] \in {"r_disp", "r_write", "r_wait"} /\ op[g] \in Excl
    BY <1>10 DEF ExecHeld, RunPCs
  <2>3. UNCHANGED <<execLock, sh, cl>>
    BY <1>10
  <2>4. Moves(g, label)
    BY <1>2, <2>1, <2>3, GotoMoves DEF SessionInv
  <2>5. ExecHeld'
    BY <1>2, <2>1, <2>2, <2>3, ExecKept
  <2>6. \A k \in ShellIds : pending[k] # None => pending[k] \in Procs /\ pending[k] \in Goroutines
    BY <1>2 DEF SessionInv, TypeOK, ShellTypeOK
  <2>7. pc'[g] = label /\ \A h \in Goroutines : h # g => pc'[h] = pc[h]
    BY <2>4 DEF Moves
  <2>8. ASSUME NEW k \in ShellIds, pending'[k] # None
        PROVE  \/ pending'[k] = pending[k] /\ (pending[k] = g => pc'[g] \in {"r_write", "r_wait"})
               \/ pending'[k] = g /\ k = sh[g] /\ pc'[g] = "r_write"
    <3>1. CASE Dispatch(g)
      BY <1>2, <2>6, <2>8, <3>1
         DEF PendingHeld, Goto, Label, SessionInv, TypeOK, PCTypeOK, ShellTypeOK
    <3>2. CASE Write(g)
      BY <1>2, <2>6, <2>8, <3>2
         DEF PendingHeld, Goto, Label, SessionInv, TypeOK, PCTypeOK, ShellTypeOK
    <3>3. CASE Result(g)
      BY <1>2, <2>6, <2>8, <3>3 DEF PendingHeld, SessionInv, TypeOK, ShellTypeOK
    <3>4. CASE RunErr(g)
      BY <2>6, <2>8, <3>4, CloseShellPending DEF PendingHeld
    <3> QED BY <1>10, <3>1, <3>2, <3>3, <3>4
  <2>9. PendingHeld'
    BY <2>3, <2>6, <2>7, <2>8 DEF PendingHeld
  <2> QED BY <2>5, <2>9
<1>11. ASSUME NEW g \in Procs, ExecOk(g) \/ ExecErr(g) \/ Transfer(g)
       PROVE  ExecHeld' /\ PendingHeld'
  <2> USE DEF ExecOk, ExecErr, Transfer, HomeRead, HomeSnapshot, HomeFetch, HomeStore, Copy
  <2>1. PICK label \in {"idle", "x_unlock", "d_lock", "h_snap", "h_fetch", "h_store", "t_conn"} :
          Goto(g, label)
    BY <1>11
  <2>2. label = "x_unlock" => pc[g] = "x_cwd"
    <3>1. pc'[g] = label
      BY <1>2, <2>1 DEF Goto, Label, SessionInv, TypeOK, PCTypeOK
    <3> QED BY <1>2, <1>11, <3>1 DEF Goto, Label, SessionInv, TypeOK, PCTypeOK
  <2>3. UNCHANGED <<execLock, pending>> /\ pc[g] \notin {"x_lock", "r_write", "r_wait"}
    BY <1>11
  <2>4. label \in RunPCs \cup {"x_unlock"} => op[g] \in Excl
    BY <2>2 DEF RunPCs, ExecHeld
  <2>5. PICK l : Moves(g, l)
    BY <1>11, CallerQuiet DEF Exec
  <2> QED BY <1>2, <2>1, <2>3, <2>4, <2>5, ExecKept, PendingKept
<1>12. ASSUME NEW g \in Procs, NEW o \in Entry \ {"update"}, Begin(g, o)
       PROVE  ExecHeld' /\ PendingHeld'
  <2>1. PICK l : Moves(g, l)
    BY <1>12, CallerQuiet
  <2>2. pc[g] = "idle" /\ UNCHANGED <<execLock, pending>>
    BY <1>12 DEF Begin
  <2>3. pc'[g] \in {"x_lock", "d_lock", "c_lock"} /\ op'[g] = o
        /\ (o \in Excl => pc'[g] = "x_lock")
    BY <1>2, <1>12 DEF Begin, Label, Excl, SessionInv, TypeOK, PCTypeOK
  <2>4. \A h \in Procs : h # g => op'[h] = op[h] /\ pc'[h] = pc[h]
    BY <1>2, <1>12 DEF Begin, Label, SessionInv, TypeOK, PCTypeOK
  <2>5. ExecHeld'
    BY <2>2, <2>3, <2>4 DEF ExecHeld, RunPCs
  <2> QED BY <1>2, <2>1, <2>2, <2>5, PendingKept
<1>13. ASSUME NEW g \in ConnIds, KeepaliveLoop(g) PROVE ExecHeld' /\ PendingHeld'
  <2> USE DEF KeepaliveLoop, KeepaliveCapture, KeepaliveStop, KeepaliveTick, KeepaliveSent,
          KeepaliveLost
  <2>1. PICK label \in {"k_loop", "k_send", "exited", "d_lock"} : Goto(g, label)
    BY <1>13
  <2>2. UNCHANGED <<execLock, pending>> /\ pc[g] \notin {"x_lock", "r_write", "r_wait"}
    BY <1>13
  <2>3. PICK l : Moves(g, l)
    BY <1>13, KeeperQuiet
  <2> QED BY <1>1, <2>1, <2>2, <2>3, ExecKept, PendingKept DEF RunPCs
<1>14. CASE Environment
  <2>1. UNCHANGED <<execLock, pc, op, sh>>
    BY <1>14 DEF Environment, ToggleSafeRm, Stall, Hang, Drop, Degrade, ShellDies
  <2>2. \A k \in ShellIds : pending'[k] \in {pending[k], None}
    BY <1>14 DEF Environment, ToggleSafeRm, Stall, Hang, Drop, Degrade, ShellDies, MarkDead
  <2> QED BY <1>3, <2>1, <2>2
<1>15. CASE UNCHANGED vars
  BY <1>3, <1>15 DEF vars
<1>16. ASSUME NEW g \in Procs, CallerStep(g) PROVE ExecHeld' /\ PendingHeld'
  BY <1>2, <1>4, <1>5, <1>6, <1>7, <1>8, <1>9, <1>10, <1>11, <1>16 DEF CallerStep, Exec
<1>17. ASSUME NEW g \in ConnIds, KeeperStep(g) PROVE ExecHeld' /\ PendingHeld'
  BY <1>1, <1>6, <1>13, <1>17 DEF KeeperStep
<1> QED BY <1>12, <1>14, <1>15, <1>16, <1>17 DEF Next

-----------------------------------------------------------------------------
(* Who holds execLock: ExecLockOwned, OneCommand. *)

\* Where an Exec and a Remove can be.
ExecPCs == {"x_lock", "x_unlock", "c_lock", "d_lock", "s_lock"}
           \cup ConnectPCs \cup DisconnectPCs \cup EnsurePCs \cup RunPCs
RemovePCs == {"x_lock", "x_unlock", "d_lock"} \cup DisconnectPCs

InPlace ==
  \A g \in Procs :
    /\ op[g] = "exec" => pc[g] \in ExecPCs
    /\ op[g] = "remove" => pc[g] \in RemovePCs
    /\ pc[g] = "x_lock" => op[g] \in Excl
Releases == \A g \in Procs : execLock = g => op[g] \in Excl /\ pc[g] # "x_lock"

\* A step that leaves execLock alone keeps both if it keeps its goroutine in place.
LEMMA PlaceKept ==
  ASSUME SessionInv, InPlace, Releases, NEW g \in Goroutines, NEW label, Goto(g, label),
         UNCHANGED execLock, label # "x_lock", label = "idle" => op[g] \notin Excl,
         op[g] = "exec" => label \in ExecPCs, op[g] = "remove" => label \in RemovePCs
  PROVE  InPlace' /\ Releases'
<1>1. \A h \in Goroutines : h # g => pc'[h] = pc[h] /\ op'[h] = op[h]
  BY DEF Goto, Label, SessionInv, TypeOK, PCTypeOK
<1>2. pc'[g] = label /\ op'[g] \in {op[g], "none"} /\ (label # "idle" => op'[g] = op[g])
  BY DEF Goto, Label, SessionInv, TypeOK, PCTypeOK
<1>3. \A h \in Procs : h \in Goroutines
  BY DEF Goroutines
<1>4. InPlace'
  BY <1>1, <1>2, <1>3 DEF InPlace, Excl
<1>5. Releases'
  BY <1>1, <1>2, <1>3 DEF Releases
<1> QED BY <1>4, <1>5

LEMMA PlaceStep ==
  ASSUME SessionInv, ExecHeld, InPlace, Releases, [Next]_vars
  PROVE  InPlace' /\ Releases'
<1> USE DEF connVars, shellVars, dataVars, lockVars, goVars
<1>1. \A c \in ConnIds : c \in Goroutines /\ c \notin Procs
  BY SessionAssumption DEF SessionAssumption, ConnIds, Goroutines
<1>2. \A h \in Procs : h \in Goroutines /\ h # None
  BY SessionAssumption DEF SessionAssumption, Goroutines
<1>3. ASSUME UNCHANGED <<execLock, pc, op>> PROVE InPlace' /\ Releases'
  BY <1>3 DEF InPlace, Releases
<1>4. ASSUME NEW g \in Procs, Connect(g), ~StartKeepalive(g) PROVE InPlace' /\ Releases'
  <2>1. PICK label \in ConnectPCs \cup {AfterConnect(g), AfterConnectErr(g)} : Goto(g, label)
    BY <1>4 DEF Connect, ConnectLock, ConnectStop, Dial, Handshake, ResetCwd, ConnectErr, ConnectPCs
  <2>2. UNCHANGED execLock /\ pc[g] \in {"c_lock"} \cup ConnectPCs
    BY <1>4 DEF Connect, ConnectLock, ConnectStop, Dial, Handshake, ResetCwd, ConnectPCs
  <2>3. op[g] # "remove"
    BY <2>2 DEF InPlace, RemovePCs, ConnectPCs, DisconnectPCs
  <2>4. label # "x_lock" /\ (op[g] = "exec" => label \in ExecPCs /\ label # "idle")
    BY <2>1 DEF ExecPCs, ConnectPCs, AfterConnect, AfterConnectErr
  <2> QED BY <1>2, <2>1, <2>2, <2>3, <2>4, PlaceKept DEF Excl
<1>5. ASSUME NEW g \in Procs, StartKeepalive(g) PROVE InPlace' /\ Releases'
  <2>1. pc[g] = "c_keep" /\ pc'[g] = AfterConnect(g) /\ UNCHANGED execLock
    BY <1>5, KeepaliveStarts DEF StartKeepalive
  <2>2. \A h \in Procs : h # g => pc'[h] = pc[h]
    BY <1>1, <1>2, <1>5, KeepaliveStarts
  <2>3. \A h \in Procs : op'[h] = IF h = g /\ AfterConnect(g) = "idle" THEN "none" ELSE op[h]
    BY <1>2, <1>5 DEF StartKeepalive, SessionInv, TypeOK, PCTypeOK
  <2>4. op[g] # "remove"
    BY <2>1 DEF InPlace, RemovePCs, DisconnectPCs
  <2>5. AfterConnect(g) # "x_lock" /\ (op[g] = "exec" => AfterConnect(g) = "s_lock")
    BY DEF AfterConnect
  <2>6. InPlace'
    BY <2>1, <2>2, <2>3, <2>4, <2>5 DEF InPlace, ExecPCs
  <2>7. Releases'
    BY <2>1, <2>2, <2>3, <2>4, <2>5 DEF Releases, Excl
  <2> QED BY <2>6, <2>7
<1>6. ASSUME NEW g \in Goroutines, Disconnect(g) PROVE InPlace' /\ Releases'
  <2>1. PICK label \in DisconnectPCs \cup {AfterDisconnect(g)} : Goto(g, label)
    BY <1>6 DEF Disconnect, Claim, CloseClient, TeardownLock, TeardownShell, TeardownRelay, DisconnectPCs
  <2>2. UNCHANGED execLock
    BY <1>6 DEF Disconnect, Claim, CloseClient, TeardownLock, TeardownShell, TeardownRelay
  <2>3. label # "x_lock" /\ (op[g] \in Excl => label \in RemovePCs /\ label \in ExecPCs /\ label # "idle")
    BY <2>1 DEF Excl, RemovePCs, ExecPCs, DisconnectPCs, AfterDisconnect
  <2> QED BY <2>1, <2>2, <2>3, PlaceKept DEF Excl
<1>7. ASSUME NEW g \in Procs, EnsureShell(g) PROVE InPlace' /\ Releases'
  <2> USE DEF EnsureShell, EnsureLock, EnsureCheck, EnsureScript, NewShell, OpenShell, StartShell,
          EnsureErr
  <2>1. PICK label \in EnsurePCs \cup {AfterEnsure(g), AfterEnsureErr(g)} : Goto(g, label)
    BY <1>7 DEF EnsurePCs
  <2>2. UNCHANGED execLock /\ pc[g] \in {"s_lock"} \cup EnsurePCs
    BY <1>7 DEF EnsurePCs
  <2>3. op[g] # "remove"
    BY <2>2 DEF InPlace, RemovePCs, EnsurePCs, DisconnectPCs
  <2>4. label # "x_lock" /\ (op[g] = "exec" => label \in ExecPCs /\ label # "idle")
    BY <2>1 DEF ExecPCs, EnsurePCs, RunPCs, AfterEnsure, AfterEnsureErr
  <2> QED BY <1>2, <2>1, <2>2, <2>3, <2>4, PlaceKept DEF Excl
<1>8. ASSUME NEW g \in Procs, ExecLock(g) PROVE InPlace' /\ Releases'
  <2>1. pc[g] = "x_lock" /\ execLock' = g
    BY <1>8 DEF ExecLock
  <2>2. pc' = [pc EXCEPT ![g] = IF op[g] = "exec" THEN "c_lock" ELSE "d_lock"] /\ op' = op
    BY <1>8 DEF ExecLock, Goto, Label
  <2>3. op[g] \in Excl
    BY <2>1, <1>2 DEF InPlace
  <2> QED BY <1>2, <2>1, <2>2, <2>3 DEF InPlace, Releases, ExecPCs, RemovePCs, Excl, SessionInv, TypeOK, PCTypeOK
<1>9. ASSUME NEW g \in Procs, ExecUnlock(g) PROVE InPlace' /\ Releases'
  <2>1. execLock' = None /\ op' = [op EXCEPT ![g] = "none"] /\ pc' = [pc EXCEPT ![g] = "idle"]
    BY <1>9 DEF ExecUnlock, Goto, Label
  <2> QED BY <1>2, <2>1 DEF InPlace, Releases, SessionInv, TypeOK, PCTypeOK
<1>10. ASSUME NEW g \in Procs, Dispatch(g) \/ Write(g) \/ Result(g) \/ RunErr(g) \/ ExecOk(g) \/ ExecErr(g)
       PROVE  InPlace' /\ Releases'
  <2> USE DEF Dispatch, Write, Result, RunErr, ExecOk, ExecErr
  <2>1. PICK label \in {"r_write", "r_wait", "x_cwd", "x_fail", "x_unlock", "d_lock"} : Goto(g, label)
    BY <1>10
  <2>2. UNCHANGED execLock /\ pc[g] \in RunPCs
    BY <1>10 DEF RunPCs
  <2>3. op[g] # "remove"
    BY <2>2 DEF InPlace, RemovePCs, RunPCs, DisconnectPCs
  <2> QED BY <1>2, <2>1, <2>2, <2>3, PlaceKept DEF Excl, ExecPCs, RunPCs
<1>11. ASSUME NEW g \in Procs, Transfer(g) PROVE InPlace' /\ Releases'
  <2> USE DEF Transfer, HomeRead, HomeSnapshot, HomeFetch, HomeStore, Copy
  <2>1. PICK label \in {"idle", "h_snap", "h_fetch", "h_store", "t_conn"} : Goto(g, label)
    BY <1>11
  <2>2. UNCHANGED execLock /\ pc[g] \in {"h_read", "h_snap", "h_fetch", "h_store", "t_conn"}
    BY <1>11
  <2>3. op[g] \notin Excl
    BY <2>2 DEF InPlace, Excl, RemovePCs, ExecPCs, RunPCs, ConnectPCs, EnsurePCs, DisconnectPCs
  <2> QED BY <1>2, <2>1, <2>2, <2>3, PlaceKept DEF Excl
<1>12. ASSUME NEW g \in Procs, NEW o \in Entry \ {"update"}, Begin(g, o)
       PROVE  InPlace' /\ Releases'
  <2>1. pc[g] = "idle" /\ UNCHANGED execLock
    BY <1>12 DEF Begin
  <2>2. pc'[g] \in {"x_lock", "d_lock", "c_lock"} /\ op'[g] = o /\ (pc'[g] = "x_lock" <=> o \in Excl)
    BY <1>2, <1>12 DEF Begin, Label, Excl, SessionInv, TypeOK, PCTypeOK
  <2>3. \A h \in Procs : h # g => op'[h] = op[h] /\ pc'[h] = pc[h]
    BY <1>2, <1>12 DEF Begin, Label, SessionInv, TypeOK, PCTypeOK
  <2>4. op[g] \notin Excl
    BY <2>1 DEF InPlace, Excl, RemovePCs, ExecPCs, RunPCs, ConnectPCs, EnsurePCs, DisconnectPCs
  <2>5. execLock # g
    BY <2>4 DEF Releases
  <2>6. InPlace'
    BY <2>2, <2>3 DEF InPlace, Excl, RemovePCs, ExecPCs
  <2>7. Releases'
    BY <2>1, <2>3, <2>5 DEF Releases
  <2> QED BY <2>6, <2>7
<1>13. ASSUME NEW g \in ConnIds, KeepaliveLoop(g) PROVE InPlace' /\ Releases'
  <2> USE DEF KeepaliveLoop, KeepaliveCapture, KeepaliveStop, KeepaliveTick, KeepaliveSent,
          KeepaliveLost
  <2>1. PICK label \in {"k_loop", "k_send", "exited", "d_lock"} : Goto(g, label)
    BY <1>13
  <2>2. UNCHANGED execLock /\ op[g] = "keepalive"
    BY <1>13 DEF SessionInv, TypeOK, PCTypeOK
  <2> QED BY <1>1, <2>1, <2>2, PlaceKept DEF Excl
<1>14. CASE Environment
  <2>1. UNCHANGED <<execLock, pc, op>>
    BY <1>14 DEF Environment, ToggleSafeRm, Stall, Hang, Drop, Degrade, ShellDies
  <2> QED BY <1>3, <2>1
<1>15. CASE UNCHANGED vars
  BY <1>3, <1>15 DEF vars
<1>16. ASSUME NEW g \in Procs, CallerStep(g) PROVE InPlace' /\ Releases'
  BY <1>2, <1>4, <1>5, <1>6, <1>7, <1>8, <1>9, <1>10, <1>11, <1>16 DEF CallerStep, Exec
<1>17. ASSUME NEW g \in ConnIds, KeeperStep(g) PROVE InPlace' /\ Releases'
  BY <1>1, <1>6, <1>13, <1>17 DEF KeeperStep
<1> QED BY <1>12, <1>14, <1>15, <1>16, <1>17 DEF Next

LEMMA ExecInvariant == Spec => [](ExecHeld /\ PendingHeld /\ InPlace /\ Releases)
<1>1. Init => ExecHeld /\ PendingHeld /\ InPlace /\ Releases
  <2> SUFFICES ASSUME Init PROVE ExecHeld /\ PendingHeld /\ InPlace /\ Releases
    OBVIOUS
  <2>1. \A g \in Procs : pc[g] = "idle" /\ op[g] = "none" /\ execLock # g
    BY SessionAssumption DEF SessionAssumption, Init, Goroutines
  <2> QED BY <2>1 DEF Init, ExecHeld, PendingHeld, InPlace, Releases, Excl, RunPCs
<1>2. SessionInv /\ SessionInv' /\ ExecHeld /\ PendingHeld /\ InPlace /\ Releases /\ [Next]_vars
        => (ExecHeld /\ PendingHeld /\ InPlace /\ Releases)'
  BY ExecHeldStep, PlaceStep
<1> QED BY <1>1, <1>2, SessionInvariant, PTL DEF Spec

\* Exec never finds its shell busy with another caller's command: execLock makes the
\* error of dispatch unreachable, whatever Transfers, Removes, disconnects and
\* keepalives do at the same time.
THEOREM ShellIsNeverBusy == Spec => []NeverBusy
<1>1. SessionInv /\ ExecHeld /\ PendingHeld => NeverBusy
  <2> SUFFICES ASSUME SessionInv, ExecHeld, PendingHeld, NEW g \in Procs, NEW k \in ShellIds,
                      pc[g] = "r_disp", sh[g] = k, pending[k] # None
               PROVE  FALSE
    BY DEF NeverBusy
  <2>1. pending[k] \in Procs /\ pc[pending[k]] \in {"r_write", "r_wait"}
    BY DEF PendingHeld, SessionInv, TypeOK, ShellTypeOK
  <2>2. execLock = g /\ execLock = pending[k]
    BY <2>1 DEF ExecHeld, RunPCs, Excl
  <2> QED BY <2>1, <2>2
<1> QED BY <1>1, SessionInvariant, ExecInvariant, PTL

\* execLock is owned exactly by the Exec or Remove in flight that has taken it: every
\* way out of them, a failed connect, a dead shell or a timeout included, gives it back.
THEOREM ExecLockGivenBack == Spec => []ExecLockOwned
<1>1. ExecHeld /\ Releases => ExecLockOwned
  BY DEF ExecHeld, Releases, ExecLockOwned, Excl
<1> QED BY <1>1, ExecInvariant, PTL

\* Commands run one at a time, and none while a Remove that waited for it disconnects.
THEOREM CommandsAreSerialised == Spec => []OneCommand
<1>1. ExecHeld => OneCommand
  BY DEF ExecHeld, OneCommand, Excl, RunPCs
<1> QED BY <1>1, ExecInvariant, PTL

-----------------------------------------------------------------------------
(* The lock order: NoCircularWait. *)

\* Whoever holds a lock waits at most for one further down the order.
LEMMA OrderKept ==
  ASSUME SessionInv, ExecHeld, InPlace, Releases
  PROVE  NoCircularWait
<1> SUFFICES ASSUME NEW D \in SUBSET Goroutines, D # {}, \A g \in D : \E h \in D : WaitsFor(g, h)
             PROVE  FALSE
  BY DEF NoCircularWait
<1> DEFINE Mu     == {"s_check", "d_shell", "s_start", "r_disp", "r_wait"}
<1> DEFINE Shell3 == {"c_cwd", "d_shlock", "s_lock", "x_cwd", "x_fail", "h_read", "h_store"}
<1>1. \A g \in D : pc[g] \in Mu \cup Shell3 \cup {"c_lock", "d_lock", "x_lock"} /\ pc[g] # "r_write"
  BY DEF WaitsFor
<1>2. \A g \in D : pc[g] \notin Mu
  <2>1. \A g, h \in D : WaitsFor(g, h) /\ pc[g] \in Mu => pc[h] = "r_write"
    BY DEF WaitsFor
  <2> QED BY <1>1, <2>1
<1>3. \A g \in D : pc[g] \notin Shell3
  <2>1. \A g, h \in D : WaitsFor(g, h) /\ pc[g] \in Shell3 => shellLock = h
    BY DEF WaitsFor
  <2>2. \A h \in D : shellLock = h => pc[h] \in EnsurePCs \cup {"d_shell"}
    BY DEF SessionInv, LocksHeld
  <2>3. \A h \in D : pc[h] \notin EnsurePCs \cup {"d_shell"}
    BY <1>1, <1>2 DEF EnsurePCs
  <2> QED BY <2>1, <2>2, <2>3
<1>4. \A g \in D : pc[g] \notin {"c_lock", "d_lock"}
  <2>1. \A g, h \in D : WaitsFor(g, h) /\ pc[g] \in {"c_lock", "d_lock"} => connectLock = h
    BY DEF WaitsFor
  <2>2. \A h \in D : connectLock = h => pc[h] \in ConnectPCs \cup DisconnectPCs
    BY DEF SessionInv, LocksHeld
  <2>3. \A h \in D : pc[h] \notin ConnectPCs \cup DisconnectPCs
    BY <1>1, <1>2, <1>3 DEF ConnectPCs, DisconnectPCs
  <2> QED BY <2>1, <2>2, <2>3
<1>5. \A g \in D : pc[g] = "x_lock"
  BY <1>1, <1>2, <1>3, <1>4
<1>6. \A g, h \in D : WaitsFor(g, h) => execLock = h
  BY <1>5 DEF WaitsFor
<1>7. \A h \in D : execLock = h => h \in Procs
  BY SessionAssumption DEF SessionAssumption, SessionInv, TypeOK, LockTypeOK
<1> QED BY <1>5, <1>6, <1>7 DEF Releases

\* The order execLock, connectLock, shellLock, then a shell's own mutex is kept by
\* every operation, so no goroutines wait for one another in a circle.
THEOREM LocksAreOrdered == Spec => []NoCircularWait
<1>1. SessionInv /\ ExecHeld /\ InPlace /\ Releases => NoCircularWait
  BY OrderKept
<1> QED BY <1>1, SessionInvariant, ExecInvariant, PTL

-----------------------------------------------------------------------------
(* The shells that are alive: TornDown. *)

\* EnsureShell has given the old shell up and not yet handed out the new one.
StartingPCs == {"s_script", "s_new", "s_open", "s_start"}

\* A shell is alive only as the session's shell or under the goroutine starting it,
\* and while one is being started the session has none.
AliveKnown ==
  \A k \in ShellIds : alive[k] =>
    k = shell \/ \E g \in Procs : pc[g] = "s_start" /\ sh[g] = k
OneAtATime == \A g \in Procs : pc[g] \in StartingPCs => shell = 0
ShellsKnown == AliveKnown /\ OneAtATime

\* A step outside that stretch of EnsureShell which sets no other shell keeps it.
LEMMA ShellsKept ==
  ASSUME SessionInv, ShellsKnown, NEW g \in Goroutines, NEW label, Moves(g, label),
         label \notin StartingPCs, pc[g] # "s_start", shell' = shell,
         \A k \in ShellIds : alive'[k] => alive[k]
  PROVE  ShellsKnown'
<1>1. \A h \in Procs : h \in Goroutines
  BY DEF Goroutines
<1> QED BY <1>1 DEF ShellsKnown, AliveKnown, OneAtATime, Moves

LEMMA CloseShellAlive ==
  ASSUME NEW j, CloseShell(j)
  PROVE  \A k \in ShellIds : alive'[k] <=> alive[k] /\ k # j
BY DEF CloseShell, MarkDead

\* EnsureShell: shellLock makes its goroutine the only one that is starting a shell.
LEMMA EnsureKnown ==
  ASSUME SessionInv, SessionInv', ShellsKnown, NEW g \in Procs, EnsureShell(g)
  PROVE  ShellsKnown'
<1> USE DEF connVars, shellVars, dataVars, lockVars, goVars
<1>1. g \in Goroutines /\ \A h \in Procs : h \in Goroutines
  BY DEF Goroutines
<1>2. PICK label : Moves(g, label)
  BY CallerQuiet
<1>3. pc'[g] = label /\ \A h \in Procs : h # g => pc'[h] = pc[h] /\ sh'[h] = sh[h]
  BY <1>1, <1>2 DEF Moves
<1>4. \A l : Goto(g, l) => pc'[g] = l
  BY <1>1 DEF Goto, Label, SessionInv, TypeOK, PCTypeOK
<1>5. pc[g] \in EnsurePCs => \A h \in Procs : h # g => pc[h] \notin StartingPCs
  BY <1>1, OneHolder DEF SessionInv, ShellHolders, EnsurePCs, StartingPCs
<1>6. AfterEnsure(g) \notin StartingPCs /\ AfterEnsureErr(g) \notin StartingPCs
  BY DEF AfterEnsure, AfterEnsureErr, StartingPCs
<1>7. CASE EnsureLock(g)
  <2>1. label \notin StartingPCs
    BY <1>3, <1>4, <1>6, <1>7 DEF EnsureLock, StartingPCs
  <2> QED BY <1>1, <1>2, <1>7, <2>1, ShellsKept DEF EnsureLock
<1>8. CASE EnsureCheck(g)
  <2>1. CASE Goto(g, AfterEnsure(g)) /\ UNCHANGED <<shell, alive>>
    BY <1>1, <1>2, <1>3, <1>4, <1>6, <1>8, <2>1, ShellsKept DEF EnsureCheck
  <2>2. CASE Goto(g, "s_script") /\ CloseShell(shell) /\ shell' = 0
    <3>1. \A k \in ShellIds : ~alive'[k]
      BY <1>5, <1>8, <2>2, CloseShellAlive
         DEF EnsureCheck, EnsurePCs, StartingPCs, ShellsKnown, AliveKnown
    <3> QED BY <2>2, <3>1 DEF ShellsKnown, AliveKnown, OneAtATime
  <2> QED BY <1>8, <2>1, <2>2 DEF EnsureCheck
<1>9. CASE EnsureScript(g) \/ NewShell(g)
  <2>1. pc[g] \in {"s_script", "s_new"} /\ shell = 0 /\ UNCHANGED <<shell, alive>>
    BY <1>9 DEF EnsureScript, NewShell, ShellsKnown, OneAtATime, StartingPCs
  <2>2. \A k \in ShellIds : ~alive[k]
    BY <1>5, <2>1, SessionAssumption
       DEF EnsurePCs, StartingPCs, ShellsKnown, AliveKnown, ShellIds, SessionAssumption
  <2> QED BY <2>1, <2>2 DEF ShellsKnown, AliveKnown, OneAtATime
<1>10. CASE OpenShell(g)
  <2>1. pc[g] = "s_open" /\ shell = 0 /\ UNCHANGED shell
    BY <1>10 DEF OpenShell, ShellsKnown, OneAtATime, StartingPCs
  <2>2. \A k \in ShellIds : ~alive[k]
    BY <1>5, <2>1, SessionAssumption
       DEF EnsurePCs, StartingPCs, ShellsKnown, AliveKnown, ShellIds, SessionAssumption
  <2>3. CASE Goto(g, "s_start") /\ alive' = [alive EXCEPT ![sh[g]] = TRUE] /\ UNCHANGED sh
    <3>1. \A k \in ShellIds : alive'[k] => k = sh'[g]
      BY <2>2, <2>3 DEF SessionInv, TypeOK, ShellTypeOK
    <3>2. pc'[g] = "s_start"
      BY <1>4, <2>3
    <3> QED BY <2>1, <3>1, <3>2 DEF ShellsKnown, AliveKnown, OneAtATime
  <2>4. CASE UNCHANGED alive
    BY <2>1, <2>2, <2>4 DEF ShellsKnown, AliveKnown, OneAtATime
  <2> QED BY <1>10, <2>3, <2>4 DEF OpenShell
<1>11. CASE StartShell(g)
  <2>1. pc[g] = "s_start" /\ shell = 0
    BY <1>11 DEF StartShell, ShellsKnown, OneAtATime, StartingPCs
  <2>2. \A k \in ShellIds : alive[k] => k = sh[g]
    BY <1>5, <2>1, SessionAssumption
       DEF EnsurePCs, StartingPCs, ShellsKnown, AliveKnown, ShellIds, SessionAssumption
  <2>3. \A k \in ShellIds : alive'[k] => alive[k]
    BY <1>11, CloseShellAlive DEF StartShell
  <2>4. CASE shell' = sh[g] /\ Goto(g, AfterEnsure(g))
    <3>1. \A h \in Procs : pc'[h] \notin StartingPCs
      BY <1>3, <1>4, <1>5, <1>6, <2>1, <2>4 DEF EnsurePCs
    <3> QED BY <2>2, <2>3, <2>4, <3>1 DEF ShellsKnown, AliveKnown, OneAtATime
  <2>5. CASE CloseShell(sh[g]) /\ shell' = 0
    <3>1. \A k \in ShellIds : ~alive'[k]
      BY <2>2, <2>5, CloseShellAlive
    <3> QED BY <2>5, <3>1 DEF ShellsKnown, AliveKnown, OneAtATime
  <2> QED BY <1>11, <2>1, <2>4, <2>5 DEF StartShell
<1> QED BY <1>7, <1>8, <1>9, <1>10, <1>11 DEF EnsureShell

LEMMA ShellsStep ==
  ASSUME SessionInv, SessionInv', ShellsKnown, [Next]_vars PROVE ShellsKnown'
<1> USE DEF connVars, shellVars, dataVars, lockVars, goVars
<1>1. \A h \in Procs : h \in Goroutines
  BY DEF Goroutines
<1>2. ASSUME UNCHANGED <<shell, pc, sh>>, \A k \in ShellIds : alive'[k] => alive[k]
      PROVE  ShellsKnown'
  BY <1>2 DEF ShellsKnown, AliveKnown, OneAtATime
<1>3. ASSUME NEW g \in Procs, Connect(g), ~StartKeepalive(g) PROVE ShellsKnown'
  <2>1. PICK label : Goto(g, label) /\ Moves(g, label)
    BY <1>3, ConnectMoves
  <2>2. label = pc'[g] /\ UNCHANGED <<shell, alive>> /\ pc[g] # "s_start"
    BY <1>3, <2>1 DEF Moves, Connect, ConnectLock, ConnectStop, Dial, Handshake, ResetCwd
  <2>3. pc'[g] \in ConnectPCs \cup {AfterConnect(g), AfterConnectErr(g)}
    BY <1>1, <1>3 DEF Connect, ConnectLock, ConnectStop, Dial, Handshake, ResetCwd, ConnectErr,
       Goto, Label, ConnectPCs, SessionInv, TypeOK, PCTypeOK
  <2>4. label \notin StartingPCs
    BY <2>2, <2>3 DEF ConnectPCs, StartingPCs, AfterConnect, AfterConnectErr
  <2> QED BY <1>1, <2>1, <2>2, <2>4, ShellsKept
<1>4. ASSUME NEW g \in Procs, StartKeepalive(g) PROVE ShellsKnown'
  <2>1. \A h \in Procs : h # g => pc'[h] = pc[h]
    BY <1>1, <1>4, KeepaliveStarts, SessionAssumption DEF SessionAssumption, ConnIds
  <2>2. pc[g] = "c_keep" /\ pc'[g] \notin StartingPCs
    BY <1>4, KeepaliveStarts DEF AfterConnect, StartingPCs
  <2>3. UNCHANGED <<sh, shell, alive>>
    BY <1>4 DEF StartKeepalive
  <2> QED BY <2>1, <2>2, <2>3 DEF ShellsKnown, AliveKnown, OneAtATime
<1>5. ASSUME NEW g \in Goroutines, Disconnect(g) PROVE ShellsKnown'
  <2>1. PICK label : Goto(g, label) /\ Moves(g, label)
    BY <1>5, DisconnectMoves
  <2>2. CASE TeardownShell(g)
    <3>1. shell' = 0 /\ pc[g] = "d_shell"
      BY <2>2 DEF TeardownShell, ForgetShell
    <3>2. \A k \in ShellIds : alive'[k] => alive[k] /\ k # shell
      BY <2>2, CloseShellAlive DEF TeardownShell
    <3>3. \A h \in Procs : pc[h] = "s_start" => pc'[h] = pc[h] /\ sh'[h] = sh[h]
      BY <1>1, <2>1, <3>1 DEF Moves
    <3> QED BY <3>1, <3>2, <3>3 DEF ShellsKnown, AliveKnown, OneAtATime
  <2>3. CASE ~TeardownShell(g)
    <3>1. UNCHANGED <<shell, alive>> /\ pc[g] # "s_start"
      BY <1>5, <2>3 DEF Disconnect, Claim, CloseClient, TeardownLock, TeardownRelay
    <3>2. label = pc'[g] /\ pc'[g] \in DisconnectPCs \cup {AfterDisconnect(g)}
      BY <1>5, <2>1 DEF Disconnect, Claim, CloseClient, TeardownLock, TeardownShell, TeardownRelay,
         Goto, Label, Moves, DisconnectPCs, SessionInv, TypeOK, PCTypeOK
    <3>3. label \notin StartingPCs
      BY <3>2 DEF DisconnectPCs, StartingPCs, AfterDisconnect
    <3> QED BY <2>1, <3>1, <3>3, ShellsKept
  <2> QED BY <2>2, <2>3
<1>6. ASSUME NEW g \in Procs,
             Exec(g) \/ Transfer(g) \/ \E o \in Entry \ {"update"} : Begin(g, o)
      PROVE  ShellsKnown'
  <2>1. PICK label : Moves(g, label)
    BY <1>6, CallerQuiet
  <2>2. CASE Exec(g) \/ Transfer(g)
    <3> USE DEF Exec, Transfer, ExecLock, ExecUnlock, Dispatch, Write, Result, RunErr, ExecOk,
            ExecErr, HomeRead, HomeSnapshot, HomeFetch, HomeStore, Copy
    <3>1. PICK l \in {"c_lock", "d_lock", "idle", "r_write", "r_wait", "x_cwd", "x_fail",
                      "x_unlock", "h_snap", "h_fetch", "h_store", "t_conn"} : Goto(g, l)
      BY <2>2
    <3>2. label = l
      BY <1>1, <2>1, <3>1 DEF Moves, Goto, Label, SessionInv, TypeOK, PCTypeOK
    <3>3. UNCHANGED shell /\ pc[g] # "s_start" /\ \A k \in ShellIds : alive'[k] => alive[k]
      BY <2>2, CloseShellAlive
    <3> QED BY <1>1, <2>1, <3>1, <3>2, <3>3, ShellsKept DEF StartingPCs
  <2>3. ASSUME NEW o \in Entry \ {"update"}, Begin(g, o) PROVE ShellsKnown'
    <3>1. pc'[g] \in {"x_lock", "d_lock", "c_lock"} /\ pc'[g] = label
      BY <1>1, <2>1, <2>3 DEF Begin, Label, Moves, SessionInv, TypeOK, PCTypeOK
    <3> QED BY <1>1, <2>1, <2>3, <3>1, ShellsKept DEF Begin, StartingPCs
  <2> QED BY <1>6, <2>2, <2>3
<1>7. ASSUME NEW g \in ConnIds, KeepaliveLoop(g) PROVE ShellsKnown'
  <2> USE DEF KeepaliveLoop, KeepaliveCapture, KeepaliveStop, KeepaliveTick, KeepaliveSent,
          KeepaliveLost
  <2>1. g \in Goroutines
    BY DEF Goroutines
  <2>2. PICK l \in {"k_loop", "k_send", "exited", "d_lock"} : Goto(g, l)
    BY <1>7
  <2>3. PICK label : Moves(g, label)
    BY <1>7, KeeperQuiet
  <2>4. label = l
    BY <2>1, <2>2, <2>3 DEF Moves, Goto, Label, SessionInv, TypeOK, PCTypeOK
  <2> QED BY <1>7, <2>1, <2>2, <2>3, <2>4, ShellsKept DEF StartingPCs
<1>8. CASE Environment
  <2>1. UNCHANGED <<shell, pc, sh>>
    BY <1>8 DEF Environment, ToggleSafeRm, Stall, Hang, Drop, Degrade, ShellDies
  <2>2. \A k \in ShellIds : alive'[k] => alive[k]
    BY <1>8 DEF Environment, ToggleSafeRm, Stall, Hang, Drop, Degrade, ShellDies, MarkDead
  <2> QED BY <1>2, <2>1, <2>2
<1>9. CASE UNCHANGED vars
  BY <1>2, <1>9 DEF vars
<1>10. ASSUME NEW g \in Procs, CallerStep(g) PROVE ShellsKnown'
  BY <1>1, <1>3, <1>4, <1>5, <1>6, <1>10, EnsureKnown DEF CallerStep
<1>11. ASSUME NEW g \in ConnIds, KeeperStep(g) PROVE ShellsKnown'
  <2>1. g \in Goroutines
    BY DEF Goroutines
  <2> QED BY <1>5, <1>7, <1>11, <2>1 DEF KeeperStep
<1> QED BY <1>6, <1>8, <1>9, <1>10, <1>11 DEF Next

LEMMA ShellsInvariant == Spec => []ShellsKnown
<1>1. Init => ShellsKnown
  BY DEF Init, ShellsKnown, AliveKnown, OneAtATime
<1>2. SessionInv /\ SessionInv' /\ ShellsKnown /\ [Next]_vars => ShellsKnown'
  BY ShellsStep
<1> QED BY <1>1, <1>2, SessionInvariant, PTL DEF Spec

\* Nothing survives a Disconnect: when it has torn the shell down, and until it
\* returns, no client is published and no shell is alive, not even one that an
\* EnsureShell was starting when the Disconnect began.
THEOREM NothingSurvives == Spec => []TornDown
<1>1. SessionInv /\ ShellsKnown => TornDown
  <2> SUFFICES ASSUME SessionInv, ShellsKnown, NEW g \in Goroutines, pc[g] = "d_relay"
               PROVE  conn = 0 /\ shell = 0 /\ \A k \in ShellIds : ~alive[k]
    BY DEF TornDown
  <2>1. conn = 0 /\ ~Closing
    <3>1. \A h \in Goroutines : pc[h] \in ConnHolders => h = g
      BY Alone DEF ConnHolders, DisconnectPCs
    <3> QED BY <3>1 DEF Closing, ConnHolders, DisconnectPCs, SessionInv, ConnNewest
  <2>2. shell = 0 /\ \A h \in Goroutines : pc[h] \notin EnsurePCs
    BY <2>1 DEF SessionInv, ShellNewest
  <2>3. \A h \in Procs : pc[h] # "s_start"
    BY <2>2 DEF EnsurePCs, Goroutines
  <2> QED BY <2>1, <2>2, <2>3, SessionAssumption
          DEF ShellsKnown, AliveKnown, ShellIds, SessionAssumption
<1> QED BY <1>1, SessionInvariant, ShellsInvariant, PTL

-----------------------------------------------------------------------------
(* The shell of a command: CommandOnCurrent. *)

\* A shell that is being started belongs to the one goroutine that starts it.
OpeningPCs == {"s_open", "s_start"}
Fresh == \A g, h \in Procs : g # h /\ pc[h] \in OpeningPCs => sh[g] # sh[h]

\* A step that hands out no shell keeps it.
LEMMA FreshKept ==
  ASSUME SessionInv, Fresh, NEW g \in Goroutines, NEW label, Moves(g, label),
         label \notin OpeningPCs \/ (label = "s_start" /\ pc[g] = "s_open" /\ sh'[g] = sh[g]),
         sh'[g] \in {sh[g], 0}
  PROVE  Fresh'
<1>1. \A h \in Procs : h \in Goroutines /\ (pc[h] \in OpeningPCs => sh[h] # 0)
  BY DEF Goroutines, OpeningPCs, SessionInv, ShellNewest
<1> QED BY <1>1 DEF Fresh, Moves, OpeningPCs

LEMMA FreshEnsure ==
  ASSUME SessionInv, Fresh, NEW g \in Procs, EnsureShell(g)
  PROVE  Fresh'
<1> USE DEF connVars, shellVars, dataVars, lockVars, goVars
<1>1. g \in Goroutines /\ \A h \in Procs : h \in Goroutines
  BY DEF Goroutines
<1>2. PICK label : Moves(g, label)
  BY CallerQuiet
<1>3. pc'[g] = label /\ \A h \in Procs : h # g => pc'[h] = pc[h] /\ sh'[h] = sh[h]
  BY <1>1, <1>2 DEF Moves
<1>4. \A l : Goto(g, l) => pc'[g] = l
  BY <1>1 DEF Goto, Label, SessionInv, TypeOK, PCTypeOK
<1>5. pc[g] \in EnsurePCs => \A h \in Procs : h # g => pc[h] \notin OpeningPCs
  BY <1>1, OneHolder DEF SessionInv, ShellHolders, EnsurePCs, OpeningPCs
<1>6. AfterEnsure(g) \notin OpeningPCs /\ AfterEnsureErr(g) \notin OpeningPCs
  BY DEF AfterEnsure, AfterEnsureErr, OpeningPCs
<1>7. sh \in [Goroutines -> 0..MaxShell] /\ \A h \in Procs : sh[h] <= started
  BY <1>1 DEF SessionInv, TypeOK, LocalTypeOK, ShellNewest
<1>8. CASE EnsureLock(g) \/ EnsureScript(g)
  <2>1. label \notin OpeningPCs /\ sh' = sh
    BY <1>3, <1>4, <1>6, <1>8 DEF EnsureLock, EnsureScript, OpeningPCs
  <2> QED BY <1>1, <1>2, <2>1, FreshKept
<1>9. CASE EnsureCheck(g)
  <2>1. label \notin OpeningPCs /\ pc[g] = "s_check"
    BY <1>3, <1>4, <1>6, <1>9 DEF EnsureCheck, OpeningPCs
  <2> QED BY <1>3, <1>5, <2>1 DEF Fresh, EnsurePCs
<1>10. CASE NewShell(g)
  <2>1. CASE Goto(g, "s_open")
    <3>1. pc'[g] = "s_open"
      BY <1>4, <2>1
    <3>2. started' = started + 1 /\ sh' = [sh EXCEPT ![g] = started + 1] /\ pc[g] = "s_new"
      <4>1. ~EnsureErr(g)
        BY <1>4, <1>6, <3>1 DEF EnsureErr, OpeningPCs
      <4> QED BY <1>10, <4>1 DEF NewShell
    <3>3. sh'[g] = started + 1 /\ \A h \in Procs : h # g => sh'[h] = sh[h] /\ sh[h] # started + 1
      <4>1. started \in Nat /\ \A h \in Procs : sh[h] \in Nat
        BY <1>1, <1>7, SessionAssumption DEF SessionInv, TypeOK, ShellTypeOK
      <4> QED BY <1>1, <1>7, <3>2, <4>1
    <3> QED BY <1>3, <1>5, <3>2, <3>3 DEF Fresh, EnsurePCs
  <2>2. CASE EnsureErr(g)
    <3>1. label \notin OpeningPCs /\ sh'[g] = 0
      BY <1>1, <1>3, <1>4, <1>6, <1>7, <2>2 DEF EnsureErr
    <3> QED BY <1>1, <1>2, <3>1, FreshKept
  <2> QED BY <1>10, <2>1, <2>2 DEF NewShell
<1>11. CASE OpenShell(g)
  <2>1. CASE Goto(g, "s_start") /\ sh' = sh
    <3>1. label = "s_start" /\ pc[g] = "s_open"
      BY <1>3, <1>4, <1>11, <2>1 DEF OpenShell
    <3> QED BY <1>1, <1>2, <2>1, <3>1, FreshKept
  <2>2. CASE EnsureErr(g)
    <3>1. label \notin OpeningPCs /\ sh'[g] = 0
      BY <1>1, <1>3, <1>4, <1>6, <1>7, <2>2 DEF EnsureErr
    <3> QED BY <1>1, <1>2, <3>1, FreshKept
  <2> QED BY <1>11, <2>1, <2>2 DEF OpenShell
<1>12. CASE StartShell(g)
  <2>1. label \notin OpeningPCs
    BY <1>3, <1>4, <1>6, <1>12 DEF StartShell, EnsureErr
  <2>2. sh'[g] \in {sh[g], 0}
    BY <1>1, <1>7, <1>12 DEF StartShell, EnsureErr
  <2> QED BY <1>1, <1>2, <2>1, <2>2, FreshKept
<1> QED BY <1>8, <1>9, <1>10, <1>11, <1>12 DEF EnsureShell

LEMMA FreshStep ==
  ASSUME SessionInv, Fresh, [Next]_vars PROVE Fresh'
<1> USE DEF connVars, shellVars, dataVars, lockVars, goVars
<1>1. \A h \in Procs : h \in Goroutines
  BY DEF Goroutines
<1>2. sh \in [Goroutines -> 0..MaxShell]
  BY DEF SessionInv, TypeOK, LocalTypeOK
<1>3. ASSUME NEW g \in Procs, Connect(g), ~StartKeepalive(g) PROVE Fresh'
  <2>1. PICK label : Goto(g, label) /\ Moves(g, label) /\ UNCHANGED sh
    BY <1>3, ConnectMoves
  <2>2. label = pc'[g]
    BY <2>1 DEF Moves
  <2>3. pc'[g] \in ConnectPCs \cup {AfterConnect(g), AfterConnectErr(g)}
    BY <1>1, <1>3 DEF Connect, ConnectLock, ConnectStop, Dial, Handshake, ResetCwd, ConnectErr,
       Goto, Label, ConnectPCs, SessionInv, TypeOK, PCTypeOK
  <2>4. label \notin OpeningPCs
    BY <2>2, <2>3 DEF ConnectPCs, OpeningPCs, AfterConnect, AfterConnectErr
  <2> QED BY <1>1, <2>1, <2>4, FreshKept
<1>4. ASSUME NEW g \in Procs, StartKeepalive(g) PROVE Fresh'
  <2>1. \A h \in Procs : h # g => pc'[h] = pc[h]
    BY <1>1, <1>4, KeepaliveStarts, SessionAssumption DEF SessionAssumption, ConnIds
  <2>2. pc'[g] \notin OpeningPCs
    BY <1>4, KeepaliveStarts DEF AfterConnect, OpeningPCs
  <2>3. UNCHANGED sh
    BY <1>4 DEF StartKeepalive
  <2> QED BY <2>1, <2>2, <2>3 DEF Fresh
<1>5. ASSUME NEW g \in Goroutines, Disconnect(g) PROVE Fresh'
  <2>1. PICK label : Goto(g, label) /\ Moves(g, label)
    BY <1>5, DisconnectMoves
  <2>2. label = pc'[g] /\ pc'[g] \in DisconnectPCs \cup {AfterDisconnect(g)}
    BY <1>5, <2>1 DEF Disconnect, Claim, CloseClient, TeardownLock, TeardownShell, TeardownRelay,
       Goto, Label, Moves, DisconnectPCs, SessionInv, TypeOK, PCTypeOK
  <2>3. label \notin OpeningPCs
    BY <2>2 DEF DisconnectPCs, OpeningPCs, AfterDisconnect
  <2>4. sh'[g] \in {sh[g], 0}
    BY <1>2, <1>5 DEF Disconnect, Claim, CloseClient, TeardownLock, TeardownShell, TeardownRelay
  <2> QED BY <2>1, <2>3, <2>4, FreshKept
<1>6. ASSUME NEW g \in Procs, Exec(g) \/ Transfer(g) PROVE Fresh'
  <2> USE DEF Exec, Transfer, ExecLock, ExecUnlock, Dispatch, Write, Result, RunErr, ExecOk,
          ExecErr, HomeRead, HomeSnapshot, HomeFetch, HomeStore, Copy
  <2>1. PICK label : Moves(g, label)
    BY <1>6, CallerQuiet
  <2>2. PICK l \in {"c_lock", "d_lock", "idle", "r_write", "r_wait", "x_cwd", "x_fail",
                    "x_unlock", "h_snap", "h_fetch", "h_store", "t_conn"} : Goto(g, l)
    BY <1>6
  <2>3. label = l
    BY <1>1, <2>1, <2>2 DEF Moves, Goto, Label, SessionInv, TypeOK, PCTypeOK
  <2>4. sh'[g] \in {sh[g], 0}
    BY <1>1, <1>2, <1>6
  <2> QED BY <1>1, <2>1, <2>2, <2>3, <2>4, FreshKept DEF OpeningPCs
<1>7. ASSUME NEW g \in Procs, NEW o \in Entry \ {"update"}, Begin(g, o) PROVE Fresh'
  <2>1. PICK label : Moves(g, label)
    BY <1>7, CallerQuiet
  <2>2. pc'[g] \in {"x_lock", "d_lock", "c_lock"} /\ pc'[g] = label
    BY <1>1, <1>7, <2>1 DEF Begin, Label, Moves, SessionInv, TypeOK, PCTypeOK
  <2> QED BY <1>1, <1>7, <2>1, <2>2, FreshKept DEF Begin, OpeningPCs
<1>8. ASSUME NEW g \in ConnIds, KeepaliveLoop(g) PROVE Fresh'
  <2> USE DEF KeepaliveLoop, KeepaliveCapture, KeepaliveStop, KeepaliveTick, KeepaliveSent,
          KeepaliveLost
  <2>1. g \in Goroutines
    BY DEF Goroutines
  <2>2. PICK l \in {"k_loop", "k_send", "exited", "d_lock"} : Goto(g, l)
    BY <1>8
  <2>3. PICK label : Moves(g, label)
    BY <1>8, KeeperQuiet
  <2>4. label = l
    BY <2>1, <2>2, <2>3 DEF Moves, Goto, Label, SessionInv, TypeOK, PCTypeOK
  <2>5. sh' = sh
    BY <1>8
  <2> QED BY <2>1, <2>2, <2>3, <2>4, <2>5, FreshKept DEF OpeningPCs
<1>9. CASE Environment \/ UNCHANGED vars
  <2>1. UNCHANGED <<pc, sh>>
    BY <1>9 DEF Environment, ToggleSafeRm, Stall, Hang, Drop, Degrade, ShellDies, vars
  <2> QED BY <2>1 DEF Fresh
<1>10. ASSUME NEW g \in Procs, CallerStep(g) PROVE Fresh'
  BY <1>1, <1>3, <1>4, <1>5, <1>6, <1>10, FreshEnsure DEF CallerStep
<1>11. ASSUME NEW g \in ConnIds, KeeperStep(g) PROVE Fresh'
  <2>1. g \in Goroutines
    BY DEF Goroutines
  <2> QED BY <1>5, <1>8, <1>11, <2>1 DEF KeeperStep
<1> QED BY <1>7, <1>9, <1>10, <1>11 DEF Next

\* The shell a command runs on is the session's own and on the newest client, or it is
\* dead: a Disconnect, a keepalive or a second EnsureShell meanwhile closes it first.
THEOREM CommandRunsOnCurrent == Spec => []CommandOnCurrent
<1>1. Init => Fresh
  BY DEF Init, Fresh, OpeningPCs, Goroutines
<1>2. SessionInv /\ Fresh /\ [Next]_vars => Fresh'
  BY FreshStep
<1>3. SessionInv /\ ShellsKnown /\ Fresh => CommandOnCurrent
  <2> SUFFICES ASSUME SessionInv, ShellsKnown, Fresh, NEW g \in Procs, NEW k \in ShellIds,
                      pc[g] \in RunPCs, sh[g] = k, alive[k]
               PROVE  k = shell /\ shConn[k] = dialed
    BY DEF CommandOnCurrent
  <2>1. pc[g] # "s_start"
    BY DEF RunPCs
  <2>2. k = shell
    BY <2>1 DEF ShellsKnown, AliveKnown, Fresh, OpeningPCs
  <2>3. k # 0
    BY SessionAssumption DEF SessionAssumption, ShellIds
  <2> QED BY <2>2, <2>3 DEF SessionInv, ShellNewest
<1> QED BY <1>1, <1>2, <1>3, SessionInvariant, ShellsInvariant, PTL DEF Spec

-----------------------------------------------------------------------------
(* The session implements SessionLifecycle. *)

\* The abstract shell: the client the session's shell runs on.
Bound == IF shell = 0 THEN 0 ELSE shConn[shell]

\* A step that publishes nothing, ends no closing and leaves the session's shell
\* alone is a stutter.
LEMMA Stutter ==
  ASSUME UNCHANGED <<conn, dialed>>, Closing' <=> Closing, Bound' = Bound
  PROVE  UNCHANGED Lifecycle!vars
BY DEF Lifecycle!vars, Bound

\* A goroutine outside the closing part of Disconnect, before and after its step,
\* does not decide whether the session is closing.
LEMMA ClosingKept ==
  ASSUME NEW g \in Goroutines, NEW label, Moves(g, label),
         pc[g] \in ClosingPCs <=> label \in ClosingPCs
  PROVE  Closing' <=> Closing
BY DEF Closing, ClosingPCs, Moves

\* The shell's client is fixed when the shell is made.
LEMMA BoundKept ==
  ASSUME SessionInv, shell' = shell, UNCHANGED shConn \/ \E g \in Procs : NewShell(g)
  PROVE  Bound' = Bound
<1>1. CASE UNCHANGED shConn
  BY <1>1 DEF Bound
<1>2. ASSUME NEW g \in Procs, NewShell(g) PROVE Bound' = Bound
  <2>1. CASE UNCHANGED shConn
    BY <1>1, <2>1
  <2>2. CASE started' = started + 1 /\ shConn' = [shConn EXCEPT ![started'] = cl[g]]
    <3>1. shell \in Nat /\ started \in Nat /\ shell <= started
      BY SessionAssumption DEF SessionAssumption, SessionInv, TypeOK, ShellTypeOK, ShellNewest
    <3>2. shell # 0 => shell \in ShellIds /\ shell # started'
      BY <2>2, <3>1, SessionAssumption
         DEF SessionAssumption, SessionInv, TypeOK, ShellTypeOK, ShellIds
    <3> QED BY <2>2, <3>2 DEF Bound, SessionInv, TypeOK, ShellTypeOK
  <2> QED BY <1>2, <2>1, <2>2 DEF NewShell
<1> QED BY <1>1, <1>2

\* Connect publishes over a session that is down and has no shell.
LEMMA ConnectSim ==
  ASSUME SessionInv, SessionInv', NEW g \in Procs, Connect(g)
  PROVE  [Lifecycle!Next]_(Lifecycle!vars)
<1> USE DEF connVars, shellVars, dataVars, lockVars, goVars
<1>1. g \in Goroutines
  BY DEF Goroutines
<1>2. UNCHANGED <<shell, shConn>>
  BY DEF Connect, ConnectLock, ConnectStop, Dial, Handshake, ResetCwd, StartKeepalive
<1>3. Bound' = Bound
  BY <1>2, BoundKept
<1>4. CASE StartKeepalive(g)
  <2>1. \A h \in Goroutines : pc[h] \in ClosingPCs <=> pc'[h] \in ClosingPCs
    <3>1. pc[dialed] \notin ClosingPCs /\ pc[g] \notin ClosingPCs
      BY <1>1, <1>4, KeepaliveStarts, Alone
         DEF ClosingPCs, ConnHolders, ConnectPCs, DisconnectPCs
    <3>2. pc'[dialed] \notin ClosingPCs /\ pc'[g] \notin ClosingPCs
      BY <1>4, KeepaliveStarts DEF ClosingPCs, AfterConnect
    <3> QED BY <1>4, <3>1, <3>2, KeepaliveStarts
  <2>2. Closing' <=> Closing
    BY <2>1 DEF Closing, ClosingPCs
  <2> QED BY <1>3, <1>4, <2>2, KeepaliveStarts, Stutter
<1>5. CASE ~StartKeepalive(g)
  <2>1. PICK label : Goto(g, label) /\ Moves(g, label)
    BY <1>5, ConnectMoves
  <2>2. pc'[g] = label
    BY <2>1 DEF Moves
  <2>3. pc[g] \notin ClosingPCs
    BY <1>5 DEF Connect, ConnectLock, ConnectStop, Dial, Handshake, ResetCwd, ClosingPCs
  <2>4. pc'[g] \in ConnectPCs \cup {AfterConnect(g), AfterConnectErr(g)}
    BY <1>1, <1>5 DEF Connect, ConnectLock, ConnectStop, Dial, Handshake, ResetCwd, ConnectErr,
       Goto, Label, ConnectPCs, SessionInv, TypeOK, PCTypeOK
  <2>5. label \notin ClosingPCs
    BY <2>2, <2>4 DEF ConnectPCs, ClosingPCs, AfterConnect, AfterConnectErr
  <2>6. Closing' <=> Closing
    BY <1>1, <2>1, <2>3, <2>5, ClosingKept
  <2>7. CASE UNCHANGED <<conn, dialed>>
    BY <1>3, <2>6, <2>7, Stutter
  <2>8. CASE Handshake(g) /\ dialed' = dialed + 1 /\ conn' = dialed'
    <3>1. conn = 0 /\ conn' # 0 /\ pc[g] \in ConnHolders
      BY <1>1, <2>8 DEF Handshake, SessionInv, ConnNewest, TypeOK, ConnTypeOK, ConnHolders, ConnectPCs
    <3>2. ~Closing
      BY <1>1, <2>3, <3>1, Alone DEF Closing, ClosingPCs, ConnHolders, DisconnectPCs
    <3>3. shell = 0
      BY <3>1, <3>2 DEF SessionInv, ShellNewest
    <3>4. Lifecycle!Publish
      BY <1>2, <2>8, <3>1, <3>2, <3>3 DEF Lifecycle!Publish
    <3> QED BY <3>4 DEF Lifecycle!Next
  <2> QED BY <1>5, <2>7, <2>8
          DEF Connect, ConnectLock, ConnectStop, Dial, Handshake, ResetCwd
<1> QED BY <1>4, <1>5

\* Disconnect closes a session and finishes by taking its shell down.
LEMMA DisconnectSim ==
  ASSUME SessionInv, SessionInv', NEW g \in Goroutines, Disconnect(g)
  PROVE  [Lifecycle!Next]_(Lifecycle!vars)
<1> USE DEF connVars, shellVars, dataVars, lockVars, goVars
<1>1. PICK label : Goto(g, label) /\ Moves(g, label)
  BY DisconnectMoves
<1>2. pc'[g] = label /\ \A l : Goto(g, l) => label = l
  BY <1>1 DEF Moves, Goto, Label, SessionInv, TypeOK, PCTypeOK
<1>3. CASE Claim(g)
  <2>1. label = "d_close" /\ conn' = 0 /\ UNCHANGED <<dialed, shell, shConn>>
    BY <1>2, <1>3 DEF Claim
  <2>2. Closing' /\ ~Closing
    <3>1. \A h \in Goroutines : pc[h] \notin ClosingPCs
      BY <1>3, Alone DEF Claim, ConnectUnlocked, ClosingPCs, ConnHolders, DisconnectPCs
    <3> QED BY <1>2, <2>1, <3>1 DEF Closing, ClosingPCs
  <2>3. Lifecycle!Close
    BY <2>1, <2>2 DEF Lifecycle!Close
  <2> QED BY <2>3 DEF Lifecycle!Next
<1>4. CASE CloseClient(g) \/ TeardownLock(g)
  <2>1. pc[g] \in ClosingPCs /\ label \in ClosingPCs
    BY <1>2, <1>4 DEF CloseClient, TeardownLock, ClosingPCs
  <2>2. UNCHANGED <<conn, dialed, shell, shConn>>
    BY <1>4 DEF CloseClient, TeardownLock
  <2> QED BY <1>1, <2>1, <2>2, ClosingKept, BoundKept, Stutter
<1>5. CASE TeardownShell(g)
  <2>1. pc[g] = "d_shell" /\ label = "d_relay" /\ shell' = 0 /\ UNCHANGED <<conn, dialed>>
    BY <1>2, <1>5 DEF TeardownShell, ForgetShell
  <2>2. conn = 0 /\ Closing
    BY <2>1 DEF Closing, SessionInv, ConnNewest, DisconnectPCs
  <2>3. ~Closing'
    <3>1. \A h \in Goroutines : h # g => pc[h] \notin ConnHolders
      BY <2>1, Alone DEF ConnHolders, DisconnectPCs
    <3> QED BY <1>1, <1>2, <2>1, <3>1 DEF Closing, Moves, ConnHolders, DisconnectPCs
  <2>4. Lifecycle!Finish
    BY <2>1, <2>2, <2>3 DEF Lifecycle!Finish
  <2> QED BY <2>4 DEF Lifecycle!Next
<1>6. CASE TeardownRelay(g)
  <2>1. pc[g] \notin ClosingPCs /\ label \notin ClosingPCs
    BY <1>2, <1>6 DEF TeardownRelay, ClosingPCs, AfterDisconnect
  <2>2. UNCHANGED <<conn, dialed, shell, shConn>>
    BY <1>6 DEF TeardownRelay
  <2> QED BY <1>1, <2>1, <2>2, ClosingKept, BoundKept, Stutter
<1> QED BY <1>3, <1>4, <1>5, <1>6 DEF Disconnect

\* EnsureShell takes an old shell down and hands out a new one on the newest client.
LEMMA EnsureSim ==
  ASSUME SessionInv, ShellsKnown, NEW g \in Procs, EnsureShell(g)
  PROVE  [Lifecycle!Next]_(Lifecycle!vars)
<1> USE DEF connVars, shellVars, dataVars, lockVars, goVars
<1>1. g \in Goroutines
  BY DEF Goroutines
<1>2. PICK label : /\ Moves(g, label) /\ label \notin ConnHolders /\ pc[g] \notin ConnHolders
                   /\ UNCHANGED connVars
  BY CallerQuiet
<1>3. UNCHANGED <<conn, dialed>> /\ (Closing' <=> Closing)
  BY <1>1, <1>2, ClosingKept DEF ClosingPCs, ConnHolders, DisconnectPCs
<1>4. CASE shell' = shell /\ (UNCHANGED shConn \/ NewShell(g))
  BY <1>3, <1>4, BoundKept, Stutter
<1>5. CASE EnsureCheck(g) /\ shell' = 0
  <2>1. CASE Bound = 0
    BY <1>3, <1>5, <2>1, Stutter DEF Bound
  <2>2. CASE Bound # 0
    <3>1. Lifecycle!ShutShell
      BY <1>3, <1>5, <2>2 DEF Lifecycle!ShutShell, Bound
    <3> QED BY <3>1 DEF Lifecycle!Next
  <2> QED BY <2>1, <2>2
<1>6. CASE StartShell(g) /\ shell' = sh[g]
  <2>1. pc[g] = "s_start" /\ UNCHANGED shConn
    BY <1>6 DEF StartShell
  <2>2. shell = 0
    BY <2>1 DEF ShellsKnown, OneAtATime, StartingPCs
  <2>3. Open /\ shell' # 0 /\ shConn'[shell'] = dialed
    BY <1>1, <1>6, <2>1 DEF SessionInv, ShellNewest, EnsurePCs, Open
  <2>4. Lifecycle!OpenShell
    BY <1>3, <2>2, <2>3 DEF Lifecycle!OpenShell, Open
  <2> QED BY <2>4 DEF Lifecycle!Next
<1>7. EnsureLock(g) \/ EnsureScript(g) \/ OpenShell(g) => UNCHANGED <<shell, shConn>>
  BY DEF EnsureLock, EnsureScript, OpenShell
<1>8. EnsureCheck(g) => UNCHANGED shConn /\ (shell' = shell \/ shell' = 0)
  BY DEF EnsureCheck
<1>9. StartShell(g) => UNCHANGED shConn /\ (shell' = shell \/ shell' = sh[g])
  BY DEF StartShell
<1>10. NewShell(g) => shell' = shell
  BY DEF NewShell
<1> QED BY <1>4, <1>5, <1>6, <1>7, <1>8, <1>9, <1>10 DEF EnsureShell

\* Commands, transfers, keepalives and the surroundings are invisible to it.
LEMMA QuietSim ==
  ASSUME SessionInv,
         \/ \E g \in Procs : \/ Exec(g) \/ Transfer(g)
                             \/ \E o \in Entry \ {"update"} : Begin(g, o)
         \/ \E g \in ConnIds : KeepaliveLoop(g)
         \/ Environment
  PROVE  UNCHANGED Lifecycle!vars
<1> USE DEF connVars, shellVars, dataVars, lockVars, goVars
<1>1. UNCHANGED <<shell, shConn>>
  BY DEF Exec, Transfer, ExecLock, ExecUnlock, Dispatch, Write, Result, RunErr, ExecOk, ExecErr,
         HomeRead, HomeSnapshot, HomeFetch, HomeStore, Copy, Begin, KeepaliveLoop,
         KeepaliveCapture, KeepaliveStop, KeepaliveTick, KeepaliveSent, KeepaliveLost,
         Environment, ToggleSafeRm, Stall, Hang, Drop, Degrade, ShellDies
<1>2. Bound' = Bound
  BY <1>1, BoundKept
<1>3. ASSUME NEW g \in Goroutines, NEW label, Moves(g, label), label \notin ConnHolders,
             pc[g] \notin ConnHolders, UNCHANGED connVars
      PROVE  UNCHANGED Lifecycle!vars
  BY <1>2, <1>3, ClosingKept, Stutter DEF ClosingPCs, ConnHolders, DisconnectPCs
<1>4. CASE Environment
  <2>1. UNCHANGED <<conn, dialed, pc>>
    BY <1>4 DEF Environment, ToggleSafeRm, Stall, Hang, Drop, Degrade, ShellDies
  <2> QED BY <1>2, <2>1, Stutter DEF Closing
<1>5. \A g \in Procs \cup ConnIds : g \in Goroutines
  BY DEF Goroutines
<1> QED BY <1>3, <1>4, <1>5, CallerQuiet, KeeperQuiet

\* The session with its locks implements the abstract one: connections never overlap,
\* a shell is only ever started on the newest one, and none is left when it is down.
THEOREM SessionImplementsLifecycle == Spec => RefinesLifecycle
<1>1. Init => Lifecycle!Init
  BY SessionAssumption
     DEF Init, Lifecycle!Init, Closing, SessionAssumption, Goroutines
<1>2. SessionInv /\ SessionInv' /\ ShellsKnown /\ [Next]_vars => [Lifecycle!Next]_(Lifecycle!vars)
  <2> SUFFICES ASSUME SessionInv, SessionInv', ShellsKnown, [Next]_vars
               PROVE  [Lifecycle!Next]_(Lifecycle!vars)
    OBVIOUS
  <2>1. CASE UNCHANGED vars
    BY <2>1, Stutter
       DEF vars, connVars, shellVars, goVars, Closing, Bound
  <2>2. ASSUME NEW g \in Procs, CallerStep(g) PROVE [Lifecycle!Next]_(Lifecycle!vars)
    BY <2>2, ConnectSim, DisconnectSim, EnsureSim, QuietSim DEF CallerStep, Goroutines
  <2>3. ASSUME NEW g \in ConnIds, KeeperStep(g) PROVE [Lifecycle!Next]_(Lifecycle!vars)
    BY <2>3, DisconnectSim, QuietSim DEF KeeperStep, Goroutines
  <2> QED BY <2>1, <2>2, <2>3, QuietSim DEF Next
<1> QED BY <1>1, <1>2, SessionInvariant, ShellsInvariant, PTL
        DEF Spec, RefinesLifecycle, Lifecycle!Spec
=============================================================================
