------------------------------ MODULE TunnelChain ------------------------------
(***************************************************************************)
(* Sessions that connect through one another: Connect's way through the    *)
(* tunnel resolver (internal/ssh/client.go, internal/manager/manager.go),  *)
(* and the changes of the via graph that may happen meanwhile.             *)
(*                                                                         *)
(* A goroutine that connects session n holds n's connectLock while the     *)
(* resolver connects n's jump host, whose connectLock it then takes too,   *)
(* and so on: path[g] is its stack of Connect calls.  It owns the locks of *)
(* all of them but the last, which it may still be waiting for.            *)
(*                                                                         *)
(* Add, Update, Remove and Load check or restore the via graph under m.mu: *)
(* one step each, apart from Remove, which disconnects the session and     *)
(* deletes its row after it has left the registry.  A client is a number   *)
(* in the order they are published; 0 is nil, or no jump host.             *)
(***************************************************************************)
EXTENDS Naturals, Sequences, FiniteSets

CONSTANTS
  Names,
  Procs,    \* goroutines that call Connect from a handler
  Warm,     \* goroutines of WarmUp, which connect once after a start
  None,     \* no via, no owner
  NoRow,    \* not in the clients table
  MaxConn,  \* bound: clients ever published
  MaxChange \* bound: Add, Update, Remove and restarts

Goroutines == Procs \cup Warm

ASSUME ChainAssumption ==
  /\ None \notin Names /\ NoRow \notin Names /\ None # NoRow
  /\ None \notin Goroutines /\ Procs \cap Warm = {}
  /\ MaxConn \in Nat /\ MaxChange \in Nat

\* m.sessions is a map, so a walk along jump hosts ends.
ASSUME FiniteNames == IsFiniteSet(Names)

ConnIds == 1..MaxConn

VARIABLES
  sessions, \* m.sessions: the registered names
  via,      \* each session's Via; it outlives the registration of the session
  rows,     \* the via column of each client's row
  removing, \* sessions that Remove took out and has not finished with
  owner,    \* each session: who holds its connectLock
  conn,     \* each session: its client
  dialed,   \* clients published so far
  path, st, \* each goroutine: its stack of Connect calls, where the last one is
  jump,     \* each goroutine: the jump host the resolver found
  got,      \* each goroutine: the client that RawConn returned
  todo,     \* goroutines of WarmUp that have not started
  changes,
  drifted   \* the registry was restored from rows that did not match it

graphVars == <<sessions, via, rows, removing, changes, drifted>>
connVars  == <<conn, dialed>>
goVars    == <<path, st, jump, got, todo>>
vars == <<graphVars, connVars, goVars, owner>>

-----------------------------------------------------------------------------
(* The via graph *)

\* The jump hosts of a registered session: one, or none.
Jumps(reg, v, n) == IF n \in reg /\ v[n] # None THEN {v[n]} ELSE {}

\* No cycle: every set of names has one whose jump host is not in the set.
AcyclicIn(reg, v, names) ==
  \A S \in SUBSET names : S # {} => \E n \in S : Jumps(reg, v, n) \cap S = {}

\* The walk from v ends without meeting n, or itself: some set of other names
\* holds v and the jump host of each of its members, and has no cycle.
WalkEnds(reg, f, n, v) ==
  \E V \in SUBSET (Names \ {n}) :
    /\ v \in V
    /\ \A m \in V : Jumps(reg, f, m) \subseteq V
    /\ AcyclicIn(reg, f, V)

\* Mutant: only a session that is its own jump host is refused.
BugOnlyItself(reg, f, n, v) == v = n
WouldCreateCycle(reg, f, n, v) == v # None /\ ~WalkEnds(reg, f, n, v)

\* Mutant: the walk starts without the name itself among the visited.
BugForgetsStart(n) == {}
Visited(n) == {n}

\* The loop of wouldCreateCycle, from cur with the names seen so far.
Places == (Names \cup {None}) \X SUBSET Names
Steps(reg, f) ==
  LET step[p \in Places] ==
        LET cur == p[1]  seen == p[2] IN
        IF cur = None THEN FALSE
        ELSE IF cur \in seen THEN TRUE
        ELSE IF cur \notin reg THEN FALSE
        ELSE step[<<f[cur], seen \cup {cur}>>]
  IN step
Walk(reg, f, n, v) == Steps(reg, f)[<<v, Visited(n)>>]

-----------------------------------------------------------------------------
(* Connect *)

Top(g) == path[g][Len(path[g])]
Locked(n) == owner[n] # None

\* Load: the sessions are those that have a row.
HasRow == {n \in Names : rows[n] # NoRow}
ViaOf(row) == IF row = NoRow THEN None ELSE row

\* The table may hold any clients whose via graph has no cycle.
Init ==
  /\ rows \in [Names -> Names \cup {None, NoRow}]
  /\ sessions = HasRow /\ via = [n \in Names |-> ViaOf(rows[n])]
  /\ AcyclicIn(sessions, via, Names)
  /\ removing = {} /\ changes = 0 /\ drifted = FALSE
  /\ owner = [n \in Names |-> None]
  /\ conn = [n \in Names |-> 0] /\ dialed = 0
  /\ path = [g \in Goroutines |-> <<>>] /\ st = [g \in Goroutines |-> "idle"]
  /\ jump = [g \in Goroutines |-> None] /\ got = [g \in Goroutines |-> 0]
  /\ todo = Warm

Begin(g, n) ==
  /\ st[g] = "idle" /\ n \in sessions
  /\ g \in Warm => g \in todo
  /\ todo' = todo \ {g}
  /\ path' = [path EXCEPT ![g] = <<n>>] /\ st' = [st EXCEPT ![g] = "lock"]
  /\ UNCHANGED <<graphVars, connVars, jump, got, owner>>

\* Mutant: the resolver's caller is forgotten.
BugNoCaller(g) == "idle"
\* A call of Connect was the entry point, or the resolver's for another session.
Caller(g) == IF Len(path[g]) = 1 THEN "idle" ELSE "raw"

\* The deferred Unlock of the last call, whose result the resolver uses.
Return(g) ==
  /\ owner' = [owner EXCEPT ![Top(g)] = None]
  /\ path' = [path EXCEPT ![g] = SubSeq(@, 1, Len(@) - 1)]
  /\ st' = [st EXCEPT ![g] = Caller(g)]
  /\ jump' = [jump EXCEPT ![g] = IF Caller(g) = "raw" THEN Top(g) ELSE None]

\* Mutant: the locks are released by plain calls, which a panic skips.
BugNotDeferred(g) == UNCHANGED owner
\* Every call that returns, or panics, releases its lock.
ReleaseAll(g) == owner' = [n \in Names |-> IF owner[n] = g THEN None ELSE owner[n]]

\* An error, or a panic that the handler recovers, goes through all the calls.
Unwind(g) ==
  /\ ReleaseAll(g)
  /\ path' = [path EXCEPT ![g] = <<>>] /\ st' = [st EXCEPT ![g] = "idle"]
  /\ jump' = [jump EXCEPT ![g] = None] /\ got' = [got EXCEPT ![g] = 0]
  /\ UNCHANGED <<graphVars, connVars, todo>>

\* The lock is taken, and released at once if the session is connected meanwhile.
Lock(g) ==
  LET n == Top(g) IN
  /\ st[g] = "lock" /\ ~Locked(n)
  /\ IF conn[n] # 0
     THEN Return(g)
     ELSE /\ owner' = [owner EXCEPT ![n] = g]
          /\ st' = [st EXCEPT ![g] = IF via[n] = None THEN "dial" ELSE "lookup"]
          /\ UNCHANGED <<path, jump>>
  /\ got' = [got EXCEPT ![g] = 0]
  /\ UNCHANGED <<graphVars, connVars, todo>>

\* resolveTunnel reads Via again, and connects the jump host if it must.
Lookup(g) ==
  LET v == via[Top(g)] IN
  /\ st[g] = "lookup" /\ v \in sessions
  /\ IF conn[v] # 0
     THEN st' = [st EXCEPT ![g] = "raw"] /\ jump' = [jump EXCEPT ![g] = v] /\ UNCHANGED path
     ELSE /\ st' = [st EXCEPT ![g] = "lock"] /\ jump' = [jump EXCEPT ![g] = None]
          /\ path' = [path EXCEPT ![g] = Append(@, v)]
  /\ UNCHANGED <<graphVars, connVars, got, todo, owner>>

LookupFails(g) ==
  /\ st[g] = "lookup" /\ via[Top(g)] \notin sessions
  /\ Unwind(g)

\* RawConn: the jump host may have been disconnected by now.
RawConn(g) ==
  /\ st[g] = "raw" /\ conn[jump[g]] # 0
  /\ got' = [got EXCEPT ![g] = conn[jump[g]]]
  /\ st' = [st EXCEPT ![g] = "dial"]
  /\ UNCHANGED <<graphVars, connVars, path, jump, todo, owner>>

Closed(c) == \A n \in Names : conn[n] # c

\* A dial goes through the jump host's client if there is one, and publishes.
Dial(g) ==
  LET n == Top(g) IN
  /\ st[g] = "dial" /\ dialed < MaxConn
  /\ got[g] = 0 \/ ~Closed(got[g])
  /\ dialed' = dialed + 1
  /\ conn' = [conn EXCEPT ![n] = dialed + 1]
  /\ Return(g) /\ got' = [got EXCEPT ![g] = 0]
  /\ UNCHANGED <<graphVars, todo>>

DialFails(g) == st[g] = "dial" /\ Unwind(g)

-----------------------------------------------------------------------------
(* Disconnect *)

\* Under connectLock, by a handler or by the keepalive of a client that was lost; the
\* client's own teardown blocks on nothing of this module.
Disconnect(n) ==
  /\ conn[n] # 0 /\ ~Locked(n)
  /\ conn' = [conn EXCEPT ![n] = 0]
  /\ UNCHANGED <<graphVars, goVars, dialed, owner>>

-----------------------------------------------------------------------------
(* The registry *)

Change == changes < MaxChange /\ changes' = changes + 1

\* Mutant: Add does not look for cycles; a session may refer to a new name already.
BugNotChecked(n, v) == TRUE
MayAdd(n, v) == ~WouldCreateCycle(sessions, via, n, v)

\* A removed session is not added again while a call still uses it (a bound).
Unused(n) ==
  /\ ~Locked(n) /\ n \notin removing
  /\ \A g \in Goroutines : jump[g] # n /\ \A i \in 1..Len(path[g]) : path[g][i] # n

\* The new session has no client; one that a late Connect gave the removed one is
\* nobody's.
Add(n, v) ==
  /\ Change
  /\ n \notin sessions /\ Unused(n) /\ rows[n] = NoRow
  /\ MayAdd(n, v)
  /\ sessions' = sessions \cup {n}
  /\ via' = [via EXCEPT ![n] = v] /\ rows' = [rows EXCEPT ![n] = v]
  /\ conn' = [conn EXCEPT ![n] = 0]
  /\ UNCHANGED <<removing, drifted, dialed, goVars, owner>>

\* The session is changed first; the row stays as it was if the write fails.
Update(n, v) ==
  /\ Change
  /\ n \in sessions /\ via[n] # v
  /\ ~WouldCreateCycle(sessions, via, n, v)
  /\ via' = [via EXCEPT ![n] = v]
  /\ rows' \in {rows, [rows EXCEPT ![n] = IF @ = NoRow THEN @ ELSE v]}
  /\ UNCHANGED <<sessions, removing, drifted, connVars, goVars, owner>>

Remove(n) ==
  /\ Change
  /\ n \in sessions /\ \A m \in sessions : via[m] # n
  /\ sessions' = sessions \ {n} /\ removing' = removing \cup {n}
  /\ UNCHANGED <<via, rows, drifted, connVars, goVars, owner>>

\* The rest of Remove: Disconnect, then the row, which the database may keep
\* because of an audit entry written meanwhile.
RemoveEnds(n) ==
  /\ n \in removing /\ ~Locked(n)
  /\ removing' = removing \ {n}
  /\ conn' = [conn EXCEPT ![n] = 0]
  /\ rows' \in {rows, [rows EXCEPT ![n] = NoRow]}
  /\ UNCHANGED <<sessions, via, changes, drifted, dialed, goVars, owner>>

\* The process ends and Load restores the sessions, without any check.
Reset ==
  /\ sessions' = HasRow
  /\ via' = [n \in Names |-> ViaOf(rows[n])]
  /\ drifted' = (drifted \/ HasRow # sessions \/ \E n \in HasRow : rows[n] # via[n])
  /\ removing' = {} /\ rows' = rows
  /\ owner' = [n \in Names |-> None]
  /\ conn' = [n \in Names |-> 0]
  /\ path' = [g \in Goroutines |-> <<>>] /\ st' = [g \in Goroutines |-> "idle"]
  /\ jump' = [g \in Goroutines |-> None] /\ got' = [g \in Goroutines |-> 0]
  /\ todo' = Warm /\ dialed' = dialed

\* A nil jump client: the Dial on it panics.  A handler's panic is recovered,
\* one of WarmUp's goroutines ends the process.
Panic(g) ==
  /\ st[g] = "raw" /\ conn[jump[g]] = 0
  /\ IF g \in Warm THEN Reset /\ UNCHANGED changes ELSE Unwind(g)

Connect(g) == Lock(g) \/ Lookup(g) \/ LookupFails(g) \/ RawConn(g) \/ Dial(g) \/ DialFails(g) \/ Panic(g)
Restart    == Change /\ Reset
Registry   == \/ Restart
              \/ \E n \in Names : Remove(n) \/ RemoveEnds(n) \/ \E v \in Names \cup {None} : Add(n, v) \/ Update(n, v)

Next ==
  \/ Registry \/ \E n \in Names : Disconnect(n)
  \/ \E g \in Goroutines : Connect(g) \/ \E n \in Names : Begin(g, n)

(***************************************************************************)
(* Fairness.  A goroutine runs; a mutex goes to one that waits for it      *)
(* again and again (sync.Mutex is fair after 1 ms); a dial is answered or  *)
(* fails.                                                                  *)
(***************************************************************************)
Fairness == \A g \in Goroutines : SF_vars(Lock(g)) /\ WF_vars(Connect(g))

Spec == Init /\ [][Next]_vars
FairSpec == Spec /\ Fairness
-----------------------------------------------------------------------------
(* Properties *)

TypeOK ==
  /\ sessions \subseteq Names /\ removing \subseteq Names \ sessions
  /\ via \in [Names -> Names \cup {None}]
  /\ rows \in [Names -> Names \cup {None, NoRow}]
  /\ owner \in [Names -> Goroutines \cup {None}]
  /\ conn \in [Names -> 0..MaxConn]
  /\ dialed \in 0..MaxConn /\ changes \in 0..MaxChange /\ drifted \in BOOLEAN
  /\ path \in [Goroutines -> Seq(Names)]
  /\ st \in [Goroutines -> {"idle", "lock", "lookup", "raw", "dial"}]
  /\ \A g \in Goroutines :
       /\ st[g] = "idle" <=> path[g] = <<>>
       /\ st[g] = "raw" => jump[g] \in Names
  /\ jump \in [Goroutines -> Names \cup {None}]
  /\ got \in [Goroutines -> 0..MaxConn]
  /\ todo \subseteq Warm

\* The locks a goroutine owns are those of its calls: of all but the last one
\* while that waits.  So an idle goroutine owns none, whatever errors and
\* panics it returned through, and no session stays locked for ever.
OwnedByCalls ==
  \A n \in Names, g \in Goroutines :
    owner[n] = g <=> \E i \in 1..Len(path[g]) : path[g][i] = n /\ (i < Len(path[g]) \/ st[g] # "lock")

\* Add and Update keep the via graph free of cycles, through removals, dangling
\* jump hosts and restarts, as long as no restart brings back rows that had
\* drifted from the registry (a refused DELETE, a failed UPDATE, a crash inside Remove).
Acyclic == ~drifted => AcyclicIn(sessions, via, Names)

\* The loop of wouldCreateCycle answers what the definition above says, for
\* every change that could be asked for in the state.
WalkAgrees ==
  \A n \in Names, v \in Names \cup {None} :
    Walk(sessions, via, n, v) = WouldCreateCycle(sessions, via, n, v)

\* Goroutines that wait for one another's locks.
Deadlocked(D) ==
  D # {} /\ \A g \in D : st[g] = "lock" /\ owner[Top(g)] \in D

\* No Connect under way follows a jump host that Update or Remove has changed since.
Steady ==
  \A g \in Goroutines : \A i \in 1..Len(path[g]) - 1 :
    path[g][i] \in sessions /\ via[path[g][i]] = path[g][i + 1]

\* Connects that take the locks of a whole chain never wait for one another in
\* a circle, except when a jump host changes under a Connect in flight.
NoLockCycle == ~drifted /\ Steady => \A D \in SUBSET Goroutines : ~Deadlocked(D)

\* Every Connect returns if dials are answered and the via graph is left alone.
ConnectReturns ==
  [](~drifted /\ Steady) => \A g \in Goroutines : st[g] # "idle" ~> st[g] = "idle"
=============================================================================
