------------------------- MODULE TerminalBridge_proofs -------------------------
(***************************************************************************)
(* BridgeInv is an invariant of TerminalBridge: a handler's goroutines     *)
(* write its websocket one at a time, and each browser gets the output in  *)
(* order and no chunk twice, and they do not wait for one another in a     *)
(* circle, for any number of handlers that share a terminal, any queue and *)
(* any window.                                                             *)
(***************************************************************************)
EXTENDS TerminalBridge, SequenceTheorems, TLAPS

-----------------------------------------------------------------------------
(* A chunk on its way: at the tap, in the queue, in the pump's hand, sent.  *)

Chunks == 1..MaxChunk

LEMMA TapToQueue ==
  ASSUME NEW s \in Seq(Chunks), NEW x \in Seq(Chunks), NEW q \in Seq(Chunks), NEW n \in Chunks
  PROVE  s \o x \o q \o <<n>> = s \o x \o Append(q, n) \o <<>>
OBVIOUS

LEMMA QueueToHand ==
  ASSUME NEW s \in Seq(Chunks), NEW q \in Seq(Chunks), q # <<>>, NEW t \in Seq(Chunks)
  PROVE  s \o <<>> \o q \o t = s \o <<Head(q)>> \o Tail(q) \o t
BY HeadTailProperties

LEMMA HandToScreen ==
  ASSUME NEW s \in Seq(Chunks), NEW n \in Chunks, NEW q \in Seq(Chunks), NEW t \in Seq(Chunks)
  PROVE  s \o <<n>> \o q \o t = Append(s, n) \o <<>> \o q \o t
OBVIOUS

LEMMA AtEnd ==
  ASSUME NEW s \in Seq(Chunks), NEW x \in Seq(Chunks), NEW q \in Seq(Chunks)
  PROVE  s \o x \o q \in Seq(Chunks) /\ s \o x \o q \o <<>> = s \o x \o q
OBVIOUS

\* One more chunk is read, or none yet.
LEMMA OneMore ==
  ASSUME NEW r \in Seq(Chunks), NEW f \in Nat, NEW n \in Nat, f <= n, r = Since(f, n)
  PROVE  r \o <<n + 1>> = Since(f, n + 1)
<1>1. PICK m \in Nat : m = n - f
  OBVIOUS
<1>2. r = [i \in 1..m |-> f + i]
  BY <1>1 DEF Since
<1>3. Len(r) = m
  BY <1>2, LenProperties
<1> DEFINE g == [i \in 1..m + 1 |-> f + i]
<1>4. g \in Seq(Nat) /\ Len(g) = m + 1
  OBVIOUS
<1>5. r \in Seq(Nat) /\ <<n + 1>> \in Seq(Nat) /\ Len(<<n + 1>>) = 1 /\ <<n + 1>>[1] = n + 1
  BY <1>2
<1>6. /\ r \o <<n + 1>> \in Seq(Nat) /\ Len(r \o <<n + 1>>) = m + 1
      /\ \A i \in 1..m + 1 : (r \o <<n + 1>>)[i] = IF i <= m THEN r[i] ELSE <<n + 1>>[i - m]
  BY <1>3, <1>5, ConcatProperties
<1>7. \A i \in 1..m + 1 : (r \o <<n + 1>>)[i] = f + i
  <2> SUFFICES ASSUME NEW i \in 1..m + 1 PROVE (r \o <<n + 1>>)[i] = f + i
    OBVIOUS
  <2>1. CASE i <= m
    <3>1. i \in 1..m
      BY <2>1
    <3> QED BY <1>2, <1>6, <2>1, <3>1
  <2>2. CASE ~(i <= m)
    <3>1. i - m = 1 /\ f + i = n + 1
      BY <1>1, <2>2
    <3> QED BY <1>5, <1>6, <2>2, <3>1
  <2> QED BY <2>1, <2>2
<1>8. \A i \in 1..m + 1 : (r \o <<n + 1>>)[i] = g[i]
  BY <1>7
<1> HIDE DEF g
<1>9. r \o <<n + 1>> = g
  BY <1>4, <1>6, <1>8, SeqEqual
<1>10. n + 1 - f = m + 1
  BY <1>1
<1>11. Since(f, n + 1) = [i \in 1..n + 1 - f |-> f + i]
  BY DEF Since
<1>12. Since(f, n + 1) = g
  BY <1>10, <1>11 DEF g
<1> QED BY <1>9, <1>12

LEMMA Nothing ==
  ASSUME NEW f \in Nat
  PROVE  <<>> \o <<>> \o <<>> \o <<>> = Since(f, f)
BY DEF Since

-----------------------------------------------------------------------------
(* Types *)

\* The queue after a tap, or a take by the pump.
LEMMA QueueType ==
  ASSUME TypeOK, NEW h \in Handlers
  PROVE  /\ queue[h] \in Seq(Chunks) /\ Len(queue[h]) \in Nat /\ screen[h] \in Seq(Chunks)
         /\ \A n \in Chunks : /\ Append(queue[h], n) \in Seq(Chunks) /\ Len(Append(queue[h], n)) = Len(queue[h]) + 1
                              /\ Append(screen[h], n) \in Seq(Chunks)
         /\ queue[h] # <<>> => /\ Head(queue[h]) \in Chunks /\ Tail(queue[h]) \in Seq(Chunks)
                               /\ Len(Tail(queue[h])) = Len(queue[h]) - 1
<1>1. queue[h] \in Seq(Chunks) /\ screen[h] \in Seq(Chunks)
  BY DEF TypeOK, Chunks
<1>2. Len(queue[h]) \in Nat
  BY <1>1, LenProperties
<1>3. \A n \in Chunks : /\ Append(queue[h], n) \in Seq(Chunks) /\ Len(Append(queue[h], n)) = Len(queue[h]) + 1
                         /\ Append(screen[h], n) \in Seq(Chunks)
  BY <1>1, AppendProperties
<1>4. queue[h] # <<>> => /\ Head(queue[h]) \in Chunks /\ Tail(queue[h]) \in Seq(Chunks)
                         /\ Len(Tail(queue[h])) = Len(queue[h]) - 1
  BY <1>1, HeadTailProperties
<1> QED BY <1>1, <1>2, <1>3, <1>4

LEMMA Counts == TypeOK => written \in Nat /\ nread \in Nat /\ \A h \in Handlers : from[h] \in Nat
<1> SUFFICES ASSUME TypeOK PROVE written \in Nat /\ nread \in Nat /\ \A h \in Handlers : from[h] \in Nat
  OBVIOUS
<1>1. written \in 0..MaxChunk /\ nread \in 0..written /\ \A h \in Handlers : from[h] \in 0..MaxChunk
  BY DEF TypeOK
<1> QED BY <1>1, BridgeAssumption

LEMMA InitType == ASSUME Init PROVE TypeOK
<1>1. <<>> \in Seq(1..MaxChunk) /\ Len(<<>>) = 0 /\ QueueMax \in Nat
  BY BridgeAssumption
<1>2. queue \in [Handlers -> Seq(1..MaxChunk)] /\ screen \in [Handlers -> Seq(1..MaxChunk)]
  BY <1>1 DEF Init
<1>3. 0 \in 0..MaxChunk /\ 0 \in 0..MaxShell /\ 0 \in 0..0
  BY BridgeAssumption
<1>4. \A h \in Handlers : Len(queue[h]) <= QueueMax
  BY <1>1, BridgeAssumption DEF Init
<1>5. nread \in 0..written /\ written \in 0..MaxChunk /\ shell \in 0..MaxShell
  BY <1>3 DEF Init
<1> QED BY <1>2, <1>3, <1>4, <1>5 DEF Init, TypeOK

LEMMA ShellType ==
  ASSUME TypeOK, Taps, RemoteWrites \/ ShellEnds \/ Reader
  PROVE  TypeOK'
<1>1. CASE RemoteWrites
  <2>1. written + 1 \in 0..MaxChunk /\ nread \in 0..written + 1
    BY <1>1, BridgeAssumption DEF RemoteWrites, TypeOK
  <2> QED BY <1>1, <2>1 DEF TypeOK, RemoteWrites, outVars, goVars
<1>2. CASE ShellEnds
  BY <1>2 DEF TypeOK, ShellEnds, outVars, goVars
<1>3. CASE ReadChunk
  <2>1. nread + 1 \in 0..written
    BY <1>3 DEF ReadChunk, TypeOK
  <2> QED BY <1>3, <2>1 DEF TypeOK, ReadChunk, outVars, goVars
<1>4. CASE NextChunk
  BY <1>4 DEF TypeOK, NextChunk, outVars, goVars
<1>5. CASE ReaderEnds
  BY <1>5 DEF TypeOK, ReaderEnds, outVars, goVars
<1>6. ASSUME NEW h \in Handlers, CallTap(h) PROVE TypeOK'
  <2>0. nread \in Chunks
    BY <1>6, BridgeAssumption DEF CallTap, Taps, TypeOK, Chunks
  <2>1. CASE Len(queue[h]) < QueueMax
    <3>1. queue' = [queue EXCEPT ![h] = Append(queue[h], nread)] /\ gaps' = gaps
      BY <1>6, <2>1 DEF CallTap, Tap
    <3>2. queue' \in [Handlers -> Seq(1..MaxChunk)] /\ \A k \in Handlers : Len(queue'[k]) <= QueueMax
      BY <1>6, <2>0, <2>1, <3>1, QueueType, BridgeAssumption DEF TypeOK, Chunks
    <3> QED BY <1>6, <3>1, <3>2 DEF TypeOK, CallTap, goVars
  <2>2. CASE ~(Len(queue[h]) < QueueMax)
    BY <1>6, <2>2 DEF TypeOK, CallTap, Tap, goVars
  <2> QED BY <2>1, <2>2
<1> QED BY <1>1, <1>2, <1>3, <1>4, <1>5, <1>6 DEF Reader

LEMMA TakenType ==
  ASSUME TypeOK, NEW h \in Handlers, Taken(h)
  PROVE  /\ written' \in 0..MaxChunk /\ nread' \in 0..written'
         /\ UNCHANGED <<shell, open, nread, rd, batch>>
<1>1. written' = written \/ (written < MaxChunk /\ written' = written + 1)
  BY DEF Taken
<1> QED BY <1>1, BridgeAssumption DEF Taken, TypeOK

LEMMA MainType ==
  ASSUME TypeOK, NEW h \in Handlers, Main(h) \/ BrowserLost(h)
  PROVE  TypeOK'
<1> USE DEF MainTo
<1>1. CASE Accept(h)
  BY <1>1 DEF TypeOK, Accept, Status, shellVars, outVars
<1>2. CASE StatusSent(h)
  BY <1>2 DEF TypeOK, StatusSent, Written, Fails, shellVars, outVars
<1>3. CASE GetTerminal(h)
  <2>1. CASE open
    BY <1>3, <2>1 DEF TypeOK, GetTerminal, Status, shellVars, outVars
  <2>2. CASE ~open
    <3>1. /\ shell' = shell + 1 /\ open' = TRUE /\ nread' = written /\ rd' = "read" /\ taps' = {} /\ written' = written
          /\ batch' = batch /\ shell < MaxShell
      BY <1>3, <2>2 DEF GetTerminal
    <3>2. shell' \in 0..MaxShell /\ nread' \in 0..written'
      BY <3>1, BridgeAssumption DEF TypeOK
    <3> QED BY <1>3, <3>1, <3>2 DEF TypeOK, GetTerminal, Status, outVars
  <2> QED BY <2>1, <2>2
<1>4. CASE NoTerminal(h)
  BY <1>4 DEF TypeOK, NoTerminal, Status, shellVars, outVars
<1>5. CASE Attach(h)
  <2>1. nread \in 0..MaxChunk
    BY BridgeAssumption DEF TypeOK
  <2>2. taps' \subseteq Handlers
    BY <1>5 DEF TypeOK, Attach
  <2> QED BY <1>5, <2>1, <2>2 DEF TypeOK, Attach, shellVars
<1>6. CASE Prompted(h)
  <2>1. CASE Taken(h)
    BY <1>6, <2>1, TakenType DEF TypeOK, Prompted, outVars
  <2>2. CASE UNCHANGED shellVars
    BY <1>6, <2>2 DEF TypeOK, Prompted, shellVars, outVars
  <2> QED BY <1>6, <2>1, <2>2 DEF Prompted
<1>7. CASE Key(h)
  BY <1>7 DEF TypeOK, Key, shellVars, outVars
<1>8. CASE ReadFails(h)
  BY <1>8 DEF TypeOK, ReadFails, shellVars, outVars
<1>9. CASE Fed(h)
  BY <1>9, TakenType DEF TypeOK, Fed, outVars
<1>10. CASE FeedFails(h)
  BY <1>10 DEF TypeOK, FeedFails, shellVars, outVars
<1>11. CASE Detach(h)
  <2>1. taps' \subseteq Handlers
    BY <1>11 DEF TypeOK, Detach
  <2> QED BY <1>11, <2>1 DEF TypeOK, Detach, shellVars, outVars
<1>12. CASE Cancel(h)
  BY <1>12 DEF TypeOK, Cancel, CancelCtx, shellVars, outVars
<1>13. CASE Join(h)
  BY <1>13 DEF TypeOK, Join, shellVars, outVars
<1>14. CASE Close(h)
  BY <1>14 DEF TypeOK, Close, shellVars, outVars
<1>15. CASE BrowserLost(h)
  BY <1>15 DEF TypeOK, BrowserLost, shellVars, outVars
<1> QED BY <1>1, <1>2, <1>3, <1>4, <1>5, <1>6, <1>7, <1>8, <1>9, <1>10, <1>11, <1>12, <1>13, <1>14, <1>15
        DEF Main, Feeding

LEMMA PumpType ==
  ASSUME TypeOK, Taps, NEW h \in Handlers, Pump(h) \/ Ping(h)
  PROVE  TypeOK'
<1>1. CASE PumpTakes(h)
  <2>1. /\ Head(queue[h]) \in Chunks /\ Tail(queue[h]) \in Seq(Chunks) /\ Len(Tail(queue[h])) <= QueueMax
        /\ Chunks \subseteq 0..MaxChunk
    BY <1>1, QueueType, BridgeAssumption, SMTT(30) DEF PumpTakes, TypeOK, Chunks
  <2>2. /\ queue' \in [Handlers -> Seq(1..MaxChunk)] /\ hand' \in [Handlers -> 0..MaxChunk]
        /\ \A k \in Handlers : Len(queue'[k]) <= QueueMax
    BY <1>1, <2>1 DEF PumpTakes, TypeOK, Chunks
  <2> QED BY <1>1, <2>2 DEF TypeOK, PumpTakes, shellVars
<1>2. CASE PumpLocks(h)
  BY <1>2 DEF TypeOK, PumpLocks, shellVars, outVars
<1>3. CASE PumpWrites(h)
  <2>1. hand[h] \in Chunks /\ 0 \in 0..MaxChunk
    BY <1>3, BridgeAssumption DEF PumpWrites, Taps, TypeOK, Chunks
  <2>2. screen' \in [Handlers -> Seq(1..MaxChunk)]
    BY <1>3, <2>1, QueueType DEF PumpWrites, TypeOK, Chunks
  <2> QED BY <1>3, <2>1, <2>2 DEF TypeOK, PumpWrites, shellVars
<1>4. CASE PumpEnds(h)
  BY <1>4 DEF TypeOK, PumpEnds, Fails, shellVars, outVars
<1>5. CASE Tick(h)
  BY <1>5 DEF TypeOK, Tick, shellVars, outVars
<1>6. CASE PingLocks(h)
  BY <1>6 DEF TypeOK, PingLocks, shellVars, outVars
<1>7. CASE Pong(h)
  BY <1>7 DEF TypeOK, Pong, shellVars, outVars
<1>8. CASE PingEnds(h)
  BY <1>8 DEF TypeOK, PingEnds, shellVars, outVars
<1> QED BY <1>1, <1>2, <1>3, <1>4, <1>5, <1>6, <1>7, <1>8 DEF Pump, Ping

LEMMA StepType ==
  ASSUME TypeOK, Taps, [Next]_vars
  PROVE  TypeOK'
<1>1. CASE UNCHANGED vars
  BY <1>1 DEF TypeOK, vars, shellVars, outVars, goVars
<1> QED BY <1>1, ShellType, MainType, PumpType DEF Next

-----------------------------------------------------------------------------
(* Who writes the websocket *)

LEMMA StepWriteLock ==
  ASSUME TypeOK, WriteLock, [Next]_vars
  PROVE  WriteLock'
<1>1. CASE UNCHANGED goVars
  BY <1>1 DEF WriteLock, goVars
<1>2. CASE RemoteWrites \/ ShellEnds \/ Reader
  BY <1>1, <1>2 DEF RemoteWrites, ShellEnds, Reader, ReadChunk, NextChunk, ReaderEnds, CallTap
<1>3. ASSUME NEW h \in Handlers, Main(h) \/ BrowserLost(h) PROVE WriteLock'
  <2> USE DEF MainTo, Early, TypeOK, WriteLock
  <2>1. CASE Accept(h)
    BY <2>1 DEF Accept, Status
  <2>2. CASE StatusSent(h)
    BY <2>2 DEF StatusSent
  <2>3. CASE GetTerminal(h)
    BY <2>3 DEF GetTerminal, Status
  <2>4. CASE NoTerminal(h)
    BY <2>4 DEF NoTerminal, Status
  <2>5. CASE Attach(h)
    BY <2>5 DEF Attach
  <2>6. CASE Prompted(h)
    BY <2>6 DEF Prompted
  <2>7. CASE Key(h) \/ ReadFails(h) \/ Fed(h) \/ FeedFails(h) \/ Detach(h) \/ Cancel(h)
    BY <2>7 DEF Key, ReadFails, Fed, FeedFails, Detach, Cancel
  <2>8. CASE Join(h)
    BY <2>8 DEF Join, Joined
  <2>9. CASE Close(h) \/ BrowserLost(h)
    BY <2>9 DEF Close, BrowserLost
  <2> QED BY <1>3, <2>1, <2>2, <2>3, <2>4, <2>5, <2>6, <2>7, <2>8, <2>9 DEF Main, Feeding
<1>4. ASSUME NEW h \in Handlers, Pump(h) PROVE WriteLock'
  <2> USE DEF Early, TypeOK, WriteLock
  <2>1. CASE PumpTakes(h) \/ PumpLocks(h)
    BY <2>1 DEF PumpTakes, PumpLocks
  <2>2. CASE PumpWrites(h)
    BY <2>2 DEF PumpWrites
  <2>3. CASE PumpEnds(h)
    BY <2>3 DEF PumpEnds
  <2> QED BY <1>4, <2>1, <2>2, <2>3 DEF Pump
<1>5. ASSUME NEW h \in Handlers, Ping(h) PROVE WriteLock'
  <2> USE DEF Early, TypeOK, WriteLock
  <2>1. CASE Tick(h) \/ PingLocks(h)
    BY <2>1 DEF Tick, PingLocks
  <2>2. CASE Pong(h)
    BY <2>2 DEF Pong
  <2>3. CASE PingEnds(h)
    BY <2>3 DEF PingEnds
  <2> QED BY <1>5, <2>1, <2>2, <2>3 DEF Ping
<1> QED BY <1>1, <1>2, <1>3, <1>4, <1>5 DEF Next, vars

-----------------------------------------------------------------------------
(* Where taps are *)

\* A step of one handler's main that leaves the shell, the taps and the output alone.
LEMMA MainTaps ==
  ASSUME TypeOK, Taps, NEW h \in Handlers, NEW pc, MainTo(h, pc), pc \in Early => main[h] \in Early,
         h \in taps => pc \in {"prompt", "read", "feed", "detach"},
         UNCHANGED <<shell, nread, rd, batch, taps, queue, hand, screen, from, mine>>,
         pump' = pump \/ (pump[h] = "off" /\ pump' = [pump EXCEPT ![h] = "wait"])
  PROVE  Taps'
<1>1. main' = [main EXCEPT ![h] = pc] /\ \A k \in Handlers : k # h => main'[k] = main[k] /\ pump'[k] = pump[k]
  BY DEF MainTo, TypeOK
<1>2. main'[h] = pc
  BY <1>1 DEF TypeOK
<1>3. pump'[h] = pump[h] \/ (pump[h] = "off" /\ pump'[h] = "wait")
  BY DEF TypeOK
<1> QED BY <1>1, <1>2, <1>3 DEF Taps

LEMMA StepTaps ==
  ASSUME TypeOK, WriteLock, Taps, [Next]_vars
  PROVE  Taps'
<1>1. CASE UNCHANGED <<shell, nread, rd, batch, taps, outVars, main, pump, mine>>
  BY <1>1 DEF Taps, outVars
<1>2. CASE RemoteWrites \/ ShellEnds
  BY <1>1, <1>2 DEF RemoteWrites, ShellEnds, goVars
<1>3. CASE Reader
  <2>1. CASE ReadChunk
    <3>1. /\ nread' = nread + 1 /\ batch' = taps /\ rd' = "tap" /\ UNCHANGED <<shell, taps, outVars, goVars>>
          /\ nread \in Nat /\ nread' # 0
      BY <2>1, Counts DEF ReadChunk
    <3>2. \A h \in taps : main[h] \notin Early
      BY DEF Taps, Early, TypeOK
    <3>3. \A h \in taps : h \in Handlers /\ from[h] <= nread /\ from[h] \in Nat
      BY Counts DEF Taps, TypeOK
    <3>4. \A h \in taps : from[h] <= nread'
      BY <3>1, <3>3
    <3> QED BY <3>1, <3>2, <3>4 DEF Taps, outVars, goVars
  <2>2. CASE NextChunk \/ ReaderEnds
    BY <2>2 DEF NextChunk, ReaderEnds, Taps, outVars, goVars
  <2>3. ASSUME NEW h \in Handlers, CallTap(h) PROVE Taps'
    <3>1. main[h] \notin Early /\ \A k \in Handlers : k # h => queue'[k] = queue[k]
      BY <2>3 DEF CallTap, Tap, Taps, TypeOK
    <3> QED BY <2>3, <3>1 DEF CallTap, Taps, goVars
  <2> QED BY <1>3, <2>1, <2>2, <2>3 DEF Reader
<1>4. ASSUME NEW h \in Handlers, Main(h) \/ BrowserLost(h) PROVE Taps'
  <2>1. CASE Accept(h)
    BY <2>1, MainTaps DEF Accept, Status, Early, Taps, shellVars, outVars
  <2>2. CASE StatusSent(h)
    <3>1. main[h] \in Early /\ h \notin taps /\ UNCHANGED <<shellVars, taps, outVars, mine, pump>>
      BY <2>2 DEF StatusSent, Early, Taps
    <3>2. PICK pc : MainTo(h, pc)
      BY <2>2 DEF StatusSent
    <3> QED BY <3>1, <3>2, MainTaps DEF shellVars, outVars
  <2>3. CASE GetTerminal(h)
    <3>1. main[h] = "get" /\ main' = [main EXCEPT ![h] = "ready"] /\ mine' = [mine EXCEPT ![h] = shell'] /\ h \notin taps
          /\ UNCHANGED <<outVars, pump>>
      BY <2>3 DEF GetTerminal, Status, MainTo, Taps
    <3>2. CASE open
      BY <2>3, <3>1, <3>2 DEF GetTerminal, Taps, Early, TypeOK, shellVars, outVars
    <3>3. CASE ~open
      <4>1. rd' = "read" /\ taps' = {} /\ batch' = batch /\ batch = {}
        BY <2>3, <3>3 DEF GetTerminal, Taps
      <4> QED BY <3>1, <4>1 DEF Taps, Early, TypeOK, outVars
    <3> QED BY <3>2, <3>3
  <2>4. CASE NoTerminal(h)
    BY <2>4, MainTaps DEF NoTerminal, Status, Early, Taps, shellVars, outVars
  <2>5. CASE Attach(h)
    <3>1. /\ main[h] = "attach" /\ main' = [main EXCEPT ![h] = "prompt"] /\ from' = [from EXCEPT ![h] = nread]
          /\ taps' = IF mine[h] = shell THEN taps \cup {h} ELSE taps
          /\ UNCHANGED <<shellVars, queue, hand, screen, mine, pump>>
      BY <2>5 DEF Attach, MainTo
    <3>2. h \notin taps /\ h \notin batch /\ nread \in Nat
      BY <3>1, Counts DEF Taps, Early
    <3> QED BY <3>1, <3>2 DEF Taps, Early, TypeOK, shellVars
  <2>6. CASE Prompted(h)
    <3>1. main[h] = "prompt" /\ pump[h] = "off" /\ MainTo(h, "read")
      BY <2>6 DEF Prompted, WriteLock
    <3>2. UNCHANGED <<shell, nread, rd, batch, taps, queue, hand, screen, from, mine>>
      BY <2>6 DEF Prompted, Taken, shellVars, outVars
    <3> QED BY <2>6, <3>1, <3>2, MainTaps DEF Prompted, Early
  <2>7. CASE Key(h) \/ ReadFails(h) \/ FeedFails(h)
    BY <2>7, MainTaps DEF Key, ReadFails, FeedFails, Early, shellVars, outVars
  <2>8. CASE Fed(h)
    <3>1. UNCHANGED <<shell, nread, rd, batch, taps, queue, hand, screen, from, mine>>
      BY <2>8 DEF Fed, Taken, outVars
    <3> QED BY <2>8, <3>1, MainTaps DEF Fed, Early
  <2>9. CASE Detach(h)
    BY <2>9 DEF Detach, MainTo, Taps, TypeOK, Early, shellVars, outVars
  <2>10. CASE Cancel(h) \/ Join(h) \/ Close(h)
    BY <2>10, MainTaps DEF Cancel, Join, Close, Early, Taps, shellVars, outVars
  <2>11. CASE BrowserLost(h)
    BY <1>1, <2>11 DEF BrowserLost, shellVars
  <2> QED BY <1>4, <2>1, <2>2, <2>3, <2>4, <2>5, <2>6, <2>7, <2>8, <2>9, <2>10, <2>11 DEF Main, Feeding
<1>5. ASSUME NEW h \in Handlers, Pump(h) PROVE Taps'
  <2>0. pump[h] # "off" => main[h] \notin Early
    BY DEF WriteLock
  <2>1. CASE PumpTakes(h)
    <3>1. Head(queue[h]) # 0
      BY <2>1, QueueType DEF PumpTakes, Chunks
    <3> QED BY <2>0, <2>1, <3>1 DEF PumpTakes, Taps, TypeOK, shellVars
  <2>2. CASE PumpLocks(h)
    BY <2>2 DEF PumpLocks, Taps, TypeOK, shellVars, outVars
  <2>3. CASE PumpWrites(h)
    BY <2>0, <2>3 DEF PumpWrites, Taps, TypeOK, shellVars
  <2>4. CASE PumpEnds(h)
    BY <2>4 DEF PumpEnds, Taps, TypeOK, shellVars, outVars
  <2> QED BY <1>5, <2>1, <2>2, <2>3, <2>4 DEF Pump
<1>6. ASSUME NEW h \in Handlers, Ping(h) PROVE Taps'
  BY <1>1, <1>6 DEF Ping, Tick, PingLocks, Pong, PingEnds, shellVars
<1> QED BY <1>1, <1>2, <1>3, <1>4, <1>5, <1>6 DEF Next, vars, shellVars, goVars

-----------------------------------------------------------------------------
(* What the browsers get *)

FaithfulTo(h) == h \in taps /\ ~gaps[h] => Got(h) = Since(from[h], nread)

LEMMA GotType ==
  ASSUME TypeOK, Taps, NEW h \in Handlers
  PROVE  /\ screen[h] \in Seq(Chunks) /\ queue[h] \in Seq(Chunks) /\ InHand(h) \in Seq(Chunks) /\ AtTap(h) \in Seq(Chunks)
         /\ h \in batch => nread \in Chunks
<1>1. hand[h] # 0 => hand[h] \in Chunks
  BY BridgeAssumption DEF TypeOK, Chunks
<1>2. h \in batch => nread \in Chunks
  BY BridgeAssumption DEF TypeOK, Taps, Chunks
<1>3. <<>> \in Seq(Chunks) /\ \A n \in Chunks : <<n>> \in Seq(Chunks)
  OBVIOUS
<1> QED BY <1>1, <1>2, <1>3, QueueType DEF InHand, AtTap

\* A handler whose part of the state stays as it was.
LEMMA SameFor ==
  ASSUME NEW h \in Handlers, FaithfulTo(h), h \in taps' => h \in taps, h \in batch' <=> h \in batch, nread' = nread,
         gaps'[h] = gaps[h], screen'[h] = screen[h], hand'[h] = hand[h], queue'[h] = queue[h], from'[h] = from[h]
  PROVE  FaithfulTo(h)'
<1>1. Got(h)' = Got(h)
  BY DEF Got, InHand, AtTap
<1> QED BY <1>1 DEF FaithfulTo

LEMMA Quiet ==
  ASSUME Faithful, taps' \subseteq taps, UNCHANGED <<nread, batch, outVars>>
  PROVE  Faithful'
<1>1. \A h \in Handlers : FaithfulTo(h)
  BY DEF Faithful, FaithfulTo
<1>2. \A h \in Handlers : FaithfulTo(h)'
  BY <1>1, SameFor DEF outVars
<1> QED BY <1>2 DEF Faithful, FaithfulTo

LEMMA ReadFaithful ==
  ASSUME TypeOK, Taps, NEW h \in Handlers, FaithfulTo(h), ReadChunk
  PROVE  FaithfulTo(h)'
<1> SUFFICES ASSUME h \in taps, ~gaps[h] PROVE Got(h)' = Since(from'[h], nread')
  BY DEF FaithfulTo, ReadChunk, outVars
<1>1. /\ batch = {} /\ batch' = taps /\ nread' = nread + 1
      /\ screen' = screen /\ hand' = hand /\ queue' = queue /\ from' = from
  BY DEF ReadChunk, Taps, outVars
<1>2. /\ Got(h) = screen[h] \o InHand(h) \o queue[h] \o <<>>
      /\ Got(h)' = screen[h] \o InHand(h) \o queue[h] \o <<nread + 1>>
  BY <1>1 DEF Got, InHand, AtTap
<1>3. from[h] \in Nat /\ nread \in Nat /\ from[h] <= nread
  BY Counts DEF Taps
<1>4. Got(h) = Since(from[h], nread)
  BY DEF FaithfulTo
<1>5. screen[h] \o InHand(h) \o queue[h] \o <<nread + 1>> = Since(from[h], nread + 1)
  <2>1. screen[h] \in Seq(Chunks) /\ InHand(h) \in Seq(Chunks) /\ queue[h] \in Seq(Chunks)
    BY GotType
  <2>2. screen[h] \o InHand(h) \o queue[h] \o <<>> = Since(from[h], nread)
    BY <1>2, <1>4
  <2>3. /\ screen[h] \o InHand(h) \o queue[h] \in Seq(Chunks)
        /\ screen[h] \o InHand(h) \o queue[h] \o <<>> = screen[h] \o InHand(h) \o queue[h]
    BY <2>1, AtEnd
  <2>4. PICK r \in Seq(Chunks) : r = screen[h] \o InHand(h) \o queue[h]
    BY <2>3
  <2>5. r = Since(from[h], nread)
    BY <2>2, <2>4, <2>3
  <2>6. r \o <<nread + 1>> = Since(from[h], nread + 1)
    BY <1>3, <2>5, OneMore
  <2> QED BY <2>4, <2>6
<1> QED BY <1>1, <1>2, <1>5

LEMMA TapFaithful ==
  ASSUME TypeOK, Taps, NEW h \in Handlers, FaithfulTo(h), CallTap(h)
  PROVE  FaithfulTo(h)'
<1>1. /\ h \in batch /\ batch' = batch \ {h}
      /\ nread' = nread /\ taps' = taps /\ screen' = screen /\ hand' = hand /\ from' = from
  BY DEF CallTap, goVars
<1>2. CASE Len(queue[h]) < QueueMax
  <2>1. queue'[h] = Append(queue[h], nread) /\ gaps' = gaps
    BY <1>2 DEF CallTap, Tap, TypeOK
  <2>2. /\ Got(h) = screen[h] \o InHand(h) \o queue[h] \o <<nread>>
        /\ Got(h)' = screen[h] \o InHand(h) \o Append(queue[h], nread) \o <<>>
    BY <1>1, <2>1 DEF Got, InHand, AtTap
  <2>3. Got(h)' = Got(h)
    BY <1>1, <2>2, GotType, TapToQueue
  <2> QED BY <1>1, <2>1, <2>3 DEF FaithfulTo
<1>3. CASE ~(Len(queue[h]) < QueueMax)
  BY <1>3 DEF CallTap, Tap, TypeOK, FaithfulTo
<1> QED BY <1>2, <1>3

LEMMA AttachFaithful ==
  ASSUME TypeOK, WriteLock, Taps, NEW h \in Handlers, Attach(h)
  PROVE  FaithfulTo(h)'
<1>1. /\ main[h] \in Early /\ from'[h] = nread /\ nread' = nread /\ batch' = batch
      /\ screen' = screen /\ hand' = hand /\ queue' = queue
  BY DEF Attach, Early, TypeOK, shellVars
<1>2. screen[h] = <<>> /\ queue[h] = <<>> /\ hand[h] = 0 /\ h \notin batch
  BY <1>1 DEF Taps, WriteLock
<1>3. Got(h)' = <<>> \o <<>> \o <<>> \o <<>>
  BY <1>1, <1>2 DEF Got, InHand, AtTap
<1> QED BY <1>1, <1>3, Counts, Nothing DEF FaithfulTo

\* The pump moves a chunk on.
LEMMA PumpKeeps ==
  ASSUME TypeOK, Taps, NEW h \in Handlers, PumpTakes(h) \/ PumpWrites(h)
  PROVE  Got(h)' = Got(h)
<1>1. batch' = batch /\ nread' = nread
  BY DEF PumpTakes, PumpWrites, shellVars
<1>2. CASE PumpTakes(h)
  <2>1. /\ hand[h] = 0 /\ queue[h] # <<>> /\ screen' = screen
        /\ hand'[h] = Head(queue[h]) /\ queue'[h] = Tail(queue[h]) /\ Head(queue[h]) # 0
    BY <1>2, QueueType DEF PumpTakes, Taps, TypeOK, Chunks
  <2>2. /\ Got(h) = screen[h] \o <<>> \o queue[h] \o AtTap(h)
        /\ Got(h)' = screen[h] \o <<Head(queue[h])>> \o Tail(queue[h]) \o AtTap(h)
    BY <1>1, <2>1 DEF Got, InHand, AtTap
  <2> QED BY <2>1, <2>2, GotType, QueueToHand
<1>3. CASE PumpWrites(h)
  <2>1. /\ hand[h] \in Chunks /\ queue' = queue
        /\ hand'[h] = 0 /\ screen'[h] = Append(screen[h], hand[h])
    BY <1>3, BridgeAssumption DEF PumpWrites, Taps, TypeOK, Chunks
  <2>2. hand[h] # 0
    BY <1>3 DEF PumpWrites, Taps
  <2>3. /\ Got(h) = screen[h] \o <<hand[h]>> \o queue[h] \o AtTap(h)
        /\ Got(h)' = Append(screen[h], hand[h]) \o <<>> \o queue[h] \o AtTap(h)
    BY <1>1, <2>1, <2>2 DEF Got, InHand, AtTap
  <2> QED BY <2>1, <2>3, GotType, HandToScreen, ZenonT(30)
<1> QED BY <1>2, <1>3

LEMMA PumpFaithful ==
  ASSUME TypeOK, Taps, NEW h \in Handlers, FaithfulTo(h), PumpTakes(h) \/ PumpWrites(h)
  PROVE  FaithfulTo(h)'
<1>1. nread' = nread /\ taps' = taps /\ from' = from /\ gaps' = gaps
  BY DEF PumpTakes, PumpWrites, shellVars
<1>2. Got(h)' = Got(h)
  BY PumpKeeps
<1> QED BY <1>1, <1>2 DEF FaithfulTo

LEMMA StepFaithful ==
  ASSUME TypeOK, WriteLock, Taps, Faithful, [Next]_vars
  PROVE  Faithful'
<1>0. (\A h \in Handlers : FaithfulTo(h)) /\ ((\A h \in Handlers : FaithfulTo(h)') => Faithful')
  BY DEF Faithful, FaithfulTo
<1>1. CASE taps' \subseteq taps /\ UNCHANGED <<nread, batch, outVars>>
  BY <1>1, Quiet
<1>2. CASE ReadChunk
  BY <1>0, <1>2, ReadFaithful
<1>3. ASSUME NEW h \in Handlers, CallTap(h) PROVE Faithful'
  <2>1. ASSUME NEW k \in Handlers, k # h PROVE FaithfulTo(k)'
    BY <1>0, <1>3, <2>1, SameFor DEF CallTap, Tap, TypeOK
  <2> QED BY <1>0, <1>3, <2>1, TapFaithful
<1>4. ASSUME NEW h \in Handlers, Attach(h) PROVE Faithful'
  <2>1. ASSUME NEW k \in Handlers, k # h PROVE FaithfulTo(k)'
    BY <1>0, <1>4, <2>1, SameFor DEF Attach, TypeOK, shellVars
  <2> QED BY <1>0, <1>4, <2>1, AttachFaithful
<1>5. ASSUME NEW h \in Handlers, PumpTakes(h) \/ PumpWrites(h) PROVE Faithful'
  <2>1. ASSUME NEW k \in Handlers, k # h PROVE FaithfulTo(k)'
    BY <1>0, <1>5, <2>1, SameFor DEF PumpTakes, PumpWrites, TypeOK, shellVars
  <2> QED BY <1>0, <1>5, <2>1, PumpFaithful
<1>6. ASSUME NEW h \in Handlers, GetTerminal(h) PROVE Faithful'
  <2>1. CASE open
    BY <1>1, <1>6, <2>1 DEF GetTerminal, shellVars
  <2>2. CASE ~open
    BY <1>6, <2>2 DEF GetTerminal, Faithful
  <2> QED BY <2>1, <2>2
<1>7. CASE RemoteWrites \/ ShellEnds \/ NextChunk \/ ReaderEnds
  BY <1>1, <1>7 DEF RemoteWrites, ShellEnds, NextChunk, ReaderEnds
<1>8. ASSUME NEW h \in Handlers,
             Accept(h) \/ StatusSent(h) \/ NoTerminal(h) \/ Key(h) \/ ReadFails(h) \/ FeedFails(h) \/ Detach(h)
             \/ Cancel(h) \/ Join(h) \/ Close(h) \/ BrowserLost(h)
      PROVE  Faithful'
  BY <1>1, <1>8
  DEF Accept, StatusSent, NoTerminal, Key, ReadFails, FeedFails, Detach, Cancel, Join, Close, BrowserLost, shellVars
<1>9. ASSUME NEW h \in Handlers, Prompted(h) \/ Fed(h) PROVE Faithful'
  BY <1>1, <1>9 DEF Prompted, Fed, Taken, shellVars
<1>10. ASSUME NEW h \in Handlers, PumpLocks(h) \/ PumpEnds(h) \/ Ping(h) PROVE Faithful'
  BY <1>1, <1>10 DEF PumpLocks, PumpEnds, Ping, Tick, PingLocks, Pong, PingEnds, shellVars
<1>11. CASE UNCHANGED vars
  BY <1>1, <1>11 DEF vars, shellVars
<1> QED BY <1>2, <1>3, <1>4, <1>5, <1>6, <1>7, <1>8, <1>9, <1>10, <1>11 DEF Next, Reader, Main, Feeding, Pump

-----------------------------------------------------------------------------
(* What the browsers never get *)

LEMMA OfNumbers == ASSUME NEW r \in Seq(Chunks) PROVE r \in Seq(Nat)
<1>1. Chunks \subseteq Nat
  BY DEF Chunks
<1> HIDE DEF Chunks
<1> QED BY <1>1, SeqMonotonic

\* One more chunk is read, or the last one is dropped.
LEMMA RisingMore ==
  ASSUME NEW r \in Seq(Chunks), NEW n \in Nat, Rising(r, n)
  PROVE  Rising(r \o <<n + 1>>, n + 1)
<1> DEFINE t == r \o <<n + 1>>
<1>1. r \in Seq(Nat) /\ <<n + 1>> \in Seq(Nat) /\ Len(<<n + 1>>) = 1 /\ <<n + 1>>[1] = n + 1
  <2>1. r \in Seq(Nat)
    BY OfNumbers
  <2>2. n + 1 \in Nat
    OBVIOUS
  <2>3. \A k \in Nat : <<k>> \in Seq(Nat) /\ Len(<<k>>) = 1 /\ <<k>>[1] = k
    OBVIOUS
  <2> QED BY <2>1, <2>2, <2>3
<1>2. PICK m \in Nat : Len(r) = m
  BY <1>1, LenProperties
<1>3. /\ Len(t) = m + 1
      /\ \A i \in 1..m + 1 : t[i] = IF i <= m THEN r[i] ELSE <<n + 1>>[i - m]
  BY <1>1, <1>2, ConcatProperties
<1>4. \A i \in 1..m : r[i] \in Nat /\ r[i] <= n /\ \A j \in 1..i - 1 : r[j] < r[i]
  BY <1>1, <1>2, ElementOfSeq DEF Rising
<1>5. \A i \in 1..m : t[i] = r[i]
  BY <1>2, <1>3
<1>6. t[m + 1] = n + 1
  BY <1>1, <1>2, <1>3
<1> HIDE DEF t
<1>7. ASSUME NEW i \in 1..m + 1 PROVE t[i] <= n + 1 /\ \A j \in 1..i - 1 : t[j] < t[i]
  <2>1. CASE i = m + 1
    BY <1>2, <1>4, <1>5, <1>6, <2>1
  <2>2. CASE i # m + 1
    <3>1. i \in 1..m /\ 1..i - 1 \subseteq 1..m
      BY <1>2, <2>2
    <3> QED BY <1>4, <1>5, <3>1
  <2> QED BY <2>1, <2>2
<1> QED BY <1>2, <1>3, <1>7 DEF Rising, t

LEMMA RisingFront ==
  ASSUME NEW r \in Seq(Chunks), NEW u \in Seq(Chunks), NEW n \in Nat, Rising(r \o u, n)
  PROVE  Rising(r, n)
<1> DEFINE t == r \o u
<1>1. Len(r) \in Nat /\ Len(u) \in Nat
  BY LenProperties
<1>2. Len(t) = Len(r) + Len(u) /\ \A i \in 1..Len(r) : t[i] = r[i]
  BY <1>1, ConcatProperties
<1>3. \A i \in 1..Len(t) : t[i] <= n /\ \A j \in 1..i - 1 : t[j] < t[i]
  BY DEF Rising
<1> HIDE DEF t
<1>4. ASSUME NEW i \in 1..Len(r) PROVE r[i] <= n /\ \A j \in 1..i - 1 : r[j] < r[i]
  <2>1. i \in 1..Len(t) /\ 1..i - 1 \subseteq 1..Len(r)
    BY <1>1, <1>2
  <2> QED BY <1>2, <1>3, <2>1
<1> QED BY <1>4 DEF Rising

\* A new shell starts after all that was written.
LEMMA RisingLater ==
  ASSUME NEW r \in Seq(Chunks), NEW n \in Nat, NEW m \in Nat, n <= m, Rising(r, n)
  PROVE  Rising(r, m)
<1>1. \A i \in 1..Len(r) : r[i] \in Nat
  <2>1. r \in Seq(Nat)
    BY OfNumbers
  <2> QED BY <2>1, ElementOfSeq
<1> QED BY <1>1 DEF Rising

LEMMA SameOrder ==
  ASSUME Ordered, nread' = nread, \A h \in Handlers : Got(h)' = Got(h)
  PROVE  Ordered'
BY DEF Ordered

LEMMA ReadOrdered ==
  ASSUME TypeOK, Taps, Ordered, ReadChunk
  PROVE  Ordered'
<1>1. /\ batch = {} /\ batch' = taps /\ nread' = nread + 1
      /\ screen' = screen /\ hand' = hand /\ queue' = queue
  BY DEF ReadChunk, Taps, outVars
<1>2. nread \in Nat
  BY Counts
<1> SUFFICES ASSUME NEW h \in Handlers PROVE Rising(Got(h)', nread + 1)
  BY <1>1 DEF Ordered
<1>3. PICK r \in Seq(Chunks) : r = screen[h] \o InHand(h) \o queue[h]
  BY GotType, AtEnd
<1>4. Got(h) = r
  <2>1. Got(h) = screen[h] \o InHand(h) \o queue[h] \o <<>>
    BY <1>1 DEF Got, AtTap
  <2> QED BY <1>3, <2>1, GotType, AtEnd
<1>5. Rising(r, nread)
  BY <1>4 DEF Ordered
<1>6. CASE h \in taps
  <2>1. Got(h)' = r \o <<nread + 1>>
    BY <1>1, <1>3, <1>6 DEF Got, InHand, AtTap
  <2> QED BY <1>2, <1>5, <2>1, RisingMore
<1>7. CASE h \notin taps
  <2>1. Got(h)' = Got(h)
    BY <1>1, <1>7 DEF Got, InHand, AtTap
  <2> QED BY <1>2, <1>4, <1>5, <2>1, RisingLater
<1> QED BY <1>6, <1>7

LEMMA TapOrdered ==
  ASSUME TypeOK, Taps, Ordered, NEW h \in Handlers, CallTap(h)
  PROVE  Ordered'
<1>1. /\ h \in batch /\ batch' = batch \ {h} /\ nread' = nread /\ screen' = screen /\ hand' = hand
  BY DEF CallTap, goVars
<1>2. ASSUME NEW k \in Handlers, k # h PROVE Got(k)' = Got(k)
  <2>1. queue'[k] = queue[k]
    BY <1>2 DEF CallTap, Tap, TypeOK
  <2> QED BY <1>1, <1>2, <2>1 DEF Got, InHand, AtTap
<1>3. nread \in Nat
  BY Counts
<1>4. Rising(Got(h)', nread)
  <2>0. Got(h) = screen[h] \o InHand(h) \o queue[h] \o <<nread>> /\ Rising(Got(h), nread)
    BY <1>1 DEF Got, AtTap, Ordered
  <2>1. CASE Len(queue[h]) < QueueMax
    <3>1. queue'[h] = Append(queue[h], nread)
      BY <2>1 DEF CallTap, Tap, TypeOK
    <3>2. Got(h)' = screen[h] \o InHand(h) \o Append(queue[h], nread) \o <<>>
      BY <1>1, <3>1 DEF Got, InHand, AtTap
    <3>3. Got(h)' = Got(h)
      BY <1>1, <2>0, <3>2, GotType, TapToQueue
    <3> QED BY <2>0, <3>3
  <2>2. CASE ~(Len(queue[h]) < QueueMax)
    <3>1. queue' = queue
      BY <2>2 DEF CallTap, Tap
    <3>2. Got(h)' = screen[h] \o InHand(h) \o queue[h] \o <<>>
      BY <1>1, <3>1 DEF Got, InHand, AtTap
    <3>3. PICK r \in Seq(Chunks) : r = screen[h] \o InHand(h) \o queue[h] /\ Got(h)' = r
      <4>1. /\ screen[h] \o InHand(h) \o queue[h] \in Seq(Chunks)
            /\ screen[h] \o InHand(h) \o queue[h] \o <<>> = screen[h] \o InHand(h) \o queue[h]
        BY GotType, AtEnd
      <4> QED BY <3>2, <4>1
    <3>4. <<nread>> \in Seq(Chunks)
      <4>1. nread \in Chunks
        BY <1>1, GotType
      <4> QED BY <4>1
    <3>5. Rising(r \o <<nread>>, nread)
      BY <2>0, <3>3
    <3> QED BY <1>3, <3>3, <3>4, <3>5, RisingFront
  <2> QED BY <2>1, <2>2
<1> QED BY <1>1, <1>2, <1>4 DEF Ordered

LEMMA NewShellOrdered ==
  ASSUME TypeOK, Taps, Ordered, NEW h \in Handlers, GetTerminal(h), ~open
  PROVE  Ordered'
<1>1. nread' = written /\ batch' = batch /\ batch = {} /\ screen' = screen /\ hand' = hand /\ queue' = queue
  BY DEF GetTerminal, Taps, outVars
<1>2. nread \in Nat /\ written \in Nat /\ nread <= written
  BY Counts DEF TypeOK
<1> SUFFICES ASSUME NEW k \in Handlers PROVE Rising(Got(k)', written)
  BY <1>1 DEF Ordered
<1>3. Got(k)' = Got(k)
  BY <1>1 DEF Got, InHand, AtTap
<1>4. Got(k) \in Seq(Chunks)
  <2>1. Got(k) = screen[k] \o InHand(k) \o queue[k] \o <<>>
    BY <1>1 DEF Got, AtTap
  <2> QED BY <2>1, GotType, AtEnd
<1>5. Rising(Got(k), nread)
  BY DEF Ordered
<1> QED BY <1>2, <1>3, <1>4, <1>5, RisingLater

LEMMA PumpOrdered ==
  ASSUME TypeOK, Taps, Ordered, NEW h \in Handlers, PumpTakes(h) \/ PumpWrites(h)
  PROVE  Ordered'
<1>1. nread' = nread /\ batch' = batch
  BY DEF PumpTakes, PumpWrites, shellVars
<1>2. ASSUME NEW k \in Handlers, k # h PROVE Got(k)' = Got(k)
  <2>1. screen'[k] = screen[k] /\ hand'[k] = hand[k] /\ queue'[k] = queue[k]
    BY <1>2 DEF PumpTakes, PumpWrites, TypeOK
  <2> QED BY <1>1, <2>1 DEF Got, InHand, AtTap
<1>3. Got(h)' = Got(h)
  BY PumpKeeps
<1> QED BY <1>1, <1>2, <1>3, SameOrder

LEMMA StepOrdered ==
  ASSUME TypeOK, WriteLock, Taps, Ordered, [Next]_vars
  PROVE  Ordered'
<1>1. CASE UNCHANGED <<nread, batch, queue, hand, screen>>
  <2>1. \A h \in Handlers : Got(h)' = Got(h)
    BY <1>1 DEF Got, InHand, AtTap
  <2> QED BY <1>1, <2>1, SameOrder
<1>2. CASE RemoteWrites \/ ShellEnds \/ NextChunk \/ ReaderEnds
  BY <1>1, <1>2 DEF RemoteWrites, ShellEnds, NextChunk, ReaderEnds, outVars
<1>3. ASSUME NEW h \in Handlers, GetTerminal(h) PROVE Ordered'
  BY <1>1, <1>3, NewShellOrdered DEF GetTerminal, shellVars, outVars
<1>4. ASSUME NEW h \in Handlers,
             Accept(h) \/ StatusSent(h) \/ NoTerminal(h) \/ Key(h) \/ ReadFails(h) \/ FeedFails(h) \/ Detach(h)
             \/ Cancel(h) \/ Join(h) \/ Close(h) \/ BrowserLost(h)
      PROVE  Ordered'
  BY <1>1, <1>4
  DEF Accept, StatusSent, NoTerminal, Key, ReadFails, FeedFails, Detach, Cancel, Join, Close, BrowserLost, shellVars, outVars
<1>5. ASSUME NEW h \in Handlers, Prompted(h) \/ Fed(h) \/ Attach(h) PROVE Ordered'
  BY <1>1, <1>5 DEF Prompted, Fed, Taken, Attach, shellVars, outVars
<1>6. ASSUME NEW h \in Handlers, PumpLocks(h) \/ PumpEnds(h) \/ Ping(h) PROVE Ordered'
  BY <1>1, <1>6 DEF PumpLocks, PumpEnds, Ping, Tick, PingLocks, Pong, PingEnds, shellVars, outVars
<1>7. CASE UNCHANGED vars
  BY <1>1, <1>7 DEF vars, shellVars, outVars
<1> QED BY <1>2, <1>3, <1>4, <1>5, <1>6, <1>7, ReadOrdered, TapOrdered, PumpOrdered
        DEF Next, Reader, Main, Feeding, Pump

-----------------------------------------------------------------------------
(* The theorems *)

LEMMA InitInv == ASSUME Init PROVE BridgeInv
<1>1. TypeOK
  BY InitType
<1>2. WriteLock /\ Taps /\ Faithful
  BY DEF Init, WriteLock, Taps, Faithful, Early
<1> QED BY <1>1, <1>2 DEF BridgeInv

\* BridgeInv is inductive.
THEOREM Invariant == Spec => []BridgeInv
<1>1. Init => BridgeInv
  BY InitInv
<1>2. BridgeInv /\ [Next]_vars => BridgeInv'
  BY StepType, StepWriteLock, StepTaps, StepFaithful DEF BridgeInv
<1> QED BY <1>1, <1>2, PTL DEF Spec

\* The variables keep their types; a queue never grows beyond its capacity.
THEOREM TypeCorrect == Spec => []TypeOK
<1>1. BridgeInv => TypeOK
  BY DEF BridgeInv
<1> QED BY <1>1, Invariant, PTL

\* The goroutines of a handler write the websocket one at a time, the Close
\* without the lock included.
THEOREM OneWriter == Spec => []WriteExclusive
<1>1. BridgeInv => WriteExclusive
  <2> SUFFICES ASSUME WriteLock, NEW h \in Handlers, NEW g \in Writers(h), NEW k \in Writers(h) PROVE g = k
    BY DEF BridgeInv, WriteExclusive
  <2>1. /\ "status" \in Writers(h) => mu[h] = "main" /\ main[h] # "close"
        /\ "pump" \in Writers(h) => mu[h] = "pump" /\ pump[h] = "write"
        /\ "ping" \in Writers(h) => mu[h] = "ping" /\ ping[h] = "pong"
        /\ "close" \in Writers(h) => pump[h] # "write" /\ ping[h] # "pong" /\ main[h] = "close"
    BY DEF WriteLock, Writers
  <2>2. g \in {"status", "close", "pump", "ping"} /\ k \in {"status", "close", "pump", "ping"}
    BY DEF Writers
  <2> QED BY <2>1, <2>2
<1> QED BY <1>1, Invariant, PTL

\* Each browser gets the output in order and without a gap, unless its own
\* queue was full, however many browsers share the terminal.
THEOREM OutputInOrder == Spec => []Faithful
<1>1. BridgeInv => Faithful
  BY DEF BridgeInv
<1> QED BY <1>1, Invariant, PTL

\* No browser sees a chunk twice or after a later one: not with a full queue,
\* not after detach, not across the shells that replace one another.
THEOREM NothingTwice == Spec => [](Ordered /\ \A h \in Handlers : Rising(screen[h], nread))
<1>1. Init => Ordered
  <2> SUFFICES ASSUME Init, NEW h \in Handlers PROVE Rising(Got(h), nread)
    BY DEF Ordered
  <2>1. Got(h) = <<>> \o <<>> \o <<>> \o <<>>
    BY DEF Init, Got, InHand, AtTap
  <2>2. Len(Got(h)) = 0
    BY <2>1
  <2> QED BY <2>2 DEF Rising
<1>2. BridgeInv /\ Ordered /\ [Next]_vars => Ordered'
  BY StepOrdered DEF BridgeInv
<1>3. BridgeInv /\ Ordered => \A h \in Handlers : Rising(screen[h], nread)
  <2> SUFFICES ASSUME TypeOK, Taps, Ordered, NEW h \in Handlers PROVE Rising(screen[h], nread)
    BY DEF BridgeInv
  <2>1. PICK u \in Seq(Chunks) : Got(h) = screen[h] \o u
    <3>1. PICK s \in Seq(Chunks), x \in Seq(Chunks), q \in Seq(Chunks), t \in Seq(Chunks) :
                 s = screen[h] /\ x = InHand(h) /\ q = queue[h] /\ t = AtTap(h)
      BY GotType
    <3>2. s \o x \o q \o t = s \o (x \o q \o t) /\ x \o q \o t \in Seq(Chunks)
      OBVIOUS
    <3>3. Got(h) = s \o x \o q \o t
      BY <3>1 DEF Got
    <3> QED BY <3>1, <3>2, <3>3
  <2>2. Rising(screen[h] \o u, nread)
    BY <2>1 DEF Ordered
  <2> QED BY <2>2, GotType, Counts, RisingFront
<1> QED BY <1>1, <1>2, <1>3, Invariant, PTL DEF Spec

LEMMA StepJoin == ASSUME TypeOK, JoinAfterCancel, [Next]_vars PROVE JoinAfterCancel'
<1>1. ASSUME UNCHANGED ctx, \A h \in Handlers : main'[h] = "join" => main[h] = "join" PROVE JoinAfterCancel'
  BY <1>1 DEF JoinAfterCancel
<1>2. CASE RemoteWrites \/ ShellEnds \/ Reader
  BY <1>1, <1>2 DEF RemoteWrites, ShellEnds, Reader, ReadChunk, NextChunk, ReaderEnds, CallTap, goVars
<1>3. ASSUME NEW h \in Handlers, Cancel(h) PROVE JoinAfterCancel'
  BY <1>3 DEF Cancel, CancelCtx, MainTo, JoinAfterCancel, TypeOK
<1>4. ASSUME NEW h \in Handlers,
             Accept(h) \/ StatusSent(h) \/ GetTerminal(h) \/ NoTerminal(h) \/ Attach(h) \/ Key(h) \/ ReadFails(h)
             \/ Feeding(h) \/ Detach(h) \/ Join(h) \/ Close(h)
      PROVE  JoinAfterCancel'
  <2>1. UNCHANGED ctx
    BY <1>4 DEF Accept, StatusSent, GetTerminal, NoTerminal, Attach, Key, ReadFails, Feeding, Prompted, Fed,
                FeedFails, Detach, Join, Close
  <2>2. \E pc \in {"connecting", "get", "ready", "attach", "failing", "prompt", "read", "feed", "detach", "cancel", "close", "end"} :
          MainTo(h, pc)
    BY <1>4 DEF Accept, StatusSent, GetTerminal, NoTerminal, Status, Attach, Key, ReadFails, Feeding, Prompted, Fed,
                FeedFails, Detach, Join, Close
  <2>3. \A k \in Handlers : main'[k] = "join" => main[k] = "join"
    BY <2>2 DEF MainTo, TypeOK
  <2> QED BY <1>1, <2>1, <2>3
<1>5. ASSUME NEW h \in Handlers, Pump(h) \/ Ping(h) \/ BrowserLost(h) PROVE JoinAfterCancel'
  BY <1>1, <1>5 DEF Pump, PumpTakes, PumpLocks, PumpWrites, PumpEnds, Ping, Tick, PingLocks, Pong, PingEnds, BrowserLost
<1>6. CASE UNCHANGED vars
  BY <1>1, <1>6 DEF vars, goVars
<1> QED BY <1>2, <1>3, <1>4, <1>5, <1>6 DEF Next, Main

\* No goroutines of a handler wait for one another in a circle.
THEOREM NobodyWaitsInACircle == Spec => []NoCircularWait
<1>1. Init => JoinAfterCancel
  BY DEF Init, JoinAfterCancel
<1>2. BridgeInv /\ JoinAfterCancel => NoCircularWait
  <2> SUFFICES ASSUME TypeOK, WriteLock, JoinAfterCancel, NEW h \in Handlers,
                      NEW D \in SUBSET {"main", "pump", "ping"}, D # {}
               PROVE  \E g \in D : \A k \in D : ~WaitsFor(h, g, k)
    BY DEF BridgeInv, NoCircularWait
  <2>0. /\ mu[h] \in {"free", "main", "pump", "ping"} /\ pump[h] \in {"off", "wait", "lock", "write", "end"}
        /\ mu[h] = "main" <=> main[h] \in {"connecting", "ready", "failing"}
        /\ mu[h] = "pump" <=> pump[h] = "write"
        /\ mu[h] = "ping" <=> ping[h] = "pong"
    BY DEF TypeOK, WriteLock
  <2>1. main[h] \in {"off", "get"} => mu[h] = "free"
    BY <2>0 DEF WriteLock, Early
  <2>2. mu[h] = "pump" => \A k : ~WaitsFor(h, "pump", k)
    BY <2>0 DEF WaitsFor
  <2>3. mu[h] = "ping" => \A k : WaitsFor(h, "ping", k) => k = "main" /\ ~ctx[h]
    BY <2>0 DEF WaitsFor
  <2>4. \A k : WaitsFor(h, "pump", k) => k = mu[h]
    BY DEF WaitsFor
  <2>5. \A k : WaitsFor(h, "ping", k) => k = mu[h] \/ (k = "main" /\ mu[h] = "ping")
    BY <2>0 DEF WaitsFor
  <2>6. CASE "main" \in D /\ main[h] = "join"
    <3>1. ctx[h] /\ mu[h] # "main"
      BY <2>0, <2>6 DEF JoinAfterCancel
    <3>2. CASE "pump" \in D /\ mu[h] = "pump"
      BY <2>2, <3>2
    <3>3. CASE "ping" \in D /\ mu[h] = "ping"
      BY <2>3, <3>1, <3>3
    <3>4. CASE D = {"main"}
      <4>1. ~WaitsFor(h, "main", "main")
        BY <2>6, <3>1 DEF WaitsFor
      <4> QED BY <3>4, <4>1
    <3>5. CASE "pump" \in D /\ mu[h] \notin D
      BY <2>4, <3>5
    <3>6. CASE "ping" \in D /\ mu[h] \notin D
      BY <2>3, <2>5, <3>1, <3>6
    <3> QED BY <2>0, <3>1, <3>2, <3>3, <3>4, <3>5, <3>6
  <2>7. CASE "main" \in D /\ main[h] # "join"
    <3>1. \A k \in {"main", "pump", "ping"} : ~WaitsFor(h, "main", k)
      BY <2>1, <2>7 DEF WaitsFor
    <3> QED BY <2>7, <3>1
  <2>8. CASE "main" \notin D
    <3>1. CASE mu[h] \in D
      BY <2>0, <2>2, <2>3, <2>8, <3>1
    <3>2. CASE mu[h] \notin D
      <4>1. PICK g \in D : g \in {"pump", "ping"}
        BY <2>8
      <4>2. \A k \in D : k # mu[h] /\ k # "main"
        BY <2>8, <3>2
      <4> QED BY <2>4, <2>5, <4>1, <4>2
    <3> QED BY <3>1, <3>2
  <2> QED BY <2>6, <2>7, <2>8
<1> QED BY <1>1, <1>2, StepJoin, Invariant, TypeCorrect, PTL DEF Spec

\* A handler that has returned left no tap and no goroutine behind.
THEOREM NothingLeft == Spec => [](\A h \in Handlers : main[h] = "end" => Gone(h))
<1>1. BridgeInv => \A h \in Handlers : main[h] = "end" => Gone(h)
  BY DEF BridgeInv, WriteLock, Taps, Gone
<1> QED BY <1>1, Invariant, PTL
=============================================================================
