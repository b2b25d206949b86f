-------------------------- MODULE LogHandler_proofs --------------------------
(***************************************************************************)
(* LogInv is an invariant of LogHandler: the queue loses nothing, the      *)
(* database closes after its last record, and the records of one goroutine *)
(* keep their order, for any number of loggers and records and every       *)
(* capacity.                                                               *)
(***************************************************************************)
EXTENDS LogHandler, SequenceTheorems, TLAPS

\* A record queued at the end of the queue is the last of all.
LEMMA QueueGrows ==
  ASSUME NEW s \in Seq(Records), NEW q \in Seq(Records), NEW e \in Records
  PROVE  Append(s \o q, e) = s \o Append(q, e)
OBVIOUS

\* A record taken from the front of the queue comes after what was inserted.
LEMMA QueueShrinks ==
  ASSUME NEW s \in Seq(Records), NEW q \in Seq(Records), q # <<>>
  PROVE  s \o q = (s \o <<Head(q)>>) \o Tail(q)
BY HeadTailProperties

\* The inserted records with one more, or with nothing, behind them.
LEMMA Inserts ==
  ASSUME NEW s \in Seq(Records), NEW e \in Records
  PROVE  s \o <<e>> = Append(s, e) /\ s \o <<>> = s
OBVIOUS

\* An empty queue at the beginning.
LEMMA InitInv == ASSUME Init PROVE LogInv
<1>1. <<>> \in Seq(Records) /\ Len(<<>>) = 0 /\ <<>> \o <<>> \o <<>> = <<>>
  OBVIOUS
<1>2. TypeOK
  <2>1. ch \in Seq(Records) /\ inserted \in Seq(Records) /\ accepted \in Seq(Records)
    BY <1>1 DEF Init
  <2>2. Len(ch) <= Capacity
    BY <1>1, LogAssumption DEF Init
  <2>3. logged \in [Loggers -> 0..MaxLogs] /\ pc \in [Loggers -> {"idle", "send", "panic"}]
    BY LogAssumption DEF Init
  <2> QED BY <2>1, <2>2, <2>3 DEF Init, TypeOK, NoRecord
<1>3. NothingLost
  BY <1>1 DEF Init, NothingLost, InFlight
<1>4. InOrder
  BY DEF Init, InOrder
<1> QED BY <1>2, <1>3, <1>4 DEF LogInv

\* Handle keeps the invariant: a record is appended to the queue and to what was accepted.
LEMMA HandleInv ==
  ASSUME LogInv, NEW g \in Loggers, Handle(g)
  PROVE  LogInv'
<1> USE DEF LogInv
<1>1. CASE Log(g)
  <2> USE <1>1 DEF Log
  <2>1. logged[g] + 1 \in 0..MaxLogs /\ logged[g] + 1 # 0
    BY LogAssumption DEF TypeOK
  <2>2. TypeOK' /\ InOrder'
    BY <2>1 DEF TypeOK, InOrder
  <2>3. NothingLost'
    BY DEF NothingLost, InFlight
  <2> QED BY <2>2, <2>3
<1>2. CASE Send(g)
  <2> USE <1>2 DEF Send
  <2>1. Record(g) \in Records
    <3>1. logged[g] \in 1..MaxLogs
      BY LogAssumption DEF TypeOK, InOrder
    <3> QED BY <3>1 DEF Record, Records
  <2>2. TypeOK'
    <3>1. CASE ch' = Append(ch, Record(g)) /\ accepted' = Append(accepted, Record(g)) /\ HasRoom
      <4>1. /\ ch' \in Seq(Records) /\ accepted' \in Seq(Records)
            /\ Len(ch') = Len(ch) + 1 /\ Len(ch) \in Nat
        BY <2>1, <3>1 DEF TypeOK
      <4>2. Len(ch') <= Capacity
        BY <3>1, <4>1, LogAssumption DEF HasRoom
      <4> QED BY <4>1, <4>2 DEF TypeOK
    <3>2. CASE UNCHANGED <<ch, accepted>>
      BY <3>2 DEF TypeOK
    <3> QED BY <3>1, <3>2
  <2>3. NothingLost'
    <3>1. CASE ch' = Append(ch, Record(g)) /\ accepted' = Append(accepted, Record(g))
      <4>1. inserted \o InFlight \in Seq(Records) /\ ch \in Seq(Records)
        BY DEF TypeOK, InFlight
      <4>2. Append((inserted \o InFlight) \o ch, Record(g))
              = (inserted \o InFlight) \o Append(ch, Record(g))
        BY <2>1, <4>1, QueueGrows
      <4>3. inserted' = inserted /\ InFlight' = InFlight
        BY DEF InFlight
      <4> QED BY <3>1, <4>2, <4>3 DEF NothingLost
    <3>2. CASE UNCHANGED <<ch, accepted>>
      BY <3>2 DEF NothingLost, InFlight
    <3> QED BY <3>1, <3>2
  <2>4. InOrder'
    BY DEF InOrder, TypeOK
  <2> QED BY <2>2, <2>3, <2>4
<1> QED BY <1>1, <1>2 DEF Handle

\* The worker keeps it: a record passes from the queue to the worker and to the database.
LEMMA WorkerInv ==
  ASSUME LogInv, Worker
  PROVE  LogInv'
<1> USE LogAssumption DEF LogInv
<1>1. CASE Receive
  <2> USE <1>1 DEF Receive
  <2>1. ch \in Seq(Records) /\ ch # <<>> /\ inserted \in Seq(Records)
    BY DEF TypeOK
  <2>2. Head(ch) \in Records /\ Tail(ch) \in Seq(Records) /\ Len(Tail(ch)) = Len(ch) - 1
    BY <2>1
  <2>3. TypeOK'
    BY <2>2 DEF TypeOK
  <2>4. NothingLost'
    <3>1. inserted \o ch = (inserted \o <<Head(ch)>>) \o Tail(ch)
      BY <2>1, QueueShrinks
    <3>2. inserted \o InFlight = inserted
      BY <2>1, <2>2, Inserts DEF InFlight
    <3> QED BY <3>1, <3>2 DEF NothingLost, InFlight
  <2>5. InOrder'
    BY DEF InOrder
  <2> QED BY <2>3, <2>4, <2>5
<1>2. CASE Insert
  <2> USE <1>2 DEF Insert, InsertLog
  <2>1. record \in Records /\ inserted \in Seq(Records)
    BY DEF TypeOK
  <2>2. TypeOK'
    BY <2>1 DEF TypeOK
  <2>3. NothingLost'
    <3>1. Append(inserted, record) \o <<>> = inserted \o <<record>>
      BY <2>1, <2>2, Inserts
    <3> QED BY <3>1 DEF NothingLost, InFlight
  <2>4. InOrder'
    BY DEF InOrder
  <2> QED BY <2>2, <2>3, <2>4
<1>3. CASE WorkerExit
  BY <1>3 DEF WorkerExit, Drained, TypeOK, NothingLost, InOrder, InFlight
<1> QED BY <1>1, <1>2, <1>3 DEF Worker

\* Shutdown keeps it: each of its steps waits for the one before.
LEMMA ShutdownInv ==
  ASSUME LogInv, Shutdown
  PROVE  LogInv'
<1> USE DEF Shutdown, SetClosed, CloseChannel, Wait, WorkerDone, CloseDB
<1>1. TypeOK'
  BY DEF LogInv, TypeOK
<1>2. NothingLost'
  BY DEF LogInv, NothingLost, InFlight
<1>3. InOrder'
  BY DEF LogInv, InOrder
<1> QED BY <1>1, <1>2, <1>3 DEF LogInv

\* LogInv is inductive.
LEMMA StepInv == ASSUME LogInv, [Next]_vars PROVE LogInv'
<1>1. CASE UNCHANGED vars
  BY <1>1 DEF vars, LogInv, TypeOK, NothingLost, InOrder, InFlight
<1>2. CASE Next
  BY <1>2, HandleInv, WorkerInv, ShutdownInv DEF Next
<1> QED BY <1>1, <1>2

\* The inductive invariant of the log handler.
THEOREM LogInvariant == Spec => []LogInv
BY InitInv, StepInv, PTL DEF Spec

\* Every variable keeps its type, and the queue never exceeds its capacity.
THEOREM TypeCorrect == Spec => []TypeOK
<1>1. LogInv => TypeOK
  BY DEF LogInv
<1> QED BY <1>1, LogInvariant, PTL

\* The channel loses, repeats and reorders nothing that it accepted.
THEOREM QueueLosesNothing == Spec => []NothingLost
<1>1. LogInv => NothingLost
  BY DEF LogInv
<1> QED BY <1>1, LogInvariant, PTL

\* Every accepted record reaches the database before it is closed.
THEOREM DrainsBeforeClose == Spec => []DrainedBeforeClose
<1>1. LogInv => DrainedBeforeClose
  <2> SUFFICES ASSUME LogInv, ~dbOpen PROVE inserted = accepted /\ worker # "insert"
    BY DEF DrainedBeforeClose
  <2>1. worker = "done" /\ ch = <<>>
    BY DEF LogInv, InOrder
  <2>2. accepted = (inserted \o <<>>) \o <<>> /\ inserted \in Seq(Records)
    BY <2>1 DEF LogInv, TypeOK, NothingLost, InFlight
  <2> QED BY <2>1, <2>2
<1> QED BY <1>1, LogInvariant, PTL

-----------------------------------------------------------------------------
(* The order of the records: InLogOrder. *)

\* One record more.
LEMMA OneMore ==
  ASSUME NEW s \in Seq(Records), NEW e \in Records
  PROVE  /\ Append(s, e) \in Seq(Records) /\ Len(s) \in Nat /\ Len(Append(s, e)) = Len(s) + 1
         /\ Append(s, e)[Len(s) + 1] = e
         /\ \A i \in 1..Len(s) : Append(s, e)[i] = s[i] /\ s[i] \in Records
OBVIOUS

\* Nothing is put before, or in place of, the first records.
LEMMA FrontKept ==
  ASSUME NEW s \in Seq(Records), NEW q \in Seq(Records)
  PROVE  /\ s \o q \in Seq(Records) /\ Len(s) \in Nat /\ Len(s) <= Len(s \o q)
         /\ \A i \in 1..Len(s) : (s \o q)[i] = s[i]
OBVIOUS

LEMMA SequencedStep ==
  ASSUME LogInv, Sequenced, [Next]_vars
  PROVE  Sequenced'
<1> USE DEF LogInv
<1>1. \A i \in 1..Len(accepted) : accepted[i] \in Records /\ accepted[i].by \in Loggers /\ accepted[i].n \in Nat
  <2>1. \A i \in 1..Len(accepted) : accepted[i] \in Records
    BY DEF TypeOK
  <2> QED BY <2>1, LogAssumption DEF Records
<1>2. \A g \in Loggers : logged[g] \in Nat
  BY LogAssumption DEF TypeOK
<1>3. ASSUME UNCHANGED <<accepted, logged, pc>> PROVE Sequenced'
  BY <1>3 DEF Sequenced
<1>4. ASSUME NEW g \in Loggers, Log(g) PROVE Sequenced'
  <2>1. /\ logged' = [logged EXCEPT ![g] = logged[g] + 1] /\ accepted' = accepted
        /\ \A h \in Loggers : h # g => pc'[h] = pc[h]
    BY <1>4 DEF Log, TypeOK
  <2>2. \A h \in Loggers : logged'[h] = IF h = g THEN logged[g] + 1 ELSE logged[h]
    BY <2>1 DEF TypeOK
  <2> SUFFICES ASSUME NEW i \in 1..Len(accepted)
               PROVE  LET h == accepted[i].by IN
                      accepted[i].n <= logged'[h] /\ (pc'[h] = "send" => accepted[i].n < logged'[h])
    BY <2>1 DEF Sequenced
  <2> DEFINE h == accepted[i].by
  <2>3. h \in Loggers /\ accepted[i].n \in Nat /\ logged[h] \in Nat
        /\ accepted[i].n <= logged[h] /\ (pc[h] = "send" => accepted[i].n < logged[h])
    BY <1>1, <1>2 DEF Sequenced
  <2> QED BY <2>1, <2>2, <2>3
<1>5. ASSUME NEW g \in Loggers, Send(g) PROVE Sequenced'
  <2>1. pc[g] = "send" /\ logged' = logged /\ pc'[g] # "send"
        /\ \A h \in Loggers : h # g => pc'[h] = pc[h]
    BY <1>5 DEF Send, TypeOK
  <2>2. CASE accepted' = accepted
    BY <1>1, <2>1, <2>2 DEF Sequenced
  <2>3. CASE accepted' = Append(accepted, Record(g))
    <3> DEFINE n == Len(accepted)
    <3>1. Record(g) \in Records /\ Record(g).by = g /\ Record(g).n = logged[g]
      <4>1. logged[g] \in 1..MaxLogs
        BY <2>1, LogAssumption DEF TypeOK, InOrder
      <4> QED BY <4>1 DEF Record, Records
    <3>2. /\ n \in Nat /\ Len(accepted') = n + 1 /\ accepted'[n + 1] = Record(g)
          /\ \A i \in 1..n : accepted'[i] = accepted[i]
      BY <2>3, <3>1, OneMore DEF TypeOK
    <3>3. \A i \in 1..n : accepted[i].by = g => accepted[i].n < logged[g]
      BY <2>1 DEF Sequenced
    <3>4. \A i \in 1..n + 1 : i \in 1..n \/ i = n + 1
      BY <3>2
    <3> HIDE DEF n
    <3>5. \A i, j \in 1..n + 1 :
            i < j /\ accepted'[i].by = accepted'[j].by => accepted'[i].n < accepted'[j].n
      <4> SUFFICES ASSUME NEW i \in 1..n + 1, NEW j \in 1..n + 1, i < j,
                          accepted'[i].by = accepted'[j].by
                   PROVE  accepted'[i].n < accepted'[j].n
        OBVIOUS
      <4>1. i \in 1..n
        BY <3>2
      <4>2. CASE j = n + 1
        BY <3>1, <3>2, <3>3, <4>1, <4>2
      <4>3. CASE j \in 1..n
        BY <3>2, <4>1, <4>3 DEF Sequenced, n
      <4> QED BY <3>4, <4>2, <4>3
    <3>6. \A i \in 1..n + 1 :
            LET h == accepted'[i].by IN
            accepted'[i].n <= logged'[h] /\ (pc'[h] = "send" => accepted'[i].n < logged'[h])
      <4> SUFFICES ASSUME NEW i \in 1..n + 1
                   PROVE  LET h == accepted'[i].by IN
                          accepted'[i].n <= logged'[h] /\ (pc'[h] = "send" => accepted'[i].n < logged'[h])
        OBVIOUS
      <4>1. CASE i = n + 1
        BY <1>2, <2>1, <3>1, <3>2, <4>1
      <4>2. CASE i \in 1..n
        BY <1>1, <2>1, <3>2, <4>2 DEF Sequenced, n
      <4> QED BY <3>4, <4>1, <4>2
    <3> QED BY <3>2, <3>5, <3>6 DEF Sequenced
  <2> QED BY <1>5, <2>2, <2>3 DEF Send
<1>6. CASE Worker
  BY <1>3, <1>6 DEF Worker, Receive, Insert, WorkerExit
<1>7. CASE Shutdown
  BY <1>3, <1>7 DEF Shutdown, SetClosed, CloseChannel, Wait, CloseDB
<1> QED BY <1>3, <1>4, <1>5, <1>6, <1>7 DEF Next, Handle, vars

\* A goroutine's records are inserted in the order in which it logged them, and none
\* is inserted twice, whatever is dropped in between and however Shutdown falls.
THEOREM RecordsKeepTheirOrder == Spec => []InLogOrder
<1>1. Init => Sequenced
  <2>1. Len(<<>>) = 0
    OBVIOUS
  <2> QED BY <2>1 DEF Init, Sequenced
<1>2. LogInv /\ Sequenced /\ [Next]_vars => Sequenced'
  BY SequencedStep
<1>3. LogInv /\ Sequenced => InLogOrder
  <2> SUFFICES ASSUME LogInv, Sequenced PROVE InLogOrder
    OBVIOUS
  <2>1. inserted \in Seq(Records) /\ InFlight \in Seq(Records) /\ ch \in Seq(Records)
    BY DEF LogInv, TypeOK, InFlight
  <2>2. accepted = (inserted \o InFlight) \o ch
    BY DEF LogInv, NothingLost
  <2>3. PICK s : s = inserted \o InFlight
    OBVIOUS
  <2>4. s \in Seq(Records) /\ Len(inserted) \in Nat /\ Len(inserted) <= Len(s)
        /\ \A i \in 1..Len(inserted) : s[i] = inserted[i]
    BY <2>1, <2>3, FrontKept
  <2>5. Len(s) \in Nat /\ Len(s) <= Len(accepted) /\ \A i \in 1..Len(s) : accepted[i] = s[i]
    BY <2>1, <2>2, <2>3, <2>4, FrontKept
  <2>6. \A i \in 1..Len(inserted) : i \in 1..Len(accepted) /\ accepted[i] = inserted[i]
    <3>1. Len(accepted) \in Nat
      BY DEF LogInv, TypeOK
    <3> QED BY <2>4, <2>5, <3>1
  <2> QED BY <2>6 DEF Sequenced, InLogOrder
<1> QED BY <1>1, <1>2, <1>3, LogInvariant, PTL DEF Spec
=============================================================================
