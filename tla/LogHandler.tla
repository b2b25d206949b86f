----------------------------- MODULE LogHandler -----------------------------
(***************************************************************************)
(* The log handler that writes to the database: internal/database/         *)
(* loghandler.go, and its shutdown at the end of server.Run.               *)
(*                                                                         *)
(* Goroutines call Handle, which queues a record on a buffered channel; a  *)
(* worker takes the records out and inserts them; Shutdown sets the closed *)
(* flag, closes the channel and waits for the worker.  http.Shutdown gives *)
(* up after 10 s, so handlers may still log while the server shuts down.   *)
(***************************************************************************)
EXTENDS Naturals, Sequences

CONSTANTS
  Loggers,   \* goroutines that log
  Capacity,  \* of the channel: 256
  MaxLogs    \* bound: records each of them logs

ASSUME LogAssumption == Capacity \in Nat \ {0} /\ MaxLogs \in Nat

VARIABLES
  closed,    \* h.closed
  ch,        \* the records queued in h.ch
  chClosed,  \* h.ch is closed
  pc,        \* each logger: "idle", "send" or "panic"
  logged,    \* each logger: records it has logged
  worker,    \* the worker: "recv", "insert" or "done"
  record,    \* the record the worker holds
  inserted,  \* the records it has tried to insert, in order
  accepted,  \* the records the channel took, in order
  main,      \* server.Run: "serving", "close", "wait", "closeDB" or "stopped"
  dbOpen     \* the database is open

vars == <<closed, ch, chClosed, pc, logged, worker, record, inserted, accepted, main, dbOpen>>

Record(g) == [by |-> g, n |-> logged[g]]
NoRecord  == <<>>

Init ==
  /\ closed = FALSE /\ ch = <<>> /\ chClosed = FALSE
  /\ pc = [g \in Loggers |-> "idle"] /\ logged = [g \in Loggers |-> 0]
  /\ worker = "recv" /\ record = NoRecord
  /\ inserted = <<>> /\ accepted = <<>>
  /\ main = "serving" /\ dbOpen = TRUE

-----------------------------------------------------------------------------
(* Handle. *)

\* Up to the test of h.closed.
Log(g) ==
  /\ pc[g] = "idle" /\ logged[g] < MaxLogs
  /\ logged' = [logged EXCEPT ![g] = @ + 1]
  /\ pc' = [pc EXCEPT ![g] = IF closed THEN "idle" ELSE "send"]
  /\ UNCHANGED <<closed, ch, chClosed, worker, record, inserted, accepted, main, dbOpen>>

\* Mutant: the queue is unbounded.
BugUnbounded == TRUE

\* The channel takes another record.
HasRoom == Len(ch) < Capacity

\* Mutant: a send on a full channel blocks.
BugBlocks == FALSE

\* default: the record is dropped when the channel is full
DropsWhenFull == ~HasRoom

\* The non-blocking send; on a closed channel it panics.
Send(g) ==
  /\ pc[g] = "send"
  /\ \/ /\ chClosed
        /\ pc' = [pc EXCEPT ![g] = "panic"]
        /\ UNCHANGED <<ch, accepted>>
     \/ /\ ~chClosed /\ HasRoom
        /\ ch' = Append(ch, Record(g))
        /\ accepted' = Append(accepted, Record(g))
        /\ pc' = [pc EXCEPT ![g] = "idle"]
     \/ /\ ~chClosed /\ DropsWhenFull
        /\ pc' = [pc EXCEPT ![g] = "idle"]
        /\ UNCHANGED <<ch, accepted>>
  /\ UNCHANGED <<closed, chClosed, logged, worker, record, inserted, main, dbOpen>>

-----------------------------------------------------------------------------
(* worker. *)

Receive ==
  /\ worker = "recv" /\ ch # <<>>
  /\ record' = Head(ch)
  /\ ch' = Tail(ch)
  /\ worker' = "insert"
  /\ UNCHANGED <<closed, chClosed, pc, logged, inserted, accepted, main, dbOpen>>

\* Mutant: once shut down, the worker skips the database too.
BugSkipped(r) == IF closed THEN inserted ELSE Append(inserted, r)

\* InsertLog, whose error is ignored.
InsertLog(r) == Append(inserted, r)

Insert ==
  /\ worker = "insert"
  /\ inserted' = InsertLog(record)
  /\ record' = NoRecord
  /\ worker' = "recv"
  /\ UNCHANGED <<closed, ch, chClosed, pc, logged, accepted, main, dbOpen>>

\* The range loop ends: the channel is closed and empty.
Drained == chClosed /\ ch = <<>>

WorkerExit ==
  /\ worker = "recv" /\ Drained
  /\ worker' = "done"
  /\ UNCHANGED <<closed, ch, chClosed, pc, logged, record, inserted, accepted, main, dbOpen>>

-----------------------------------------------------------------------------
(* Shutdown, then db.Close. *)

SetClosed ==
  /\ main = "serving"
  /\ closed' = TRUE
  /\ main' = "close"
  /\ UNCHANGED <<ch, chClosed, pc, logged, worker, record, inserted, accepted, dbOpen>>

\* Mutant: Shutdown sets only the flag.
BugFlagOnly ==
  /\ main = "close"
  /\ main' = "wait"
  /\ UNCHANGED <<closed, ch, chClosed, pc, logged, worker, record, inserted, accepted, dbOpen>>

CloseChannel ==
  /\ main = "close"
  /\ chClosed' = TRUE
  /\ main' = "wait"
  /\ UNCHANGED <<closed, ch, pc, logged, worker, record, inserted, accepted, dbOpen>>

\* Mutant: Shutdown does not wait.
BugNoWait == TRUE

\* wg.Wait returns.
WorkerDone == worker = "done"

Wait ==
  /\ main = "wait" /\ WorkerDone
  /\ main' = "closeDB"
  /\ UNCHANGED <<closed, ch, chClosed, pc, logged, worker, record, inserted, accepted, dbOpen>>

CloseDB ==
  /\ main = "closeDB"
  /\ dbOpen' = FALSE
  /\ main' = "stopped"
  /\ UNCHANGED <<closed, ch, chClosed, pc, logged, worker, record, inserted, accepted>>

-----------------------------------------------------------------------------

Handle(g) == Log(g) \/ Send(g)
Worker    == Receive \/ Insert \/ WorkerExit
Shutdown  == SetClosed \/ CloseChannel \/ Wait \/ CloseDB

\* A panic in a goroutine that no HTTP handler recovers ends the process; here its
\* goroutine only stops.
Next == Worker \/ Shutdown \/ \E g \in Loggers : Handle(g)

Spec == Init /\ [][Next]_vars

\* Go schedules every goroutine, and Shutdown, once begun, goes on.  The database
\* may never answer: Insert is not fair.
FairSpec ==
  /\ Spec
  /\ WF_vars(Receive) /\ WF_vars(WorkerExit) /\ WF_vars(CloseChannel \/ Wait \/ CloseDB)
  /\ \A g \in Loggers : WF_vars(Send(g))

-----------------------------------------------------------------------------
(* Properties. *)

Records == [by : Loggers, n : 1..MaxLogs]

\* Every variable keeps its type; the channel holds at most Capacity records, and
\* the worker a record exactly while it inserts it.
TypeOK ==
  /\ closed \in BOOLEAN /\ chClosed \in BOOLEAN /\ dbOpen \in BOOLEAN
  /\ ch \in Seq(Records) /\ Len(ch) <= Capacity
  /\ pc \in [Loggers -> {"idle", "send", "panic"}]
  /\ logged \in [Loggers -> 0..MaxLogs]
  /\ worker \in {"recv", "insert", "done"}
  /\ IF worker = "insert" THEN record \in Records ELSE record = NoRecord
  /\ inserted \in Seq(Records) /\ accepted \in Seq(Records)
  /\ main \in {"serving", "close", "wait", "closeDB", "stopped"}

InFlight == IF worker = "insert" THEN <<record>> ELSE <<>>

\* What the channel accepted is inserted in that order, what the worker holds next
\* and the queue after it: the channel loses, repeats and reorders nothing.
NothingLost == accepted = inserted \o InFlight \o ch

\* The database is closed only when every accepted record was handed to it, and
\* the worker never inserts into a closed one, even when loggers race Shutdown.
DrainedBeforeClose ==
  ~dbOpen => inserted = accepted /\ worker # "insert"

\* The records of one goroutine reach the database in the order in which it
\* logged them, and none twice; records may be missing, since a full queue drops.
InLogOrder ==
  \A i, j \in 1..Len(inserted) :
    i < j /\ inserted[i].by = inserted[j].by => inserted[i].n < inserted[j].n

\* The same of what the channel accepted, and that a record about to be sent is
\* newer than those of its goroutine already accepted.
Sequenced ==
  /\ \A i, j \in 1..Len(accepted) :
       i < j /\ accepted[i].by = accepted[j].by => accepted[i].n < accepted[j].n
  /\ \A i \in 1..Len(accepted) :
       LET g == accepted[i].by IN
       accepted[i].n <= logged[g] /\ (pc[g] = "send" => accepted[i].n < logged[g])

\* How far Shutdown and the worker have come, by each other's steps, and that a
\* logger about to send has a record.
InOrder ==
  /\ chClosed <=> main \notin {"serving", "close"}
  /\ worker = "done" => chClosed /\ ch = <<>>
  /\ main \in {"closeDB", "stopped"} => worker = "done"
  /\ dbOpen <=> main # "stopped"
  /\ \A g \in Loggers : pc[g] = "send" => logged[g] # 0

\* The invariant the proofs need: inductive, and it implies DrainedBeforeClose.
LogInv == TypeOK /\ NothingLost /\ InOrder

\* Shutdown returns if every insert does, however the loggers go on.
ShutdownReturns == []<>(worker # "insert") => (main = "close" ~> main = "stopped")

\* A log call returns even when an insert never ends and the queue is full: "drop
\* if the channel is full to avoid blocking the application on database writes".
LogReturns == \A g \in Loggers : pc[g] = "send" ~> pc[g] # "send"

\* Logging after Shutdown never panics: "the database write is silently skipped -
\* this avoids a panic when send on a closed channel".
NoPanic == \A g \in Loggers : pc[g] # "panic"
=============================================================================
