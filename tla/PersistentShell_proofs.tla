---------------------- MODULE PersistentShell_proofs ----------------------
(***************************************************************************)
(* ShellInv is an invariant of PersistentShell, PersistentShell implements *)
(* CommandService, no command follows a failed one, and what Run returns   *)
(* is faithful, for every set of commands and every size of the buffer.    *)
(***************************************************************************)
EXTENDS PersistentShell, TLAPS

\* The pieces the model writes are pieces.
LEMMA PieceTyped ==
  ASSUME NEW c \in Cmds, NEW i \in Nat
  PROVE  /\ Start(c) \in Pieces /\ Done(c) \in Pieces /\ DoneEnd(c) \in Pieces
         /\ Noise \in Pieces /\ Notice(i) \in Pieces /\ Piece("out", c, i) \in Pieces
BY DEF Start, Done, DoneEnd, Noise, Notice, Piece, Pieces

\* What remains of a sequence of pieces is one.
LEMMA DropTyped ==
  ASSUME NEW s \in Seq(Pieces), NEW k \in Nat
  PROVE  Drop(s, k) \in Seq(Pieces)
BY DEF Drop

\* A part of a sequence of pieces is one.
LEMMA PartTyped ==
  ASSUME NEW s \in Seq(Pieces), NEW i \in Nat \ {0}, NEW j \in Nat, j <= Len(s)
  PROVE  SubSeq(s, i, j) \in Seq(Pieces)
OBVIOUS

\* Truncation gives a buffer of pieces, within maxOutputBytes.
LEMMA TruncateTyped ==
  ASSUME NEW s \in Seq(Pieces)
  PROVE  Truncate(s) \in Seq(Pieces) /\ Len(Truncate(s)) <= MaxBuf
<1>1. CASE Len(s) <= MaxBuf
  BY <1>1, ShellAssumption DEF Truncate, ShellAssumption
<1>2. CASE Len(s) > MaxBuf
  <2> DEFINE omitted == Len(s) - HeadKeep - TailKeep
             head == SubSeq(s, 1, HeadKeep)
             tail == Drop(s, Len(s) - TailKeep)
  <2>1. omitted \in Nat /\ Len(s) - TailKeep \in Nat /\ HeadKeep <= Len(s)
    BY <1>2, ShellAssumption DEF ShellAssumption
  <2>2. head \in Seq(Pieces) /\ Len(head) = HeadKeep
    BY <2>1, ShellAssumption DEF ShellAssumption
  <2>3. tail \in Seq(Pieces) /\ Len(tail) = TailKeep
    BY <2>1, ShellAssumption DEF ShellAssumption, Drop
  <2>4. <<Notice(omitted)>> \in Seq(Pieces) /\ Len(<<Notice(omitted)>>) = 1
    <3>1. Notice(omitted) \in Pieces
      BY <2>1 DEF Notice, Piece, Pieces
    <3> QED BY <3>1
  <2>5. Truncate(s) = head \o <<Notice(omitted)>> \o tail
    BY <1>2 DEF Truncate
  <2> HIDE DEF head, tail, omitted
  <2> QED BY <2>2, <2>3, <2>4, <2>5, ShellAssumption DEF ShellAssumption
<1> QED BY <1>1, <1>2, ShellAssumption DEF ShellAssumption

\* A result is a result.
LEMMA ResultTyped ==
  ASSUME NEW out \in Seq(Pieces)
  PROVE  /\ \A k \in {"ok", "error"} : Result(k, out) \in Results
         /\ \A k \in {"ok", "closed", "timeout", "dead", "busy", "write"} :
              Result(k, out) \in Answers
BY DEF Result, Results, Answers

\* No output is a sequence of pieces.
LEMMA NoOutputTyped == NoOutput \in Seq(Pieces)
BY DEF NoOutput

\* Answering the pending command keeps the types of the channels.
LEMMA ResolveTyped ==
  ASSUME TypeOK, NEW c \in Cmds, NEW r \in Results, Resolve(c, r)
  PROVE  result' \in [Cmds -> Results \cup {None}] /\ pending' \in Cmds \cup {None}
BY DEF Resolve, TypeOK

\* So does failing it.
LEMMA ResolveErrorTyped ==
  ASSUME TypeOK, ResolveError
  PROVE  result' \in [Cmds -> Results \cup {None}] /\ pending' \in Cmds \cup {None}
<1>1. CASE pending = None
  BY <1>1 DEF ResolveError, TypeOK
<1>2. CASE pending # None
  <2>1. pending \in Cmds /\ Resolve(pending, Result("error", NoOutput))
    BY <1>2 DEF ResolveError, TypeOK
  <2> QED BY <2>1, NoOutputTyped, ResultTyped, ResolveTyped
<1> QED BY <1>1, <1>2

\* Close keeps the types of what it writes.
LEMMA CloseTyped ==
  ASSUME TypeOK, Close
  PROVE  /\ closed' \in BOOLEAN /\ cancelled' \in BOOLEAN /\ stdout' \in {"open", "nil"}
         /\ result' \in [Cmds -> Results \cup {None}] /\ pending' \in Cmds \cup {None}
BY ResolveErrorTyped DEF Close, TypeOK

\* Scanning keeps the types of what it writes.
LEMMA ScanTyped ==
  ASSUME TypeOK, NEW b \in Seq(Pieces), Scan(b)
  PROVE  /\ buf' \in Seq(Pieces)
         /\ result' \in [Cmds -> Results \cup {None}] /\ pending' \in Cmds \cup {None}
<1>1. CASE /\ pending = None
           /\ buf' = IF Len(b) > IdleMax THEN Drop(b, Len(b) - IdleMax \div 2) ELSE b
           /\ UNCHANGED <<result, pending>>
  <2>1. Len(b) > IdleMax => Len(b) - IdleMax \div 2 \in Nat
    BY ShellAssumption DEF ShellAssumption
  <2> QED BY <1>1, <2>1, DropTyped DEF TypeOK
<1>2. CASE \E i, j \in Indices(b) :
             /\ pending # None /\ Matches(b, pending, i, j)
             /\ Resolve(pending, Result("ok", SubSeq(b, i + 1, j - 1)))
             /\ buf' = Drop(b, j + 2 - i)
  <2>1. PICK i \in Indices(b), j \in Indices(b) :
             /\ pending # None /\ Matches(b, pending, i, j)
             /\ Resolve(pending, Result("ok", SubSeq(b, i + 1, j - 1)))
             /\ buf' = Drop(b, j + 2 - i)
    BY <1>2
  <2>2. /\ i \in Nat /\ j \in Nat /\ i + 1 \in Nat \ {0} /\ j - 1 \in Nat /\ j - 1 <= Len(b)
        /\ j + 2 - i \in Nat /\ Len(b) \in Nat
    BY <2>1 DEF Indices, Matches
  <2>3. SubSeq(b, i + 1, j - 1) \in Seq(Pieces)
    BY <2>2, PartTyped
  <2>4. pending \in Cmds
    BY <2>1 DEF TypeOK
  <2> QED BY <2>1, <2>2, <2>3, <2>4, DropTyped, ResultTyped, ResolveTyped
<1>3. CASE /\ pending # None /\ Unmatched(b, pending)
           /\ buf' = Truncate(b)
           /\ UNCHANGED <<result, pending>>
  BY <1>3, TruncateTyped DEF TypeOK
<1> QED BY <1>1, <1>2, <1>3 DEF Scan

\* The partial output is a sequence of pieces.
LEMMA PartialTyped ==
  ASSUME NEW b \in Seq(Pieces), NEW c \in Cmds
  PROVE  Partial(b, c) \in Seq(Pieces)
<1>1. AfterStart(b, c) \in Seq(Pieces)
  <2>1. CASE Has(b, Start(c))
    <3>1. (CHOOSE i \in Indices(b) : b[i] = Start(c)) \in Indices(b)
      BY <2>1 DEF Has
    <3> QED BY <2>1, <3>1, DropTyped DEF AfterStart, Indices
  <2>2. CASE ~Has(b, Start(c))
    BY <2>2 DEF AfterStart
  <2> QED BY <2>1, <2>2
<1>2. ASSUME NEW s \in Seq(Pieces) PROVE BeforeDone(s, c) \in Seq(Pieces)
  <2>1. CASE Has(s, Done(c))
    <3> DEFINE i == CHOOSE i \in Indices(s) : s[i] = Done(c)
    <3>1. i \in Indices(s)
      BY <2>1 DEF Has
    <3>2. i - 1 \in Nat /\ i - 1 <= Len(s) /\ 1 \in Nat \ {0}
      BY <3>1 DEF Indices
    <3>3. SubSeq(s, 1, i - 1) \in Seq(Pieces)
      BY <3>2, PartTyped
    <3> QED BY <2>1, <3>3 DEF BeforeDone
  <2>2. CASE ~Has(s, Done(c))
    BY <2>2 DEF BeforeDone
  <2> QED BY <2>1, <2>2
<1> QED BY <1>1, <1>2 DEF Partial

\* A step of Run keeps every type.
LEMMA RunTyped == ASSUME TypeOK, NEW c \in Cmds, Run(c) \/ Expire(c) PROVE TypeOK'
<1> USE DEF shellVars, readerVars, callVars, remoteVars
<1>1. c # None
  BY ShellAssumption DEF ShellAssumption
<1>2. CASE Dispatch(c)
  <2>1. \A k \in {"dead", "busy"} : Result(k, NoOutput) \in Answers
    BY NoOutputTyped, ResultTyped
  <2>2. CASE Return(c, Result("dead", NoOutput)) /\ UNCHANGED <<mu, pending, buf>>
    <3>1. pc[c] = "new" /\ mu' = mu /\ pc' = [pc EXCEPT ![c] = "back"]
      BY <1>2, <2>2 DEF Dispatch, Return
    <3>2. mu' \in Cmds \cup {None} /\ \A d \in Cmds : mu' = d <=> pc'[d] = "write"
      BY <3>1 DEF TypeOK
    <3> QED BY <1>2, <2>1, <2>2, <3>2 DEF Dispatch, Return, TypeOK, PCs
  <2>3. CASE Return(c, Result("busy", NoOutput)) /\ UNCHANGED <<mu, pending, buf>>
    <3>1. pc[c] = "new" /\ mu' = mu /\ pc' = [pc EXCEPT ![c] = "back"]
      BY <1>2, <2>3 DEF Dispatch, Return
    <3>2. mu' \in Cmds \cup {None} /\ \A d \in Cmds : mu' = d <=> pc'[d] = "write"
      BY <3>1 DEF TypeOK
    <3> QED BY <1>2, <2>1, <2>3, <3>2 DEF Dispatch, Return, TypeOK, PCs
  <2>4. CASE mu' = c /\ buf' = <<>> /\ pending' = c /\ pc' = [pc EXCEPT ![c] = "write"]
             /\ UNCHANGED answer
    <3>1. pc[c] = "new" /\ mu = None
      BY <1>2 DEF Dispatch, MuFree
    <3>2. mu' \in Cmds \cup {None} /\ \A d \in Cmds : mu' = d <=> pc'[d] = "write"
      BY <1>1, <2>4, <3>1, ShellAssumption DEF TypeOK, ShellAssumption
    <3> QED BY <1>2, <2>4, <3>2 DEF Dispatch, TypeOK, PCs
  <2> QED BY <1>2, <2>2, <2>3, <2>4 DEF Dispatch
<1>3. CASE Write(c)
  <2>1. Result("write", NoOutput) \in Answers
    BY NoOutputTyped, ResultTyped
  <2>2. CASE stdin' = Append(stdin, c) /\ pc' = [pc EXCEPT ![c] = "wait"]
             /\ UNCHANGED <<pending, answer>>
    <3>1. pc[c] = "write" /\ mu' = None /\ pc' = [pc EXCEPT ![c] = "wait"]
      BY <1>3, <2>2 DEF Write, Unlock
    <3>2. mu' \in Cmds \cup {None} /\ \A d \in Cmds : mu' = d <=> pc'[d] = "write"
      BY <3>1, ShellAssumption DEF TypeOK, ShellAssumption
    <3>3. stdin' \in Seq(Cmds)
      BY <2>2 DEF TypeOK
    <3> QED BY <1>3, <2>2, <3>1, <3>2, <3>3 DEF Write, TypeOK, PCs
  <2>3. CASE pending' = None /\ Return(c, Result("write", NoOutput)) /\ UNCHANGED stdin
    <3>1. pc[c] = "write" /\ mu' = None /\ pc' = [pc EXCEPT ![c] = "back"]
      BY <1>3, <2>3 DEF Write, Unlock, Return
    <3>2. mu' \in Cmds \cup {None} /\ \A d \in Cmds : mu' = d <=> pc'[d] = "write"
      BY <3>1, ShellAssumption DEF TypeOK, ShellAssumption
    <3> QED BY <1>3, <2>1, <2>3, <3>2 DEF Write, Return, TypeOK, PCs
  <2> QED BY <1>3, <2>2, <2>3 DEF Write
<1>4. CASE TakeResult(c)
  <2>1. Result("closed", NoOutput) \in Answers
    BY NoOutputTyped, ResultTyped
  <2>2. result[c].kind = "ok" => result[c] \in Answers
    BY <1>4 DEF TakeResult, TypeOK, Results, Answers
  <2> QED BY <1>4, <2>1, <2>2 DEF TakeResult, Return, TypeOK, PCs
<1>5. CASE TakeTimeout(c)
  BY <1>5, PartialTyped DEF TakeTimeout, TypeOK, PCs
<1>6. CASE TimedOut(c)
  <2>1. partial[c] \in Seq(Pieces)
    BY DEF TypeOK
  <2>2. Result("timeout", partial[c]) \in Answers
    BY <2>1, ResultTyped
  <2> QED BY <1>6, <2>2, CloseTyped DEF TimedOut, Reset, Return, TypeOK, PCs
<1>7. CASE Expire(c)
  BY <1>7 DEF Expire, TypeOK
<1> QED BY <1>2, <1>3, <1>4, <1>5, <1>6, <1>7 DEF Run

\* A step of readerLoop keeps every type.
LEMMA ReaderTyped == ASSUME TypeOK, ReaderLoop PROVE TypeOK'
<1> USE DEF shellVars, readerVars, callVars, remoteVars
<1>1. CASE Load
  BY <1>1 DEF Load, TypeOK, Readers
<1>2. CASE Read
  <2>1. PICK k \in 1..Len(wire) : chunk' = SubSeq(wire, 1, k) /\ wire' = Drop(wire, k)
    BY <1>2 DEF Read
  <2>2. k \in Nat /\ k <= Len(wire) /\ wire \in Seq(Pieces) /\ 1 \in Nat \ {0}
    BY <2>1 DEF TypeOK
  <2>3. chunk' \in Seq(Pieces)
    BY <2>1, <2>2, PartTyped
  <2>4. wire' \in Seq(Pieces)
    BY <2>1, <2>2, DropTyped
  <2> QED BY <1>2, <2>3, <2>4 DEF Read, TypeOK, Readers
<1>3. CASE AppendChunk
  <2>1. buf \o chunk \in Seq(Pieces)
    BY DEF TypeOK
  <2>2. /\ buf' \in Seq(Pieces) /\ pending' \in Cmds \cup {None}
        /\ result' \in [Cmds -> Results \cup {None}]
    BY <1>3, <2>1, ScanTyped DEF AppendChunk
  <2>3. chunk' \in Seq(Pieces)
    BY <1>3 DEF AppendChunk
  <2> QED BY <1>3, <2>2, <2>3 DEF AppendChunk, TypeOK, Readers
<1>4. CASE ReadError
  BY <1>4 DEF ReadError, TypeOK, Readers
<1>5. CASE MarkDead
  BY <1>5, ResolveErrorTyped DEF MarkDead, TypeOK, Readers
<1> QED BY <1>1, <1>2, <1>3, <1>4, <1>5 DEF ReaderLoop

\* A step of the remote shell keeps every type.
LEMMA RemoteTyped == ASSUME TypeOK, Remote PROVE TypeOK'
<1> USE DEF shellVars, readerVars, callVars, remoteVars
<1>1. CASE RemoteStart
  <2>1. Head(stdin) \in Cmds /\ Drop(stdin, 1) \in Seq(Cmds)
    BY <1>1 DEF RemoteStart, TypeOK, Drop
  <2>2. wire' \in Seq(Pieces)
    BY <1>1, <2>1, PieceTyped DEF RemoteStart, Emit, TypeOK
  <2> QED BY <1>1, <2>1, <2>2 DEF RemoteStart, TypeOK
<1>2. CASE RemoteOutput
  <2>1. running \in Cmds /\ emitted'[running] \in 0..MaxOut
    BY <1>2, ShellAssumption DEF RemoteOutput, TypeOK, ShellAssumption
  <2>2. Piece("out", running, emitted'[running]) \in Pieces
    BY <2>1, ShellAssumption, PieceTyped DEF ShellAssumption
  <2>3. emitted' \in [Cmds -> 0..MaxOut]
    BY <1>2, <2>1 DEF RemoteOutput, TypeOK
  <2> QED BY <1>2, <2>2, <2>3 DEF RemoteOutput, Emit, TypeOK
<1>3. CASE RemoteDone
  <2>1. running \in Cmds
    BY <1>3 DEF RemoteDone, TypeOK
  <2>2. Done(running) \in Pieces /\ DoneEnd(running) \in Pieces
    BY <2>1, PieceTyped
  <2> QED BY <1>3, <2>1, <2>2 DEF RemoteDone, Emit, TypeOK
<1>4. CASE RemoteNoise
  <2>1. Noise \in Pieces
    BY DEF Noise, Piece, Pieces
  <2>2. noise' \in 0..MaxNoise
    BY <1>4, ShellAssumption DEF RemoteNoise, TypeOK, ShellAssumption
  <2> QED BY <1>4, <2>1, <2>2 DEF RemoteNoise, Emit, TypeOK
<1>5. CASE RemoteExit
  BY <1>5 DEF RemoteExit, TypeOK
<1> QED BY <1>1, <1>2, <1>3, <1>4, <1>5 DEF Remote

\* The initial state is typed.
LEMMA TypeInit == ASSUME Init PROVE TypeOK
<1>1. mu \in Cmds \cup {None} /\ \A c \in Cmds : mu = c <=> pc[c] = "write"
  BY ShellAssumption DEF ShellAssumption, Init
<1>2. /\ buf \in Seq(Pieces) /\ chunk \in Seq(Pieces) /\ stdin \in Seq(Cmds) /\ wire \in Seq(Pieces)
      /\ partial \in [Cmds -> Seq(Pieces)]
  BY DEF Init
<1>3. emitted \in [Cmds -> 0..MaxOut] /\ noise \in 0..MaxNoise
  BY ShellAssumption DEF ShellAssumption, Init
<1> QED BY <1>1, <1>2, <1>3 DEF Init, TypeOK, PCs, Readers

\* Every step keeps the types.
LEMMA TypeStep == ASSUME TypeOK, [Next]_vars PROVE TypeOK'
<1> USE DEF shellVars, readerVars, callVars, remoteVars
<1>1. CASE CloseShell
  BY <1>1, CloseTyped DEF CloseShell, TypeOK
<1>2. CASE UNCHANGED vars
  BY <1>2 DEF vars, TypeOK
<1> QED BY <1>1, <1>2, RunTyped, ReaderTyped, RemoteTyped DEF Next

\* Every variable keeps its type, and s.mu is held across steps by a writer only.
THEOREM TypeCorrect == Spec => []TypeOK
<1>1. TypeOK /\ [Next]_vars => TypeOK'
  BY TypeStep
<1> QED BY <1>1, TypeInit, PTL DEF Spec

-----------------------------------------------------------------------------
(* The calls: Serial, NoOrphan, Writing, Answered, Closed, FailureIsFinal. *)

Calls == Serial /\ NoOrphan /\ Writing /\ Answered /\ Closed /\ FailureIsFinal

\* An answer and a result are not None.
LEMMA NotNone ==
  ASSUME NEW out \in Seq(Pieces)
  PROVE  /\ \A k \in {"ok", "error"} : Result(k, out) # None
         /\ \A k \in {"ok", "closed", "timeout", "dead", "busy", "write"} : Result(k, out) # None
BY ResultTyped, NoneAssumption

\* What the pending command gets when there is an error.
Failed == Result("error", NoOutput)

\* An error fails the pending command and no other.
LEMMA ErrorCalls ==
  ASSUME TypeOK, Calls, ResolveError
  PROVE  /\ pending' = None
         /\ \A c \in Cmds : result'[c] = result[c] \/ (c = pending /\ result'[c] = Failed)
         /\ \A c \in Cmds : pending = c => result'[c] # None
<1>1. CASE pending = None
  BY <1>1, ShellAssumption DEF ResolveError, ShellAssumption
<1>2. CASE pending # None
  <2>1. pending \in Cmds /\ result[pending] = None
    BY <1>2 DEF TypeOK, Calls, NoOrphan
  <2>2. Failed # None
    BY NotNone, NoOutputTyped DEF Failed
  <2>3. result' = [result EXCEPT ![pending] = Failed] /\ pending' = None
    BY <1>2, <2>1 DEF ResolveError, Resolve, TypeOK, Failed
  <2> QED BY <2>1, <2>2, <2>3 DEF TypeOK
<1> QED BY <1>1, <1>2

\* So does closing the shell.
LEMMA CloseCalls ==
  ASSUME TypeOK, Calls, Close
  PROVE  /\ closed' /\ pending' = None
         /\ \A c \in Cmds : result'[c] = result[c] \/ (c = pending /\ result'[c] = Failed)
         /\ \A c \in Cmds : pending = c => result'[c] # None
<1>1. CASE closed
  BY <1>1, ShellAssumption DEF Close, Calls, Closed, ShellAssumption
<1>2. CASE ~closed
  BY <1>2, ErrorCalls DEF Close
<1> QED BY <1>1, <1>2

\* A step that fails the pending command and leaves the calls where they are keeps
\* what is known of them.
LEMMA FailedCalls ==
  ASSUME TypeOK, Calls, UNCHANGED <<pc, answer, remoteUp>>, MuFree,
         closed', pending' = None,
         \A c \in Cmds : result'[c] = result[c] \/ (c = pending /\ result'[c] = Failed),
         \A c \in Cmds : pending = c => result'[c] # None
  PROVE  Calls'
<1>1. Serial' /\ Answered' /\ FailureIsFinal'
  BY DEF Calls, Serial, Answered, FailureIsFinal
<1>2. NoOrphan'
  BY DEF Calls, NoOrphan
<1>3. \A c \in Cmds : pc[c] # "write"
  BY ShellAssumption DEF MuFree, TypeOK, ShellAssumption
<1>4. Writing'
  BY <1>3, ShellAssumption DEF Calls, Writing, NoOrphan, ShellAssumption
<1>5. Closed'
  BY DEF Calls, Closed
<1> QED BY <1>1, <1>2, <1>4, <1>5 DEF Calls

\* A call that returns with the answer a leaves the others as they are.
LEMMA ReturnCalls ==
  ASSUME TypeOK, Calls, NEW c \in Cmds, pc[c] # "back", NEW a \in Answers, Return(c, a)
  PROVE  Serial' /\ Answered'
<1>1. a # None
  BY NoneAssumption
<1>2. Serial'
  BY DEF Return, TypeOK, Calls, Serial
<1>3. Answered'
  BY <1>1 DEF Return, TypeOK, Calls, Answered
<1> QED BY <1>2, <1>3

\* dispatch keeps what is known of the calls.
LEMMA DispatchCalls ==
  ASSUME TypeOK, Calls, Serialised, NEW c \in Cmds, Dispatch(c)
  PROVE  Calls'
<1> USE DEF shellVars, readerVars, callVars, remoteVars
<1>1. /\ pc[c] = "new" /\ result[c] = None /\ UNCHANGED <<closed, cancelled, result, remoteUp>>
      /\ \A d \in Cmds : pc[d] \in {"new", "back"}
  BY DEF Dispatch, Calls, Writing
<1>2. pending = None
  BY <1>1 DEF TypeOK, Calls, NoOrphan
<1>3. CASE Return(c, Result("dead", NoOutput)) /\ closed /\ UNCHANGED <<mu, pending, buf>>
  <2>1. Serial' /\ Answered'
    BY <1>1, <1>3, ReturnCalls, ResultTyped, NoOutputTyped
  <2>2. NoOrphan' /\ Writing'
    BY <1>1, <1>2, <1>3 DEF Return, TypeOK, Calls, NoOrphan, Writing
  <2>3. Closed' /\ FailureIsFinal'
    BY <1>1, <1>2, <1>3 DEF Return, Result, TypeOK, Calls, Closed, FailureIsFinal
  <2> QED BY <2>1, <2>2, <2>3 DEF Calls
<1>4. CASE /\ ~closed /\ pending' = c /\ pc' = [pc EXCEPT ![c] = "write"] /\ UNCHANGED answer
  <2>1. Serial'
    BY <1>1, <1>4 DEF TypeOK, Serial
  <2>2. Answered'
    BY <1>1, <1>4 DEF TypeOK, Calls, Answered
  <2>3. NoOrphan' /\ Writing'
    BY <1>1, <1>2, <1>4 DEF TypeOK, Calls, NoOrphan, Writing
  <2>4. Closed' /\ FailureIsFinal'
    BY <1>1, <1>4 DEF Calls, Closed, FailureIsFinal
  <2> QED BY <2>1, <2>2, <2>3, <2>4 DEF Calls
<1> QED BY <1>2, <1>3, <1>4 DEF Dispatch, Refused

\* The rest of dispatch does.
LEMMA WriteCalls ==
  ASSUME TypeOK, Calls, NEW c \in Cmds, Write(c)
  PROVE  Calls'
<1> USE DEF shellVars, readerVars, callVars, remoteVars
<1>1. /\ pc[c] = "write" /\ result[c] = None /\ pending = c /\ ~closed
      /\ UNCHANGED <<closed, cancelled, result, remoteUp>>
      /\ \A d \in Cmds : d # c => pc[d] \in {"new", "back"}
  BY DEF Write, Calls, Writing, Serial
<1>2. CASE pc' = [pc EXCEPT ![c] = "wait"] /\ UNCHANGED <<pending, answer>>
  <2>1. Serial' /\ Answered'
    BY <1>1, <1>2 DEF TypeOK, Calls, Serial, Answered
  <2>2. NoOrphan' /\ Writing'
    BY <1>1, <1>2 DEF TypeOK, Calls, NoOrphan, Writing
  <2>3. Closed' /\ FailureIsFinal'
    BY <1>1, <1>2 DEF Calls, Closed, FailureIsFinal
  <2> QED BY <2>1, <2>2, <2>3 DEF Calls
<1>3. CASE ~remoteUp /\ pending' = None /\ Return(c, Result("write", NoOutput))
  <2>1. Serial' /\ Answered'
    BY <1>1, <1>3, ReturnCalls, ResultTyped, NoOutputTyped
  <2>2. NoOrphan' /\ Writing'
    BY <1>1, <1>3 DEF Return, TypeOK, Calls, NoOrphan, Writing
  <2>3. Closed' /\ FailureIsFinal'
    BY <1>1, <1>3 DEF Return, Result, TypeOK, Calls, Closed, FailureIsFinal
  <2> QED BY <2>1, <2>2, <2>3 DEF Calls
<1> QED BY <1>2, <1>3 DEF Write

\* The result picked by the select of waitForResult.
LEMMA ResultCalls ==
  ASSUME TypeOK, Calls, NEW c \in Cmds, TakeResult(c)
  PROVE  Calls'
<1> USE DEF shellVars, readerVars, callVars, remoteVars
<1>1. /\ pc[c] = "wait" /\ result[c] # None /\ pending # c
      /\ UNCHANGED <<closed, cancelled, result, pending, remoteUp>>
  BY ShellAssumption DEF TakeResult, Calls, NoOrphan, ShellAssumption
<1>2. result[c] \in Results
  BY <1>1 DEF TypeOK
<1>3. PICK a \in Answers : /\ Return(c, a) /\ a.kind \in {"ok", "closed"}
                           /\ a.kind = "closed" => result[c].kind = "error"
  <2>1. CASE result[c].kind = "ok"
    BY <1>2, <2>1 DEF TakeResult, Results, Answers
  <2>2. CASE result[c].kind # "ok"
    <3>1. Result("closed", NoOutput) \in Answers
      BY ResultTyped, NoOutputTyped
    <3> QED BY <1>2, <2>2, <3>1 DEF TakeResult, Results, Result
  <2> QED BY <2>1, <2>2
<1>4. Serial' /\ Answered'
  BY <1>1, <1>3, ReturnCalls
<1>5. NoOrphan' /\ Writing'
  BY <1>1, <1>3 DEF Return, TypeOK, Calls, NoOrphan, Writing
<1>6. Closed' /\ FailureIsFinal'
  BY <1>1, <1>3 DEF Return, TypeOK, Calls, Closed, FailureIsFinal
<1> QED BY <1>4, <1>5, <1>6 DEF Calls

\* The timeout picked by it.
LEMMA TimeoutCalls ==
  ASSUME TypeOK, Calls, NEW c \in Cmds, TakeTimeout(c)
  PROVE  Calls'
<1> USE DEF shellVars, readerVars, callVars, remoteVars
<1>1. /\ pc[c] = "wait" /\ pending' = None /\ pc' = [pc EXCEPT ![c] = "expire"]
      /\ UNCHANGED <<closed, cancelled, result, answer, remoteUp>>
      /\ \A d \in Cmds : d # c => pc[d] \in {"new", "back"}
  BY DEF TakeTimeout, Calls, Serial
<1>2. Serial' /\ Answered'
  BY <1>1 DEF TypeOK, Calls, Serial, Answered
<1>3. NoOrphan' /\ Writing'
  BY <1>1 DEF TypeOK, Calls, NoOrphan, Writing
<1>4. Closed' /\ FailureIsFinal'
  BY <1>1 DEF Calls, Closed, FailureIsFinal
<1> QED BY <1>2, <1>3, <1>4 DEF Calls

\* And the reset that follows.
LEMMA TimedOutCalls ==
  ASSUME TypeOK, Calls, NEW c \in Cmds, TimedOut(c)
  PROVE  Calls'
<1> USE DEF shellVars, readerVars, callVars, remoteVars
<1> DEFINE a == Result("timeout", partial[c])
<1>1. pc[c] = "expire" /\ MuFree /\ Close /\ Return(c, a) /\ UNCHANGED remoteUp
  BY DEF TimedOut, Reset
<1>2. a \in Answers
  BY ResultTyped DEF TypeOK
<1>3. /\ closed' /\ pending' = None
      /\ \A d \in Cmds : result'[d] = result[d] \/ (d = pending /\ result'[d] = Failed)
      /\ \A d \in Cmds : pending = d => result'[d] # None
  BY <1>1, CloseCalls
<1> HIDE DEF a
<1>4. Serial' /\ Answered'
  BY <1>1, <1>2, ReturnCalls
<1>5. \A d \in Cmds : d # c => pc[d] \in {"new", "back"} /\ result'[d] = result[d]
  BY <1>1, <1>3, ShellAssumption DEF Calls, Serial, NoOrphan, ShellAssumption
<1>6. NoOrphan' /\ Writing'
  BY <1>1, <1>3, <1>5 DEF Return, TypeOK, Calls, NoOrphan, Writing
<1>7. Closed'
  BY <1>3 DEF Calls, Closed
<1>8. FailureIsFinal'
  <2>1. a.kind = "timeout"
    BY DEF a, Result
  <2> QED BY <1>1, <1>3, <2>1 DEF Return, TypeOK, Calls, FailureIsFinal
<1> QED BY <1>4, <1>6, <1>7, <1>8 DEF Calls

\* Reading and matching output answers the pending command only.
LEMMA ScanCalls ==
  ASSUME TypeOK, Calls, NEW b \in Seq(Pieces), Scan(b), MuFree,
         UNCHANGED <<mu, closed, cancelled, pc, answer, remoteUp>>
  PROVE  Calls'
<1>1. CASE UNCHANGED <<result, pending>>
  BY <1>1 DEF Calls, Serial, NoOrphan, Writing, Answered, Closed, FailureIsFinal
<1>2. CASE /\ pending # None
           /\ \E i, j \in Indices(b) :
                 /\ Matches(b, pending, i, j)
                 /\ Resolve(pending, Result("ok", SubSeq(b, i + 1, j - 1)))
  <2>1. PICK i, j \in Indices(b) :
                 /\ Matches(b, pending, i, j)
                 /\ Resolve(pending, Result("ok", SubSeq(b, i + 1, j - 1)))
    BY <1>2
  <2> DEFINE r == Result("ok", SubSeq(b, i + 1, j - 1))
  <2>2. r # None /\ r.kind = "ok"
    <3>1. i + 1 \in Nat \ {0} /\ j - 1 \in Nat /\ j - 1 <= Len(b)
      BY <2>1 DEF Indices
    <3>2. SubSeq(b, i + 1, j - 1) \in Seq(Pieces)
      BY <3>1, PartTyped
    <3> QED BY <3>2, NotNone DEF Result
  <2>3. pending \in Cmds /\ result[pending] = None /\ pc[pending] # "write"
    BY <1>2 DEF TypeOK, Calls, NoOrphan, MuFree
  <2>4. result' = [result EXCEPT ![pending] = r] /\ pending' = None
    BY <2>1, <2>3 DEF Resolve, TypeOK
  <2> HIDE DEF r
  <2>5. Serial' /\ Answered' /\ FailureIsFinal'
    BY DEF Calls, Serial, Answered, FailureIsFinal
  <2>6. NoOrphan'
    BY <2>2, <2>3, <2>4 DEF TypeOK, Calls, NoOrphan
  <2>7. Writing'
    <3>1. \A c \in Cmds : pc[c] # "write"
      BY ShellAssumption DEF MuFree, TypeOK, ShellAssumption
    <3> QED BY <2>3, <2>4, <3>1 DEF TypeOK, Calls, Writing, NoOrphan
  <2>8. Closed'
    BY <2>2, <2>3, <2>4 DEF TypeOK, Calls, Closed
  <2> QED BY <2>5, <2>6, <2>7, <2>8 DEF Calls
<1> QED BY <1>1, <1>2 DEF Scan

\* Every step keeps what is known of the calls.
LEMMA StepCalls ==
  ASSUME TypeOK, Calls, Serialised, [Next]_vars
  PROVE  Calls'
<1> USE DEF shellVars, readerVars, callVars, remoteVars
<1>1. ASSUME NEW c \in Cmds, Run(c) PROVE Calls'
  BY <1>1, DispatchCalls, WriteCalls, ResultCalls, TimeoutCalls, TimedOutCalls DEF Run
<1>2. CASE CloseShell
  <2>1. Close /\ MuFree /\ UNCHANGED <<pc, answer, remoteUp>>
    BY <1>2 DEF CloseShell
  <2> QED BY <2>1, CloseCalls, FailedCalls
<1>3. CASE MarkDead
  <2>1. ResolveError /\ MuFree /\ closed' /\ UNCHANGED <<pc, answer, remoteUp>>
    BY <1>3 DEF MarkDead
  <2> QED BY <2>1, ErrorCalls, FailedCalls
<1>4. CASE AppendChunk
  <2>1. buf \o chunk \in Seq(Pieces)
    BY DEF TypeOK
  <2>2. Scan(buf \o chunk) /\ MuFree /\ UNCHANGED <<mu, closed, cancelled, pc, answer, remoteUp>>
    BY <1>4 DEF AppendChunk
  <2> QED BY <2>1, <2>2, ScanCalls
<1>5. CASE /\ UNCHANGED <<pc, answer, result, pending, closed, cancelled>>
           /\ remoteUp' => remoteUp
  BY <1>5 DEF Calls, Serial, NoOrphan, Writing, Answered, Closed, FailureIsFinal
<1>6. ASSUME NEW c \in Cmds, Expire(c) PROVE Calls'
  BY <1>5, <1>6 DEF Expire
<1>7. CASE Load \/ Read \/ ReadError \/ Remote \/ UNCHANGED vars
  BY <1>5, <1>7 DEF Load, Read, ReadError, Remote, RemoteStart, RemoteOutput, RemoteDone,
                    RemoteNoise, RemoteExit, vars
<1> QED BY <1>1, <1>2, <1>3, <1>4, <1>6, <1>7 DEF Next, ReaderLoop

-----------------------------------------------------------------------------
(* The commands: DoneSeen and Submitted. *)

Commands == DoneSeen /\ Submitted

\* What remains of a sequence that was seen was seen.
LEMMA SeenDrop ==
  ASSUME NEW s \in Seq(Pieces), NEW F, SeenIn(s, F), NEW k \in Nat
  PROVE  SeenIn(Drop(s, k), F)
<1> SUFFICES ASSUME NEW i \in Indices(Drop(s, k))
             PROVE  i + k \in Indices(s) /\ Drop(s, k)[i] = s[i + k]
  BY DEF SeenIn
<1> QED BY DEF Drop, Indices

\* The first pieces of a sequence were seen when all of it was.
LEMMA SeenPart ==
  ASSUME NEW s \in Seq(Pieces), NEW F, SeenIn(s, F), NEW k \in Nat, k <= Len(s)
  PROVE  SeenIn(SubSeq(s, 1, k), F)
<1> SUFFICES ASSUME NEW i \in Indices(SubSeq(s, 1, k))
             PROVE  i \in Indices(s) /\ SubSeq(s, 1, k)[i] = s[i]
  BY DEF SeenIn
<1> QED BY DEF Indices

\* Two sequences that were seen were seen together.
LEMMA SeenConcat ==
  ASSUME NEW s \in Seq(Pieces), NEW u \in Seq(Pieces), NEW F, SeenIn(s, F), SeenIn(u, F)
  PROVE  SeenIn(s \o u, F)
<1> SUFFICES ASSUME NEW i \in Indices(s \o u)
             PROVE  \/ i \in Indices(s) /\ (s \o u)[i] = s[i]
                    \/ i - Len(s) \in Indices(u) /\ (s \o u)[i] = u[i - Len(s)]
  BY DEF SeenIn
<1> QED BY DEF Indices

\* What was seen stays so when more commands finish.
LEMMA SeenMore ==
  ASSUME NEW s, NEW F, NEW G, F \subseteq G, SeenIn(s, F)
  PROVE  SeenIn(s, G)
BY DEF SeenIn

\* Truncation keeps parts and adds a notice.
LEMMA SeenTruncated ==
  ASSUME NEW s \in Seq(Pieces), NEW F, SeenIn(s, F)
  PROVE  SeenIn(Truncate(s), F)
<1>1. CASE Len(s) <= MaxBuf
  BY <1>1, ShellAssumption DEF Truncate, ShellAssumption
<1>2. CASE Len(s) > MaxBuf
  <2> DEFINE omitted == Len(s) - HeadKeep - TailKeep
             head == SubSeq(s, 1, HeadKeep)
             tail == Drop(s, Len(s) - TailKeep)
             notice == <<Notice(omitted)>>
  <2>1. omitted \in Nat /\ Len(s) - TailKeep \in Nat /\ HeadKeep \in Nat /\ HeadKeep <= Len(s)
    BY <1>2, ShellAssumption DEF ShellAssumption
  <2>2. head \in Seq(Pieces) /\ SeenIn(head, F)
    BY <2>1, SeenPart
  <2>3. tail \in Seq(Pieces) /\ SeenIn(tail, F)
    BY <2>1, SeenDrop, DropTyped
  <2>4. notice \in Seq(Pieces) /\ SeenIn(notice, F)
    <3>1. Notice(omitted) \in Pieces /\ Notice(omitted).kind = "notice"
      BY <2>1 DEF Notice, Piece, Pieces
    <3> QED BY <3>1 DEF SeenIn, Indices
  <2>5. Truncate(s) = (head \o notice) \o tail
    BY <1>2 DEF Truncate
  <2> HIDE DEF head, tail, notice
  <2>6. head \o notice \in Seq(Pieces) /\ SeenIn(head \o notice, F)
    BY <2>2, <2>4, SeenConcat
  <2> QED BY <2>3, <2>5, <2>6, SeenConcat
<1> QED BY <1>1, <1>2, ShellAssumption DEF ShellAssumption

\* Scanning a buffer keeps what was seen, and reports no unfinished command.
LEMMA ScanCommands ==
  ASSUME TypeOK, DoneSeen, NEW b \in Seq(Pieces), SeenIn(b, finished), Scan(b)
  PROVE  /\ SeenIn(buf', finished)
         /\ \A c \in Cmds : result'[c] # None /\ result'[c].kind = "ok" => c \in finished
<1>1. CASE /\ pending = None
           /\ buf' = IF Len(b) > IdleMax THEN Drop(b, Len(b) - IdleMax \div 2) ELSE b
           /\ UNCHANGED <<result, pending>>
  <2>1. Len(b) > IdleMax => Len(b) - IdleMax \div 2 \in Nat
    BY ShellAssumption DEF ShellAssumption
  <2>2. SeenIn(buf', finished)
    BY <1>1, <2>1, SeenDrop
  <2> QED BY <1>1, <2>2 DEF DoneSeen
<1>2. CASE \E i, j \in Indices(b) :
             /\ pending # None /\ Matches(b, pending, i, j)
             /\ Resolve(pending, Result("ok", SubSeq(b, i + 1, j - 1)))
             /\ buf' = Drop(b, j + 2 - i)
  <2>1. PICK i \in Indices(b), j \in Indices(b) :
             /\ pending # None /\ Matches(b, pending, i, j)
             /\ Resolve(pending, Result("ok", SubSeq(b, i + 1, j - 1)))
             /\ buf' = Drop(b, j + 2 - i)
    BY <1>2
  <2>2. j + 2 - i \in Nat /\ j + 1 \in Indices(b) /\ b[j + 1] = DoneEnd(pending)
    BY <2>1 DEF Indices, Matches
  <2>3. pending \in finished
    BY <2>2 DEF SeenIn, DoneEnd, Piece
  <2>4. SeenIn(buf', finished)
    BY <2>1, <2>2, SeenDrop
  <2>5. \A c \in Cmds : c # pending => result'[c] = result[c]
    BY <2>1 DEF Resolve, TypeOK
  <2> QED BY <2>3, <2>4, <2>5 DEF DoneSeen
<1>3. CASE /\ pending # None /\ Unmatched(b, pending)
           /\ buf' = Truncate(b)
           /\ UNCHANGED <<result, pending>>
  BY <1>3, SeenTruncated DEF DoneSeen
<1> QED BY <1>1, <1>2, <1>3 DEF Scan

\* A result channel that changes gets an error, and nothing else of DoneSeen changes.
LEMMA FailedSeen ==
  ASSUME DoneSeen, UNCHANGED <<buf, chunk, wire, finished>>,
         \A c \in Cmds : result'[c] = result[c] \/ result'[c] = Failed
  PROVE  DoneSeen'
<1>1. Failed.kind = "error"
  BY DEF Failed, Result
<1> QED BY <1>1 DEF DoneSeen

\* A call that moves on, and was submitted before it unless it is not yet, leaves
\* the commands as they are.
LEMMA MovedSubmitted ==
  ASSUME TypeOK, Submitted, NEW c \in Cmds, NEW l,
         pc' = [pc EXCEPT ![c] = l], l \in {"new", "write"} => pc[c] \in {"new", "write"},
         UNCHANGED <<stdin, running, finished>>
  PROVE  Submitted'
<1>1. \A d \in Cmds : pc[d] \notin {"new", "write"} => pc'[d] \notin {"new", "write"}
  BY DEF TypeOK
<1>2. \A i \in Indices(stdin) : stdin[i] \in Cmds
  BY DEF TypeOK, Indices
<1> QED BY <1>1, <1>2 DEF Submitted, TypeOK

\* A step of Run keeps what is known of the commands.
LEMMA RunCommands ==
  ASSUME TypeOK, Calls, Commands, NEW c \in Cmds, Run(c)
  PROVE  Commands'
<1> USE DEF shellVars, readerVars, callVars, remoteVars
<1>1. CASE Dispatch(c)
  <2>1. PICK l \in {"write", "back"} : pc[c] = "new" /\ pc' = [pc EXCEPT ![c] = l]
    BY <1>1 DEF Dispatch, Return
  <2>2. Submitted'
    BY <1>1, <2>1, MovedSubmitted DEF Dispatch, Commands
  <2>3. UNCHANGED <<chunk, wire, finished, result>> /\ (buf' = buf \/ buf' = <<>>)
    BY <1>1 DEF Dispatch
  <2>4. DoneSeen'
    <3>1. SeenIn(<<>>, finished)
      BY DEF SeenIn, Indices
    <3> QED BY <2>3, <3>1 DEF DoneSeen, Commands
  <2> QED BY <2>2, <2>4 DEF Commands
<1>2. CASE Write(c)
  <2>1. pc[c] = "write" /\ UNCHANGED <<buf, chunk, wire, finished, result, running>>
    BY <1>2 DEF Write
  <2>2. DoneSeen'
    BY <2>1 DEF DoneSeen, Commands
  <2>3. CASE pc' = [pc EXCEPT ![c] = "back"] /\ UNCHANGED stdin
    BY <2>1, <2>2, <2>3, MovedSubmitted DEF Commands
  <2>4. CASE pc' = [pc EXCEPT ![c] = "wait"] /\ stdin' = Append(stdin, c)
    <3>1. /\ \A i \in Indices(stdin) : stdin[i] \in Cmds /\ stdin[i] # c
          /\ running # c /\ c \notin finished
      BY <2>1, ShellAssumption DEF TypeOK, Indices, Commands, Submitted, ShellAssumption
    <3>0. stdin \in Seq(Cmds)
      BY DEF TypeOK
    <3>2. /\ Indices(stdin') = Indices(stdin) \cup {Len(stdin) + 1} /\ stdin'[Len(stdin) + 1] = c
          /\ \A i \in Indices(stdin) : stdin'[i] = stdin[i] /\ i # Len(stdin) + 1
      BY <2>4, <3>0, SMTT(30) DEF Indices
    <3>3. \A d \in Cmds : pc[d] \notin {"new", "write"} \/ d = c => pc'[d] \notin {"new", "write"}
      BY <2>4 DEF TypeOK
    <3>4. /\ \A i \in Indices(stdin') : stdin'[i] \notin finished /\ pc'[stdin'[i]] \notin {"new", "write"}
          /\ \A i, j \in Indices(stdin') : stdin'[i] = stdin'[j] => i = j
      BY <3>1, <3>2, <3>3 DEF Commands, Submitted
    <3>5. running # None =>
            /\ running \notin finished /\ pc'[running] \notin {"new", "write"}
            /\ \A i \in Indices(stdin') : stdin'[i] # running
      BY <3>1, <3>2, <3>3 DEF TypeOK, Commands, Submitted
    <3>6. \A d \in finished : pc'[d] \notin {"new", "write"}
      BY <3>3 DEF TypeOK, Commands, Submitted
    <3>7. Submitted'
      BY <2>1, <3>4, <3>5, <3>6 DEF Submitted
    <3> QED BY <2>2, <3>7 DEF Commands
  <2> QED BY <1>2, <2>3, <2>4 DEF Write, Return
<1>3. CASE TakeResult(c) \/ TakeTimeout(c)
  <2>1. PICK l \in {"expire", "back"} : pc' = [pc EXCEPT ![c] = l]
    BY <1>3 DEF TakeResult, TakeTimeout, Return
  <2>2. UNCHANGED <<buf, chunk, wire, finished, result, stdin, running>>
    BY <1>3 DEF TakeResult, TakeTimeout
  <2>3. DoneSeen'
    BY <2>2 DEF DoneSeen, Commands
  <2> QED BY <2>1, <2>2, <2>3, MovedSubmitted DEF Commands
<1>4. CASE TimedOut(c)
  <2>1. Close /\ pc' = [pc EXCEPT ![c] = "back"]
        /\ UNCHANGED <<buf, chunk, wire, finished, stdin, running>>
    BY <1>4 DEF TimedOut, Reset, Return
  <2>2. DoneSeen'
    BY <2>1, CloseCalls, FailedSeen DEF Commands
  <2> QED BY <2>1, <2>2, MovedSubmitted DEF Commands
<1> QED BY <1>1, <1>2, <1>3, <1>4 DEF Run

\* A step of readerLoop does.
LEMMA ReaderCommands ==
  ASSUME TypeOK, Calls, Commands, ReaderLoop
  PROVE  Commands'
<1> USE DEF shellVars, readerVars, callVars, remoteVars
<1>1. Submitted'
  BY DEF ReaderLoop, Load, Read, AppendChunk, ReadError, MarkDead, Commands, Submitted
<1>2. CASE Load \/ ReadError
  <2>1. DoneSeen'
    BY <1>2 DEF Load, ReadError, DoneSeen, Commands
  <2> QED BY <1>1, <2>1 DEF Commands
<1>3. CASE Read
  <2>1. PICK k \in 1..Len(wire) : chunk' = SubSeq(wire, 1, k) /\ wire' = Drop(wire, k)
    BY <1>3 DEF Read
  <2>2. k \in Nat /\ k <= Len(wire) /\ wire \in Seq(Pieces) /\ SeenIn(wire, finished)
    BY <2>1 DEF TypeOK, Commands, DoneSeen
  <2>3. SeenIn(chunk', finished) /\ SeenIn(wire', finished)
    BY <2>1, <2>2, SeenPart, SeenDrop
  <2>4. DoneSeen'
    BY <1>3, <2>3 DEF Read, DoneSeen, Commands
  <2> QED BY <1>1, <2>4 DEF Commands
<1>4. CASE AppendChunk
  <2>1. buf \o chunk \in Seq(Pieces) /\ SeenIn(buf \o chunk, finished)
    BY SeenConcat DEF TypeOK, Commands, DoneSeen
  <2>2. Scan(buf \o chunk) /\ chunk' = <<>> /\ UNCHANGED <<wire, finished>>
    BY <1>4 DEF AppendChunk
  <2>3. /\ SeenIn(buf', finished)
        /\ \A c \in Cmds : result'[c] # None /\ result'[c].kind = "ok" => c \in finished
    BY <2>1, <2>2, ScanCommands DEF Commands
  <2>4. SeenIn(<<>>, finished)
    BY DEF SeenIn, Indices
  <2>5. DoneSeen'
    BY <2>2, <2>3, <2>4 DEF DoneSeen, Commands
  <2> QED BY <1>1, <2>5 DEF Commands
<1>5. CASE MarkDead
  <2>1. ResolveError /\ UNCHANGED <<buf, chunk, wire, finished>>
    BY <1>5 DEF MarkDead
  <2> QED BY <1>1, <2>1, ErrorCalls, FailedSeen DEF Commands
<1> QED BY <1>2, <1>3, <1>4, <1>5 DEF ReaderLoop

\* What the remote shell prints was seen when its done lines are those of finished
\* commands.
LEMMA EmitSeen ==
  ASSUME TypeOK, DoneSeen, NEW s \in Seq(Pieces), Emit(s), finished \subseteq finished',
         SeenIn(s, finished'), UNCHANGED <<buf, chunk, result>>
  PROVE  DoneSeen'
<1>1. SeenIn(buf, finished') /\ SeenIn(chunk, finished') /\ SeenIn(wire, finished')
  BY SeenMore DEF DoneSeen
<1>2. SeenIn(wire', finished')
  BY <1>1, SeenConcat DEF Emit, TypeOK
<1> QED BY <1>1, <1>2 DEF DoneSeen

\* A step of the remote shell keeps what is known of the commands.
LEMMA RemoteCommands ==
  ASSUME TypeOK, Commands, Remote
  PROVE  Commands'
<1> USE DEF shellVars, readerVars, callVars, remoteVars
<1>1. CASE RemoteStart
  <2>1. /\ stdin # <<>> /\ running' = Head(stdin) /\ stdin' = Drop(stdin, 1) /\ Emit(<<Start(running')>>)
        /\ UNCHANGED <<finished, pc, buf, chunk, result>>
    BY <1>1 DEF RemoteStart
  <2>2. /\ 1 \in Indices(stdin) /\ running' = stdin[1] /\ stdin \in Seq(Cmds)
        /\ \A i \in Indices(stdin') : i + 1 \in Indices(stdin) /\ stdin'[i] = stdin[i + 1]
        /\ \A i \in Indices(stdin') : i \in Nat /\ i + 1 # 1
    BY <2>1 DEF TypeOK, Indices, Drop
  <2>3. running' \in Cmds
    BY <2>2 DEF Indices
  <2>4. \A i \in Indices(stdin') : stdin'[i] # running'
    BY <2>2 DEF Commands, Submitted
  <2>5. \A i, j \in Indices(stdin') : stdin'[i] = stdin'[j] => i = j
    <3> SUFFICES ASSUME NEW i \in Indices(stdin'), NEW j \in Indices(stdin'), stdin'[i] = stdin'[j]
                 PROVE  i = j
      OBVIOUS
    <3>1. i + 1 = j + 1
      BY <2>2 DEF Commands, Submitted
    <3> QED BY <2>2, <3>1
  <2>6. Submitted'
    BY <2>1, <2>2, <2>4, <2>5 DEF Commands, Submitted
  <2>7. <<Start(running')>> \in Seq(Pieces) /\ SeenIn(<<Start(running')>>, finished')
    <3>1. Start(running') \in Pieces /\ Start(running').kind = "start"
      BY <2>3, PieceTyped DEF Start, Piece
    <3> QED BY <3>1 DEF SeenIn, Indices
  <2> QED BY <2>1, <2>6, <2>7, EmitSeen DEF Commands
<1>2. CASE RemoteOutput
  <2> DEFINE s == <<Piece("out", running, emitted'[running])>>
  <2>1. Emit(s) /\ UNCHANGED <<finished, running, stdin, pc, buf, chunk, result>>
    BY <1>2 DEF RemoteOutput
  <2>2. s \in Seq(Pieces) /\ SeenIn(s, finished')
    <3>1. running \in Cmds /\ emitted'[running] \in Nat
      BY <1>2, ShellAssumption DEF RemoteOutput, TypeOK, ShellAssumption
    <3>2. Piece("out", running, emitted'[running]) \in Pieces
          /\ Piece("out", running, emitted'[running]).kind = "out"
      BY <3>1, PieceTyped DEF Piece
    <3> QED BY <3>2 DEF SeenIn, Indices
  <2> HIDE DEF s
  <2> QED BY <2>1, <2>2, EmitSeen DEF Commands, Submitted
<1>3. CASE RemoteDone
  <2> DEFINE s == <<Done(running), DoneEnd(running)>>
  <2>1. /\ running \in Cmds /\ running # None /\ Emit(s)
        /\ finished' = finished \cup {running} /\ running' = None
        /\ UNCHANGED <<stdin, pc, buf, chunk, result>>
    BY <1>3 DEF RemoteDone, TypeOK
  <2>2. s \in Seq(Pieces) /\ SeenIn(s, finished')
    <3>1. Done(running) \in Pieces /\ DoneEnd(running) \in Pieces
      BY <2>1, PieceTyped
    <3>2. \A i \in Indices(s) : s[i].cmd = running
      BY DEF Indices, Done, DoneEnd, Piece
    <3> QED BY <2>1, <3>1, <3>2 DEF SeenIn
  <2> HIDE DEF s
  <2>3. DoneSeen'
    BY <2>1, <2>2, EmitSeen DEF Commands
  <2>4. Submitted'
    BY <2>1 DEF Commands, Submitted
  <2> QED BY <2>3, <2>4 DEF Commands
<1>4. CASE RemoteNoise
  <2>1. Emit(<<Noise>>) /\ UNCHANGED <<finished, running, stdin, pc, buf, chunk, result>>
    BY <1>4 DEF RemoteNoise
  <2>2. <<Noise>> \in Seq(Pieces) /\ SeenIn(<<Noise>>, finished')
    BY DEF Noise, Piece, Pieces, SeenIn, Indices
  <2> QED BY <2>1, <2>2, EmitSeen DEF Commands, Submitted
<1>5. CASE RemoteExit
  BY <1>5 DEF RemoteExit, Commands, DoneSeen, Submitted
<1> QED BY <1>1, <1>2, <1>3, <1>4, <1>5 DEF Remote

\* Every step keeps what is known of the commands.
LEMMA StepCommands ==
  ASSUME TypeOK, Calls, Commands, [Next]_vars
  PROVE  Commands'
<1> USE DEF shellVars, readerVars, callVars, remoteVars
<1>1. CASE CloseShell
  <2>1. Close /\ UNCHANGED <<pc, buf, chunk, wire, finished, stdin, running>>
    BY <1>1 DEF CloseShell
  <2>2. DoneSeen'
    BY <2>1, CloseCalls, FailedSeen DEF Commands
  <2> QED BY <2>1, <2>2 DEF Commands, Submitted
<1>2. ASSUME NEW c \in Cmds, Expire(c) PROVE Commands'
  BY <1>2 DEF Expire, Commands, DoneSeen, Submitted
<1>3. CASE UNCHANGED vars
  BY <1>3 DEF vars, Commands, DoneSeen, Submitted
<1> QED BY <1>1, <1>2, <1>3, RunCommands, ReaderCommands, RemoteCommands DEF Next

-----------------------------------------------------------------------------
(* The invariant. *)

\* The initial state satisfies it ...
LEMMA InvInit == ASSUME Init PROVE ShellInv
<1>1. Calls
  BY DEF Init, Calls, Serial, NoOrphan, Writing, Answered, Closed, FailureIsFinal
<1>2. Commands
  BY DEF Init, Commands, DoneSeen, Submitted, SeenIn, Indices
<1> QED BY <1>1, <1>2, TypeInit DEF ShellInv, Calls, Commands

\* ... and every step keeps it, when the calls are serialised.
LEMMA InvStep == ASSUME Serialised, ShellInv, [Next]_vars PROVE ShellInv'
<1>1. TypeOK /\ Calls /\ Commands
  BY DEF ShellInv, Calls, Commands
<1> QED BY <1>1, TypeStep, StepCalls, StepCommands DEF ShellInv, Calls, Commands

\* When calls of Run come one at a time, every waiting call will be answered,
\* readerLoop knows no command nobody waits for, a failure leaves no usable shell
\* behind, and a result is only ever that of a command the remote shell finished.
THEOREM ShellInvariant == ASSUME Serialised PROVE Spec => []ShellInv
<1>1. ShellInv /\ [Next]_vars => ShellInv'
  BY InvStep
<1> QED BY <1>1, InvInit, PTL DEF Spec

-----------------------------------------------------------------------------
(* Refinement. *)

\* The state of a command in the service.
StateOf(c) == IF pc[c] \in {"new", "write"} THEN "new"
              ELSE IF pc[c] # "back" THEN "running"
              ELSE IF answer[c].kind = "ok" THEN "ok" ELSE "failed"

\* A call that does not move, and whose answer does not change, keeps its state;
\* one that moves changes its own only.
LEMMA StateMoves ==
  ASSUME TypeOK, NEW c \in Cmds, \A d \in Cmds \ {c} : pc'[d] = pc[d] /\ answer'[d] = answer[d]
  PROVE  [d \in Cmds |-> StateOf(d)]' = [[d \in Cmds |-> StateOf(d)] EXCEPT ![c] = StateOf(c)']
BY DEF StateOf

\* A step of Run is Submit, Reject, Reply or Fail, or changes nothing.
LEMMA RunRefines ==
  ASSUME Serialised, ShellInv, NEW c \in Cmds, Run(c)
  PROVE  [Service!Next]_(Service!vars)
<1> USE DEF shellVars, readerVars, callVars, remoteVars
<1> DEFINE state == [d \in Cmds |-> StateOf(d)]
           dead  == closed \/ ~remoteUp
<1>1. TypeOK /\ Calls /\ Commands
  BY DEF ShellInv, Calls, Commands
<1>2. /\ \A d \in Cmds \ {c} : pc'[d] = pc[d] /\ answer'[d] = answer[d]
      /\ UNCHANGED <<finished, remoteUp>>
  BY <1>1 DEF Run, Dispatch, Write, TakeResult, TakeTimeout, TimedOut, Return, TypeOK
<1>3. state' = [state EXCEPT ![c] = StateOf(c)'] /\ state[c] = StateOf(c)
  BY <1>1, <1>2, StateMoves
<1>4. StateOf(c)' = StateOf(c) => state' = state
  BY <1>2 DEF StateOf
<1>5. CASE Dispatch(c)
  <2>1. pc[c] = "new" /\ UNCHANGED closed
    BY <1>5 DEF Dispatch
  <2>2. CASE Return(c, Result("dead", NoOutput)) /\ closed
    <3>1. StateOf(c) = "new" /\ StateOf(c)' = "failed"
      BY <1>1, <2>1, <2>2 DEF Return, Result, TypeOK, StateOf
    <3>2. Service!Reject(c)
      BY <1>2, <1>3, <2>1, <2>2, <3>1 DEF Service!Reject, StateOf
    <3> QED BY <3>2 DEF Service!Next
  <2>3. CASE pc' = [pc EXCEPT ![c] = "write"]
    <3>1. StateOf(c)' = StateOf(c)
      BY <1>1, <2>1, <2>3 DEF TypeOK, StateOf
    <3> QED BY <1>2, <1>4, <2>1, <3>1 DEF Service!vars, StateOf
  <2>4. pending = None
    BY <1>1, <1>5 DEF Dispatch, TypeOK, Calls, NoOrphan
  <2> QED BY <1>5, <2>2, <2>3, <2>4 DEF Dispatch, Refused
<1>6. CASE Write(c)
  <2>1. /\ pc[c] = "write" /\ ~closed /\ UNCHANGED closed
        /\ \A d \in Cmds : d # c => pc[d] \in {"new", "back"}
    BY <1>1, <1>6 DEF Write, Calls, Writing, Serial
  <2>2. CASE remoteUp /\ pc' = [pc EXCEPT ![c] = "wait"]
    <3>1. StateOf(c) = "new" /\ StateOf(c)' = "running"
      BY <1>1, <2>1, <2>2 DEF TypeOK, StateOf
    <3>2. \A d \in Cmds : StateOf(d) # "running"
      BY <2>1, <3>1 DEF StateOf
    <3>3. Service!Submit(c)
      BY <1>2, <1>3, <2>1, <2>2, <3>1, <3>2 DEF Service!Submit, StateOf
    <3> QED BY <3>3 DEF Service!Next
  <2>3. CASE ~remoteUp /\ Return(c, Result("write", NoOutput))
    <3>1. StateOf(c) = "new" /\ StateOf(c)' = "failed"
      BY <1>1, <2>1, <2>3 DEF Return, Result, TypeOK, StateOf
    <3>2. Service!Reject(c)
      BY <1>2, <1>3, <2>1, <2>3, <3>1 DEF Service!Reject, StateOf
    <3> QED BY <3>2 DEF Service!Next
  <2> QED BY <1>6, <2>2, <2>3 DEF Write
<1>7. CASE TakeResult(c)
  <2>1. pc[c] = "wait" /\ result[c] # None /\ UNCHANGED closed /\ StateOf(c) = "running"
    BY <1>7 DEF TakeResult, StateOf
  <2>2. CASE result[c].kind = "ok"
    <3>1. StateOf(c)' = "ok"
      BY <1>1, <1>7, <2>2 DEF TakeResult, Return, TypeOK, StateOf
    <3>2. c \in finished
      BY <1>1, <2>1, <2>2 DEF Commands, DoneSeen
    <3>3. Service!Reply(c)
      BY <1>2, <1>3, <2>1, <3>1, <3>2 DEF Service!Reply, StateOf
    <3> QED BY <3>3 DEF Service!Next
  <2>3. CASE result[c].kind # "ok"
    <3>1. StateOf(c)' = "failed"
      BY <1>1, <1>7, <2>3 DEF TakeResult, Return, Result, TypeOK, StateOf
    <3>2. closed
      BY <1>1, <2>1, <2>3 DEF TypeOK, Results, Calls, Closed
    <3>3. Service!Fail(c)
      BY <1>2, <1>3, <2>1, <3>1, <3>2 DEF Service!Fail, StateOf
    <3> QED BY <3>3 DEF Service!Next
  <2> QED BY <2>2, <2>3
<1>8. CASE TakeTimeout(c)
  <2>1. StateOf(c)' = StateOf(c) /\ UNCHANGED closed
    BY <1>1, <1>8 DEF TakeTimeout, TypeOK, StateOf
  <2> QED BY <1>2, <1>4, <2>1 DEF Service!vars, StateOf
<1>9. CASE TimedOut(c)
  <2>1. /\ StateOf(c) = "running" /\ StateOf(c)' = "failed"
    BY <1>1, <1>9 DEF TimedOut, Return, Result, TypeOK, StateOf
  <2>2. closed'
    BY <1>1, <1>9, CloseCalls DEF TimedOut, Reset
  <2>3. Service!Fail(c)
    BY <1>2, <1>3, <2>1, <2>2 DEF Service!Fail, StateOf
  <2> QED BY <2>3 DEF Service!Next
<1> QED BY <1>5, <1>6, <1>7, <1>8, <1>9 DEF Run

\* Every other step is Finish or Die, or changes nothing.
LEMMA OtherRefines ==
  ASSUME ShellInv, CloseShell \/ ReaderLoop \/ Remote \/ (\E c \in Cmds : Expire(c)) \/ UNCHANGED vars
  PROVE  [Service!Next]_(Service!vars)
<1> USE DEF shellVars, readerVars, callVars, remoteVars
<1>1. TypeOK /\ Calls /\ Commands
  BY DEF ShellInv, Calls, Commands
<1>2. UNCHANGED <<pc, answer>>
  BY DEF CloseShell, ReaderLoop, Load, Read, AppendChunk, ReadError, MarkDead, Remote,
         RemoteStart, RemoteOutput, RemoteDone, RemoteNoise, RemoteExit, Expire, vars
<1>3. CASE CloseShell \/ MarkDead \/ RemoteExit
  <2>1. (closed \/ ~remoteUp)' = TRUE
    BY <1>3 DEF CloseShell, Close, MarkDead, RemoteExit
  <2>2. UNCHANGED finished
    BY <1>3 DEF CloseShell, MarkDead, RemoteExit
  <2>3. Service!Die
    BY <1>2, <2>1, <2>2 DEF Service!Die
  <2> QED BY <2>3 DEF Service!Next
<1>4. CASE RemoteDone
  <2>1. /\ running \in Cmds /\ finished' = finished \cup {running} /\ UNCHANGED <<closed, remoteUp>>
    BY <1>1, <1>4 DEF RemoteDone, TypeOK
  <2>2. running \notin finished /\ pc[running] \notin {"new", "write"}
    BY <1>1, <1>4 DEF RemoteDone, Commands, Submitted
  <2>3. Service!Finish(running)
    BY <1>2, <2>1, <2>2 DEF Service!Finish
  <2> QED BY <2>1, <2>3 DEF Service!Next
<1>5. CASE UNCHANGED <<finished, closed, remoteUp>>
  BY <1>2, <1>5 DEF Service!vars
<1> QED BY <1>3, <1>4, <1>5 DEF ReaderLoop, Load, Read, AppendChunk, ReadError, Remote,
         RemoteStart, RemoteOutput, RemoteNoise, Expire, vars

\* The initial state is one of the service.
LEMMA InitRefines == ASSUME Init PROVE Service!Init
BY DEF Init, Service!Init

\* When calls of Run come one at a time, the shell implements CommandService: a
\* success is only reported for a command the remote shell finished, and a command
\* that fails leaves no shell that takes another.
THEOREM ShellImplementsService == ASSUME Serialised PROVE Spec => RefinesService
<1>1. ShellInv /\ [Next]_vars => [Service!Next]_(Service!vars)
  BY RunRefines, OtherRefines DEF Next
<1> QED BY <1>1, InitRefines, ShellInvariant, PTL DEF Spec, RefinesService, Service!Spec

-----------------------------------------------------------------------------
(* After a failure *)

\* A call that fails was the only one past its entry; nobody gets further after it.
LEMMA StepAfterFailure ==
  ASSUME Serialised, ShellInv, AfterFailure, [Next]_vars
  PROVE  AfterFailure'
<1> TypeOK /\ Serial /\ FailureIsFinal
  BY DEF ShellInv
<1>0. pc \in [Cmds -> PCs] /\ answer \in [Cmds -> Answers \cup {None}]
  BY DEF TypeOK
<1>1. ASSUME UNCHANGED <<pc, answer>>, remoteUp' => remoteUp PROVE AfterFailure'
  BY <1>1 DEF AfterFailure, EndedBadly
<1>2. ASSUME NEW c \in Cmds, NEW a, Return(c, a), \A d \in Cmds : d # c => pc[d] \in {"new", "back"}
      PROVE  AfterFailure'
  <2>1. \A d \in Cmds : pc'[d] \in {"new", "back"}
    BY <1>0, <1>2 DEF Return
  <2> QED BY <2>1 DEF AfterFailure
<1>3. ASSUME NEW c \in Cmds, pc[c] \notin {"new", "back"}, NEW d \in Cmds, d # c
      PROVE  pc[d] \in {"new", "back"}
  BY <1>3 DEF Serial
<1>4. ASSUME NEW c \in Cmds, Dispatch(c) PROVE AfterFailure'
  <2>1. \A d \in Cmds : pc[d] \in {"new", "back"}
    BY <1>4 DEF Dispatch
  <2>2. CASE \E a : Return(c, a)
    BY <1>2, <2>1, <2>2
  <2>3. CASE ~closed /\ pc' = [pc EXCEPT ![c] = "write"] /\ answer' = answer
    <3>1. \A d \in Cmds : EndedBadly(d)' => EndedBadly(d) /\ ~remoteUp
      BY <2>3 DEF EndedBadly, FailureIsFinal
    <3>2. remoteUp' = remoteUp
      BY <1>4 DEF Dispatch, remoteVars
    <3>3. \A d \in Cmds : pc'[d] \in {"new", "back", "write"}
      BY <1>0, <2>1, <2>3
    <3> QED BY <3>1, <3>2, <3>3 DEF AfterFailure
  <2> QED BY <1>4, <2>2, <2>3 DEF Dispatch, Refused
<1>5. ASSUME NEW c \in Cmds, Write(c) PROVE AfterFailure'
  <2>1. CASE \E a : Return(c, a)
    BY <1>2, <1>3, <1>5, <2>1 DEF Write
  <2>2. CASE remoteUp /\ answer' = answer /\ pc' = [pc EXCEPT ![c] = "wait"]
    <3>1. \A d \in Cmds : ~EndedBadly(d)
      BY <1>5, <2>2 DEF AfterFailure, Write
    <3> QED BY <2>2, <3>1 DEF AfterFailure, EndedBadly
  <2> QED BY <1>5, <2>1, <2>2 DEF Write
<1>6. ASSUME NEW c \in Cmds, TakeResult(c) \/ TimedOut(c) PROVE AfterFailure'
  <2>1. pc[c] \notin {"new", "back"} /\ \E a : Return(c, a)
    BY <1>6 DEF TakeResult, TimedOut
  <2> QED BY <1>2, <1>3, <2>1
<1>7. ASSUME NEW c \in Cmds, TakeTimeout(c) PROVE AfterFailure'
  <2>1. \A d \in Cmds : ~EndedBadly(d)
    BY <1>7 DEF AfterFailure, TakeTimeout
  <2> QED BY <1>7, <2>1 DEF AfterFailure, EndedBadly, TakeTimeout
<1>8. CASE ReaderLoop \/ CloseShell \/ \E c \in Cmds : Expire(c)
  BY <1>1, <1>8 DEF ReaderLoop, Load, Read, AppendChunk, ReadError, MarkDead, CloseShell, Expire, callVars, remoteVars
<1>9. CASE Remote
  BY <1>1, <1>9 DEF Remote, RemoteStart, RemoteOutput, RemoteDone, RemoteNoise, RemoteExit, callVars
<1>10. CASE UNCHANGED vars
  BY <1>1, <1>10 DEF vars, callVars, remoteVars
<1> QED BY <1>4, <1>5, <1>6, <1>7, <1>8, <1>9, <1>10 DEF Next, Run

\* With serialised callers no command reaches the remote shell, or succeeds, after one
\* that timed out, was cut off by Close or by the end of the connection, or could not be written.
THEOREM FailureIsTheLast == ASSUME Serialised PROVE Spec => NothingAfterFailure
<1>1. Init => AfterFailure
  BY DEF Init, AfterFailure, EndedBadly
<1>2. Serialised /\ ShellInv /\ AfterFailure /\ [Next]_vars => AfterFailure'
  BY StepAfterFailure
<1>3. ASSUME ShellInv, AfterFailure, AfterFailure', [Next]_vars, NEW c \in Cmds, NEW d \in Cmds,
             EndedBadly(c), pc[d] # "back"
      PROVE  /\ pc'[d] # "wait"
             /\ pc'[d] = "back" => answer'[d].kind # "ok"
  <2>0. pc \in [Cmds -> PCs] /\ answer \in [Cmds -> Answers \cup {None}] /\ pc[c] = "back"
    BY <1>3 DEF ShellInv, TypeOK, Answered, EndedBadly
  <2>1. pc[d] \in {"new", "write"} /\ (pc[d] = "write" => ~remoteUp)
    BY <1>3, <2>0 DEF AfterFailure, PCs
  <2>2. CASE \E e \in Cmds : Dispatch(e)
    BY <2>0, <2>1, <2>2 DEF Dispatch, Return, Result
  <2>3. CASE \E e \in Cmds : Write(e)
    BY <2>0, <2>1, <2>3 DEF Write, Return, Result
  <2>4. ASSUME NEW e \in Cmds, TakeResult(e) \/ TakeTimeout(e) \/ TimedOut(e)
        PROVE  FALSE
    BY <1>3, <2>4 DEF AfterFailure, TakeResult, TakeTimeout, TimedOut
  <2>5. CASE UNCHANGED pc
    BY <2>1, <2>5
  <2> QED BY <1>3, <2>2, <2>3, <2>4, <2>5 DEF Next, Run, Expire, ReaderLoop, Load, Read, AppendChunk,
             ReadError, MarkDead, CloseShell, Remote, RemoteStart, RemoteOutput, RemoteDone, RemoteNoise,
             RemoteExit, callVars, vars
<1>4. ShellInv /\ AfterFailure /\ AfterFailure' /\ [Next]_vars =>
        \A c, d \in Cmds : EndedBadly(c) /\ pc[d] # "back" =>
          /\ pc'[d] # "wait"
          /\ pc'[d] = "back" => answer'[d].kind # "ok"
  BY <1>3
<1> QED BY <1>1, <1>2, <1>4, ShellInvariant, PTL DEF Spec, NothingAfterFailure

-----------------------------------------------------------------------------
(* The buffer. *)

\* A buffer a command is pending on was cut; a read adds at most readChunk to it.
BufInv == /\ pending # None => Len(buf) <= MaxBuf
          /\ Len(chunk) <= MaxChunk
          /\ BufBounded

\* Scanning leaves the buffer within its bounds.
LEMMA ScanBounded ==
  ASSUME TypeOK, BufInv, NEW b \in Seq(Pieces), Len(b) <= Len(buf) + MaxChunk, Scan(b)
  PROVE  (pending' # None => Len(buf') <= MaxBuf) /\ Len(buf') < MaxBuf + MaxChunk
<1>1. Len(b) \in Nat /\ Len(buf) \in Nat /\ MaxBuf \in Nat /\ MaxChunk \in Nat \ {0}
      /\ IdleMax \in Nat /\ IdleMax <= MaxBuf
  BY ShellAssumption DEF ShellAssumption, TypeOK
<1>2. CASE /\ pending = None
           /\ buf' = IF Len(b) > IdleMax THEN Drop(b, Len(b) - IdleMax \div 2) ELSE b
           /\ UNCHANGED <<result, pending>>
  <2>1. CASE Len(b) > IdleMax
    <3>1. IdleMax \div 2 \in Nat /\ IdleMax \div 2 <= IdleMax
      BY <1>1
    <3>2. Len(Drop(b, Len(b) - IdleMax \div 2)) = IdleMax \div 2
      BY <1>1, <2>1, <3>1 DEF Drop
    <3> QED BY <1>1, <1>2, <2>1, <3>1, <3>2
  <2>2. CASE Len(b) <= IdleMax
    BY <1>1, <1>2, <2>2
  <2> QED BY <1>1, <2>1, <2>2
<1>3. CASE \E i, j \in Indices(b) :
             /\ pending # None /\ Matches(b, pending, i, j)
             /\ Resolve(pending, Result("ok", SubSeq(b, i + 1, j - 1)))
             /\ buf' = Drop(b, j + 2 - i)
  <2>1. PICK i \in Indices(b), j \in Indices(b) :
             /\ pending # None /\ Matches(b, pending, i, j) /\ pending' = None
             /\ buf' = Drop(b, j + 2 - i)
    BY <1>3 DEF Resolve
  <2>2. i \in Nat /\ j \in Nat /\ 1 <= i /\ i < j /\ j < Len(b) /\ Len(buf) <= MaxBuf
    BY <2>1 DEF Indices, Matches, BufInv
  <2>3. j + 2 - i \in Nat /\ j + 2 - i <= Len(b) + 1 /\ j + 2 - i > 0
    BY <1>1, <2>2
  <2>4. Len(Drop(b, j + 2 - i)) < Len(b)
    BY <1>1, <2>2, <2>3 DEF Drop
  <2>5. Len(buf') \in Nat
    BY <2>1, <2>3, DropTyped
  <2> QED BY <1>1, <2>1, <2>2, <2>4, <2>5
<1>4. CASE /\ pending # None /\ Unmatched(b, pending)
           /\ buf' = Truncate(b)
           /\ UNCHANGED <<result, pending>>
  <2>1. Len(buf') <= MaxBuf /\ Len(buf') \in Nat
    BY <1>4, TruncateTyped
  <2> QED BY <1>1, <2>1
<1> QED BY <1>2, <1>3, <1>4 DEF Scan

\* Every step keeps the bounds.
LEMMA BufStep == ASSUME TypeOK, BufInv, [Next]_vars PROVE BufInv'
<1> USE DEF shellVars, readerVars, callVars, remoteVars
<1>1. MaxBuf \in Nat /\ MaxChunk \in Nat \ {0} /\ Len(buf) \in Nat /\ Len(chunk) \in Nat
  BY ShellAssumption DEF ShellAssumption, TypeOK
<1>2. CASE AppendChunk
  <2>1. /\ buf \o chunk \in Seq(Pieces) /\ Len(buf \o chunk) <= Len(buf) + MaxChunk
        /\ Scan(buf \o chunk) /\ chunk' = <<>>
    BY <1>1, <1>2 DEF AppendChunk, TypeOK, BufInv
  <2>2. (pending' # None => Len(buf') <= MaxBuf) /\ Len(buf') < MaxBuf + MaxChunk
    BY <2>1, ScanBounded
  <2> QED BY <1>1, <2>1, <2>2 DEF BufInv, BufBounded
<1>3. CASE Read
  <2>1. PICK k \in 1..Len(wire) : k <= MaxChunk /\ chunk' = SubSeq(wire, 1, k)
    BY <1>3 DEF Read
  <2>2. Len(chunk') = k
    BY <2>1 DEF TypeOK
  <2> QED BY <1>1, <1>3, <2>1, <2>2 DEF Read, BufInv, BufBounded
<1>4. CASE buf' = <<>> /\ chunk' = chunk
  BY <1>1, <1>4 DEF BufInv, BufBounded
<1>5. CASE buf' = buf /\ chunk' = chunk /\ pending' \in {pending, None}
  BY <1>5 DEF BufInv, BufBounded
<1>6. ASSUME Close \/ ResolveError PROVE pending' \in {pending, None}
  BY <1>6 DEF Close, ResolveError, Resolve
<1>7. ASSUME NEW c \in Cmds, Run(c) \/ Expire(c) PROVE BufInv'
  BY <1>4, <1>5, <1>6, <1>7 DEF Run, Expire, Dispatch, Return, Write, TakeResult, TakeTimeout,
                           TimedOut, Reset
<1>8. CASE Load \/ ReadError \/ MarkDead \/ CloseShell \/ Remote \/ UNCHANGED vars
  BY <1>5, <1>6, <1>8 DEF Load, ReadError, MarkDead, CloseShell, Remote, RemoteStart,
       RemoteOutput, RemoteDone, RemoteNoise, RemoteExit, vars
<1> QED BY <1>2, <1>3, <1>7, <1>8 DEF Next, ReaderLoop

\* The output buffer never grows past maxOutputBytes by more than one read, for
\* every choice of the sizes, serialised calls or not.
THEOREM BufferBounded == Spec => []BufBounded
<1>1. Init => BufInv
  BY ShellAssumption DEF ShellAssumption, Init, BufInv, BufBounded
<1>2. TypeOK /\ BufInv /\ [Next]_vars => BufInv'
  BY BufStep
<1>3. BufInv => BufBounded
  BY DEF BufInv
<1> QED BY <1>1, <1>2, <1>3, TypeCorrect, PTL DEF Spec

-----------------------------------------------------------------------------
(* OutputFaithful.  What the sequences hold is told by the set of their pieces, *)
(* and the order by a relation between pieces that holds from left to right.    *)

Elems(s) == {s[i] : i \in Indices(s)}

\* The kinds that a command brings into the output.
CmdKinds  == {"start", "out", "done", "doneEnd"}
DoneKinds == {"done", "doneEnd"}

\* q may come behind p in the output of one command.
Follows(p, q) ==
  /\ q.kind = "start" => p.kind \notin CmdKinds
  /\ q.kind = "out" => p.kind \notin DoneKinds /\ (p.kind = "out" => p.n < q.n)
  /\ q.kind = "done" => p.kind \notin DoneKinds
  /\ q.kind = "doneEnd" => p.kind # "doneEnd"

Ordered(s)     == \A i, j \in Indices(s) : i < j => Follows(s[i], s[j])
Precedes(S, T) == \A p \in S, q \in T : Follows(p, q)
Lacks(S, K)    == \A p \in S : p.kind \notin K
Bare(S)        == \A p \in S : p.kind = "noise"

\* Every piece that a command brought is one of c, and has one of c's first m numbers.
Owned(S, c, m) ==
  \A p \in S : /\ p.kind \in CmdKinds => p.cmd = c
               /\ p.kind = "out" => p.n \in 1..m

Out(c, n) == Piece("out", c, n)

\* A notice stands in b behind which c does not start.
Cut(b, c) == \E k \in Indices(b) : b[k].kind = "notice" /\ \A i \in Indices(b) : i > k => b[i] # Start(c)

-----------------------------------------------------------------------------
(* Sequences of pieces *)

\* The pieces of a remainder or a beginning are pieces of the whole.
LEMMA ElemsDrop ==
  ASSUME NEW s \in Seq(Pieces), NEW k \in Nat
  PROVE  Elems(Drop(s, k)) \subseteq Elems(s)
<1> SUFFICES ASSUME NEW i \in Indices(Drop(s, k))
             PROVE  i + k \in Indices(s) /\ Drop(s, k)[i] = s[i + k]
  BY DEF Elems
<1> QED BY DEF Drop, Indices

\* Likewise for a beginning.
LEMMA ElemsPart ==
  ASSUME NEW s \in Seq(Pieces), NEW k \in Nat, k <= Len(s)
  PROVE  Elems(SubSeq(s, 1, k)) \subseteq Elems(s)
<1> SUFFICES ASSUME NEW i \in Indices(SubSeq(s, 1, k))
             PROVE  i \in Indices(s) /\ SubSeq(s, 1, k)[i] = s[i]
  BY DEF Elems
<1> QED BY DEF Indices

\* A beginning and its remainder have all pieces of the whole.
LEMMA ElemsSplit ==
  ASSUME NEW s \in Seq(Pieces), NEW k \in Nat, k <= Len(s)
  PROVE  Elems(SubSeq(s, 1, k)) \cup Elems(Drop(s, k)) = Elems(s)
<1>1. Elems(SubSeq(s, 1, k)) \cup Elems(Drop(s, k)) \subseteq Elems(s)
  BY ElemsDrop, ElemsPart
<1>2. ASSUME NEW i \in Indices(s)
      PROVE  s[i] \in Elems(SubSeq(s, 1, k)) \cup Elems(Drop(s, k))
  <2>1. CASE i <= k
    <3>1. i \in Indices(SubSeq(s, 1, k)) /\ SubSeq(s, 1, k)[i] = s[i]
      BY <2>1 DEF Indices
    <3> QED BY <3>1 DEF Elems
  <2>2. CASE i > k
    <3>1. i - k \in Indices(Drop(s, k)) /\ Drop(s, k)[i - k] = s[i]
      BY <2>2 DEF Drop, Indices
    <3> QED BY <3>1 DEF Elems
  <2> QED BY <2>1, <2>2 DEF Indices
<1> QED BY <1>1, <1>2 DEF Elems

\* Where the pieces of a concatenation come from.
LEMMA ConcatAt ==
  ASSUME NEW s \in Seq(Pieces), NEW u \in Seq(Pieces), NEW i \in Indices(s \o u)
  PROVE  \/ i \in Indices(s) /\ (s \o u)[i] = s[i]
         \/ i - Len(s) \in Indices(u) /\ i > Len(s) /\ (s \o u)[i] = u[i - Len(s)]
BY DEF Indices

\* A concatenation, place by place.
LEMMA ConcatIs ==
  ASSUME NEW s \in Seq(Pieces), NEW u \in Seq(Pieces)
  PROVE  /\ s \o u \in Seq(Pieces) /\ Len(s \o u) = Len(s) + Len(u)
         /\ \A i \in 1..Len(s) : (s \o u)[i] = s[i]
         /\ \A i \in Len(s) + 1..Len(s) + Len(u) : (s \o u)[i] = u[i - Len(s)]
OBVIOUS

\* Its pieces are those of both parts.
LEMMA ElemsConcat ==
  ASSUME NEW s \in Seq(Pieces), NEW u \in Seq(Pieces)
  PROVE  Elems(s \o u) = Elems(s) \cup Elems(u)
<1>1. ASSUME NEW i \in Indices(s \o u) PROVE (s \o u)[i] \in Elems(s) \cup Elems(u)
  <2>1. CASE i \in Indices(s) /\ (s \o u)[i] = s[i]
    BY <2>1 DEF Elems
  <2>2. CASE i - Len(s) \in Indices(u) /\ (s \o u)[i] = u[i - Len(s)]
    BY <2>2 DEF Elems
  <2> QED BY <1>1, <2>1, <2>2, ConcatAt
<1>2. ASSUME NEW i \in Indices(s) PROVE s[i] \in Elems(s \o u)
  <2>1. i \in Indices(s \o u) /\ (s \o u)[i] = s[i]
    BY DEF Indices
  <2> QED BY <2>1 DEF Elems
<1>3. ASSUME NEW i \in Indices(u) PROVE u[i] \in Elems(s \o u)
  <2>1. Len(s) + i \in Indices(s \o u) /\ (s \o u)[Len(s) + i] = u[i]
    BY DEF Indices
  <2> QED BY <2>1 DEF Elems
<1> QED BY <1>1, <1>2, <1>3 DEF Elems

\* Pieces of a sequence of pieces are pieces.
LEMMA ElemsTyped ==
  ASSUME NEW s \in Seq(Pieces)
  PROVE  Elems(s) \subseteq Pieces
BY DEF Elems, Indices

\* No pieces.
LEMMA ElemsEmpty == Elems(<<>>) = {}
BY DEF Elems, Indices

\* A single piece.
LEMMA ElemsOne ==
  ASSUME NEW p \in Pieces
  PROVE  Elems(<<p>>) = {p}
BY DEF Elems, Indices

\* Remainder and beginning of an ordered sequence are ordered.
LEMMA OrderedDrop ==
  ASSUME NEW s \in Seq(Pieces), Ordered(s), NEW k \in Nat
  PROVE  Ordered(Drop(s, k))
<1> SUFFICES ASSUME NEW i \in Indices(Drop(s, k))
             PROVE  i + k \in Indices(s) /\ i \in Nat /\ Drop(s, k)[i] = s[i + k]
  BY DEF Ordered
<1> QED BY DEF Drop, Indices

\* Likewise for any piece of it.
LEMMA OrderedWithin ==
  ASSUME NEW s, Ordered(s), NEW t, NEW d \in Nat,
         \A k \in Indices(t) : k \in Nat /\ k + d \in Indices(s) /\ t[k] = s[k + d]
  PROVE  Ordered(t) /\ Elems(t) \subseteq Elems(s)
<1>1. ASSUME NEW k \in Indices(t), NEW l \in Indices(t), k < l PROVE Follows(t[k], t[l])
  <2>1. k + d < l + d
    BY <1>1
  <2> QED BY <1>1, <2>1 DEF Ordered
<1> QED BY <1>1 DEF Ordered, Elems

\* In particular what SubSeq cuts out.
LEMMA OrderedPart ==
  ASSUME NEW s \in Seq(Pieces), Ordered(s), NEW i \in Nat \ {0}, NEW j \in Nat, j <= Len(s)
  PROVE  Ordered(SubSeq(s, i, j)) /\ Elems(SubSeq(s, i, j)) \subseteq Elems(s)
<1>1. ASSUME NEW k \in Indices(SubSeq(s, i, j))
      PROVE  k \in Nat /\ k + (i - 1) \in Indices(s) /\ SubSeq(s, i, j)[k] = s[k + (i - 1)]
  BY DEF Indices
<1>2. i - 1 \in Nat
  OBVIOUS
<1> DEFINE part == SubSeq(s, i, j)
<1>3. \A k \in Indices(part) : k \in Nat /\ k + (i - 1) \in Indices(s) /\ part[k] = s[k + (i - 1)]
  BY <1>1
<1> HIDE DEF part
<1>4. Ordered(part) /\ Elems(part) \subseteq Elems(s)
  BY <1>2, <1>3, OrderedWithin
<1> QED BY <1>4 DEF part

\* What follows an ordered sequence may be appended to it.
LEMMA OrderedConcat ==
  ASSUME NEW s \in Seq(Pieces), NEW u \in Seq(Pieces),
         Ordered(s), Ordered(u), Precedes(Elems(s), Elems(u))
  PROVE  Ordered(s \o u)
<1> SUFFICES ASSUME NEW i \in Indices(s \o u), NEW j \in Indices(s \o u), i < j
             PROVE  Follows((s \o u)[i], (s \o u)[j])
  BY DEF Ordered
<1>1. CASE i \in Indices(s) /\ j \in Indices(s)
  <2>1. (s \o u)[i] = s[i] /\ (s \o u)[j] = s[j]
    BY <1>1 DEF Indices
  <2> QED BY <1>1, <2>1 DEF Ordered
<1>2. CASE i \in Indices(s) /\ j \notin Indices(s)
  <2>1. i \in Indices(s) /\ (s \o u)[i] = s[i]
    BY <1>2 DEF Indices
  <2>2. j - Len(s) \in Indices(u) /\ (s \o u)[j] = u[j - Len(s)]
    BY <1>2, ConcatAt
  <2>3. (s \o u)[i] \in Elems(s) /\ (s \o u)[j] \in Elems(u)
    BY <2>1, <2>2 DEF Elems
  <2> QED BY <2>3 DEF Precedes
<1>3. CASE i \notin Indices(s)
  <2>1. i - Len(s) \in Indices(u) /\ (s \o u)[i] = u[i - Len(s)]
    BY <1>3, ConcatAt
  <2>2. j - Len(s) \in Indices(u) /\ (s \o u)[j] = u[j - Len(s)]
    BY <1>3 DEF Indices
  <2>3. i - Len(s) < j - Len(s)
    BY DEF Indices
  <2> QED BY <2>1, <2>2, <2>3 DEF Ordered
<1> QED BY <1>1, <1>2, <1>3

-----------------------------------------------------------------------------
(* What truncation does to an ordered buffer *)

Gap(s) == Len(s) - HeadKeep - TailKeep

\* A buffer that is too long: its head, a notice, its tail.
LEMMA TruncateAt ==
  ASSUME NEW s \in Seq(Pieces), Len(s) > MaxBuf
  PROVE  /\ Gap(s) \in Nat \ {0} /\ Len(Truncate(s)) = HeadKeep + 1 + TailKeep
         /\ \A i \in 1..HeadKeep : Truncate(s)[i] = s[i]
         /\ Truncate(s)[HeadKeep + 1] = Notice(Gap(s))
         /\ \A i \in HeadKeep + 2..HeadKeep + 1 + TailKeep : Truncate(s)[i] = s[i + Gap(s) - 1]
<1> DEFINE head == SubSeq(s, 1, HeadKeep)
           tail == Drop(s, Len(s) - TailKeep)
           notice == <<Notice(Gap(s))>>
<1>1. /\ HeadKeep \in Nat /\ TailKeep \in Nat /\ Gap(s) \in Nat \ {0}
      /\ Len(s) - TailKeep \in Nat /\ HeadKeep <= Len(s) /\ Len(s) \in Nat
  BY ShellAssumption DEF ShellAssumption, Gap
<1>2. head \in Seq(Pieces) /\ Len(head) = HeadKeep /\ \A i \in 1..HeadKeep : head[i] = s[i]
  BY <1>1
<1>3. tail \in Seq(Pieces) /\ Len(tail) = TailKeep /\ \A i \in 1..TailKeep : tail[i] = s[i + (Len(s) - TailKeep)]
  BY <1>1 DEF Drop
<1>4. notice \in Seq(Pieces) /\ Len(notice) = 1 /\ notice[1] = Notice(Gap(s))
  BY <1>1, ShellAssumption DEF Notice, Piece, Pieces, ShellAssumption
<1>5. Truncate(s) = head \o notice \o tail
  BY DEF Truncate, Gap
<1> HIDE DEF head, tail, notice
<1>6. \E r \in Seq(Pieces) :
        /\ r = head \o notice /\ Len(r) = HeadKeep + 1
        /\ \A i \in 1..HeadKeep : r[i] = s[i]
        /\ r[HeadKeep + 1] = Notice(Gap(s))
  <2>4. /\ head \o notice \in Seq(Pieces) /\ Len(head \o notice) = Len(head) + Len(notice)
        /\ \A i \in 1..Len(head) : (head \o notice)[i] = head[i]
        /\ \A i \in Len(head) + 1..Len(head) + Len(notice) : (head \o notice)[i] = notice[i - Len(head)]
    BY <1>2, <1>4, ConcatIs
  <2>1. /\ head \o notice \in Seq(Pieces) /\ Len(head \o notice) = HeadKeep + 1
        /\ \A i \in 1..HeadKeep : (head \o notice)[i] = head[i]
        /\ \A i \in HeadKeep + 1..HeadKeep + 1 : (head \o notice)[i] = notice[i - HeadKeep]
    <3>1. Len(head) = HeadKeep /\ Len(notice) = 1
      BY <1>2, <1>4
    <3> QED BY <2>4, <3>1, Zenon
  <2>2. HeadKeep + 1 \in HeadKeep + 1..HeadKeep + 1 /\ (HeadKeep + 1) - HeadKeep = 1
    BY <1>1
  <2>3. (head \o notice)[HeadKeep + 1] = Notice(Gap(s))
    BY <1>4, <2>1, <2>2
  <2> QED BY <1>2, <2>1, <2>3
<1>7. PICK r \in Seq(Pieces) :
        /\ r = head \o notice /\ Len(r) = HeadKeep + 1
        /\ \A i \in 1..HeadKeep : r[i] = s[i]
        /\ r[HeadKeep + 1] = Notice(Gap(s))
  BY <1>6
<1>9. /\ Len(r \o tail) = HeadKeep + 1 + TailKeep
      /\ \A i \in 1..HeadKeep + 1 : (r \o tail)[i] = r[i]
      /\ \A i \in HeadKeep + 2..HeadKeep + 1 + TailKeep : (r \o tail)[i] = tail[i - (HeadKeep + 1)]
  <2>1. /\ Len(r \o tail) = Len(r) + Len(tail)
        /\ \A i \in 1..Len(r) : (r \o tail)[i] = r[i]
        /\ \A i \in Len(r) + 1..Len(r) + Len(tail) : (r \o tail)[i] = tail[i - Len(r)]
    BY <1>3, ConcatIs
  <2>2. Len(r) = HeadKeep + 1 /\ Len(tail) = TailKeep
    BY <1>3, <1>7
  <2>3. (HeadKeep + 1) + 1 = HeadKeep + 2
    BY <1>1
  <2> HIDE <1>7
  <2> QED BY <2>1, <2>2, <2>3, Zenon
<1>10. Truncate(s) = r \o tail
  BY <1>5, <1>7
<1>11. /\ \A i \in 1..HeadKeep : (r \o tail)[i] = s[i]
       /\ (r \o tail)[HeadKeep + 1] = Notice(Gap(s))
  <2>1. HeadKeep + 1 \in 1..HeadKeep + 1 /\ \A i \in 1..HeadKeep : i \in 1..HeadKeep + 1
    BY <1>1
  <2> QED BY <1>7, <1>9, <2>1, Zenon
<1>8. \A i \in HeadKeep + 2..HeadKeep + 1 + TailKeep : tail[i - (HeadKeep + 1)] = s[i + Gap(s) - 1]
  BY <1>1, <1>3 DEF Gap
<1> QED BY <1>1, <1>8, <1>9, <1>10, <1>11

\* A short buffer is left alone.
LEMMA TruncateShort ==
  ASSUME NEW s \in Seq(Pieces), ~(Len(s) > MaxBuf)
  PROVE  Truncate(s) = s
BY DEF Truncate

\* Where a piece of a buffer that was cut stood before.
Was(s, i) == IF i <= HeadKeep THEN i ELSE i + Gap(s) - 1

\* All but the notice were there before, in the same order.
LEMMA TruncateWas ==
  ASSUME NEW s \in Seq(Pieces), Len(s) > MaxBuf, NEW i \in Indices(Truncate(s))
  PROVE  /\ i \in Nat /\ HeadKeep \in Nat /\ Gap(s) \in Nat \ {0}
         /\ i = HeadKeep + 1 => Truncate(s)[i].kind = "notice"
         /\ i # HeadKeep + 1 => Was(s, i) \in Indices(s) /\ Truncate(s)[i] = s[Was(s, i)]
<1>1. Notice(Gap(s)).kind = "notice"
  BY DEF Notice, Piece
<1>2. i \in Nat /\ HeadKeep \in Nat /\ TailKeep \in Nat /\ Len(s) \in Nat
  BY ShellAssumption, TruncateAt DEF ShellAssumption, Indices
<1>3. Gap(s) \in Nat \ {0} /\ i \in 1..HeadKeep + 1 + TailKeep
  BY TruncateAt DEF Indices
<1>4. CASE i = HeadKeep + 1
  BY <1>1, <1>2, <1>3, <1>4, TruncateAt
<1>5. CASE i <= HeadKeep
  BY <1>2, <1>3, <1>5, TruncateAt DEF Was, Indices, Gap
<1>6. CASE i > HeadKeep + 1
  BY <1>2, <1>3, <1>6, TruncateAt DEF Was, Indices, Gap
<1> QED BY <1>2, <1>3, <1>4, <1>5, <1>6

\* Truncation adds a notice and nothing else.
LEMMA ElemsTruncate ==
  ASSUME NEW s \in Seq(Pieces)
  PROVE  \A p \in Elems(Truncate(s)) : p \in Elems(s) \/ p.kind = "notice"
<1>1. CASE Len(s) > MaxBuf
  BY <1>1, TruncateWas DEF Elems
<1> QED BY <1>1, TruncateShort

\* A notice is in nobody's way.
LEMMA NoticeFollows ==
  ASSUME NEW p, NEW q, p.kind = "notice" \/ q.kind = "notice"
  PROVE  Follows(p, q)
BY DEF Follows, CmdKinds, DoneKinds

\* Truncation keeps the order.
LEMMA OrderedTruncate ==
  ASSUME NEW s \in Seq(Pieces), Ordered(s)
  PROVE  Ordered(Truncate(s))
<1>1. ASSUME Len(s) > MaxBuf, NEW i \in Indices(Truncate(s)), NEW j \in Indices(Truncate(s)), i < j
      PROVE  Follows(Truncate(s)[i], Truncate(s)[j])
  <2>1. CASE i = HeadKeep + 1 \/ j = HeadKeep + 1
    BY <1>1, <2>1, TruncateWas, NoticeFollows
  <2>2. CASE i # HeadKeep + 1 /\ j # HeadKeep + 1
    <3>1. /\ Was(s, i) \in Indices(s) /\ Truncate(s)[i] = s[Was(s, i)]
          /\ Was(s, j) \in Indices(s) /\ Truncate(s)[j] = s[Was(s, j)]
      BY <1>1, <2>2, TruncateWas
    <3>2. Was(s, i) < Was(s, j)
      BY <1>1, TruncateWas DEF Was
    <3> QED BY <3>1, <3>2 DEF Ordered
  <2> QED BY <2>1, <2>2
<1> QED BY <1>1, TruncateShort DEF Ordered

\* Truncation makes no match.
LEMMA UnmatchedTruncate ==
  ASSUME NEW s \in Seq(Pieces), NEW c \in Cmds, Unmatched(s, c)
  PROVE  Unmatched(Truncate(s), c)
<1> SUFFICES ASSUME Len(s) > MaxBuf,
                    NEW i \in Indices(Truncate(s)), NEW j \in Indices(Truncate(s)),
                    Matches(Truncate(s), c, i, j)
             PROVE  FALSE
  BY TruncateShort DEF Unmatched
<1>1. j + 1 \in Indices(Truncate(s))
  BY TruncateAt, ShellAssumption DEF Matches, Indices, ShellAssumption
<1>2. /\ Truncate(s)[i] = Start(c) /\ Truncate(s)[j] = Done(c) /\ Truncate(s)[j + 1] = DoneEnd(c)
      /\ i < j
  BY DEF Matches
<1>3. Start(c).kind # "notice" /\ Done(c).kind # "notice" /\ DoneEnd(c).kind # "notice"
  BY DEF Start, Done, DoneEnd, Piece
<1>4. i # HeadKeep + 1 /\ j # HeadKeep + 1 /\ j + 1 # HeadKeep + 1
  BY <1>1, <1>2, <1>3, TruncateWas
<1>5. /\ Was(s, i) \in Indices(s) /\ s[Was(s, i)] = Start(c)
      /\ Was(s, j) \in Indices(s) /\ s[Was(s, j)] = Done(c)
      /\ Was(s, j + 1) \in Indices(s) /\ s[Was(s, j + 1)] = DoneEnd(c)
      /\ i \in Nat /\ j \in Nat /\ HeadKeep \in Nat /\ Gap(s) \in Nat \ {0}
  BY <1>1, <1>2, <1>4, TruncateWas
<1>6. Was(s, i) < Was(s, j) /\ Was(s, j + 1) = Was(s, j) + 1
  BY <1>2, <1>4, <1>5 DEF Was
<1>7. Was(s, j) < Len(s)
  BY <1>5, <1>6 DEF Indices
<1> QED BY <1>5, <1>6, <1>7 DEF Unmatched, Matches

\* A notice that says what was cut before c's output goes on says so afterwards.
LEMMA CutTruncate ==
  ASSUME NEW s \in Seq(Pieces), NEW c \in Cmds, Cut(s, c)
  PROVE  Cut(Truncate(s), c)
<1>1. CASE Len(s) > MaxBuf
  <2>1. PICK k \in Indices(s) : s[k].kind = "notice" /\ \A i \in Indices(s) : i > k => s[i] # Start(c)
    BY DEF Cut
  <2>2. /\ Gap(s) \in Nat \ {0} /\ Len(Truncate(s)) = HeadKeep + 1 + TailKeep
        /\ HeadKeep \in Nat /\ TailKeep \in Nat /\ Len(s) \in Nat /\ k \in Nat
        /\ Notice(Gap(s)).kind = "notice" /\ Start(c).kind # "notice"
    <3>1. Gap(s) \in Nat \ {0} /\ Len(Truncate(s)) = HeadKeep + 1 + TailKeep
      BY <1>1, TruncateAt
    <3>2. HeadKeep \in Nat /\ TailKeep \in Nat /\ Len(s) \in Nat /\ k \in Nat
      BY <2>1, ShellAssumption DEF ShellAssumption, Indices
    <3> QED BY <3>1, <3>2 DEF Notice, Start, Piece
  <2>3. ASSUME NEW m \in Indices(Truncate(s)), Truncate(s)[m].kind = "notice",
               \A i \in Indices(Truncate(s)) : i > m /\ i # HeadKeep + 1 => Was(s, i) > k
        PROVE  Cut(Truncate(s), c)
    <3>1. ASSUME NEW i \in Indices(Truncate(s)), i > m PROVE Truncate(s)[i] # Start(c)
      <4>1. CASE i = HeadKeep + 1
        BY <1>1, <2>2, <4>1, TruncateWas
      <4>2. CASE i # HeadKeep + 1
        BY <1>1, <2>1, <2>3, <3>1, <4>2, TruncateWas
      <4> QED BY <4>1, <4>2
    <3> QED BY <2>3, <3>1 DEF Cut
  <2>4. CASE k <= HeadKeep
    <3>1. k \in Indices(Truncate(s)) /\ Truncate(s)[k] = s[k]
      BY <1>1, <2>2, <2>4, TruncateAt DEF Indices
    <3>2. \A i \in Indices(Truncate(s)) : i > k /\ i # HeadKeep + 1 => Was(s, i) > k
      BY <2>2, <2>4 DEF Was, Indices
    <3> QED BY <2>1, <2>3, <3>1, <3>2
  <2>5. CASE HeadKeep < k /\ k <= HeadKeep + Gap(s)
    <3>1. HeadKeep + 1 \in Indices(Truncate(s)) /\ Truncate(s)[HeadKeep + 1].kind = "notice"
      BY <1>1, <2>2, TruncateAt DEF Indices
    <3>2. \A i \in Indices(Truncate(s)) : i > HeadKeep + 1 /\ i # HeadKeep + 1 => Was(s, i) > k
      BY <2>2, <2>5 DEF Was, Indices
    <3> QED BY <2>3, <3>1, <3>2
  <2>6. CASE k > HeadKeep + Gap(s)
    <3> DEFINE m == k - Gap(s) + 1
    <3>1. m \in HeadKeep + 2..HeadKeep + 1 + TailKeep /\ m + Gap(s) - 1 = k
      BY <2>1, <2>2, <2>6 DEF Indices, Gap
    <3>2. m \in Indices(Truncate(s)) /\ Truncate(s)[m] = s[k]
      BY <1>1, <2>2, <3>1, TruncateAt, SMTT(30) DEF Indices
    <3>3. \A i \in Indices(Truncate(s)) : i > m /\ i # HeadKeep + 1 => Was(s, i) > k
      BY <2>2, <2>6, <3>1 DEF Was, Indices
    <3> HIDE DEF m
    <3> QED BY <2>1, <2>3, <3>2, <3>3
  <2> QED BY <2>2, <2>4, <2>5, <2>6
<1> QED BY <1>1, TruncateShort

\* A piece of output that is cut leaves a notice behind which its command does not start.
LEMMA OutTruncate ==
  ASSUME NEW s \in Seq(Pieces), NEW c \in Cmds, NEW n \in Nat, Ordered(s), Out(c, n) \in Elems(s)
  PROVE  Out(c, n) \in Elems(Truncate(s)) \/ Cut(Truncate(s), c)
<1>1. CASE Len(s) > MaxBuf
  <2>1. PICK m \in Indices(s) : s[m] = Out(c, n)
    BY DEF Elems
  <2>2. /\ Gap(s) \in Nat \ {0} /\ Len(Truncate(s)) = HeadKeep + 1 + TailKeep
        /\ HeadKeep \in Nat /\ TailKeep \in Nat /\ Len(s) \in Nat /\ m \in Nat
        /\ Start(c).kind = "start" /\ Out(c, n).kind = "out" /\ Notice(Gap(s)).kind = "notice"
    <3>1. Gap(s) \in Nat \ {0} /\ Len(Truncate(s)) = HeadKeep + 1 + TailKeep
      BY <1>1, TruncateAt
    <3>2. HeadKeep \in Nat /\ TailKeep \in Nat /\ Len(s) \in Nat /\ m \in Nat
      BY <2>1, ShellAssumption DEF ShellAssumption, Indices
    <3> QED BY <3>1, <3>2 DEF Notice, Start, Out, Piece
  <2>3. \A i \in Indices(s) : i > m => s[i] # Start(c)
    BY <2>1, <2>2 DEF Ordered, Follows, CmdKinds, Indices
  <2>4. CASE m <= HeadKeep
    <3>1. m \in Indices(Truncate(s)) /\ Truncate(s)[m] = s[m]
      BY <1>1, <2>2, <2>4, TruncateAt DEF Indices
    <3> QED BY <2>1, <3>1 DEF Elems
  <2>5. CASE m > HeadKeep + Gap(s)
    <3> DEFINE i == m - Gap(s) + 1
    <3>1. i \in HeadKeep + 2..HeadKeep + 1 + TailKeep /\ i + Gap(s) - 1 = m
      BY <2>1, <2>2, <2>5 DEF Indices, Gap
    <3>2. i \in Indices(Truncate(s)) /\ Truncate(s)[i] = s[m]
      BY <1>1, <2>2, <3>1, TruncateAt, SMTT(30) DEF Indices
    <3> QED BY <2>1, <3>2 DEF Elems
  <2>6. CASE HeadKeep < m /\ m <= HeadKeep + Gap(s)
    <3>1. HeadKeep + 1 \in Indices(Truncate(s)) /\ Truncate(s)[HeadKeep + 1].kind = "notice"
      BY <1>1, <2>2, TruncateAt DEF Indices
    <3>2. \A i \in Indices(Truncate(s)) : i > HeadKeep + 1 => Was(s, i) > m /\ i # HeadKeep + 1
      BY <2>2, <2>6 DEF Was, Indices
    <3>3. \A i \in Indices(Truncate(s)) : i > HeadKeep + 1 => Truncate(s)[i] # Start(c)
      BY <1>1, <2>3, <3>2, TruncateWas
    <3> QED BY <3>1, <3>3 DEF Cut
  <2> QED BY <2>2, <2>4, <2>5, <2>6
<1> QED BY <1>1, TruncateShort

-----------------------------------------------------------------------------
(* The invariant *)

Flying(c) == pc[c] \notin {"new", "back"}

\* Everything printed that nobody has thrown away.
Printed == Elems(buf) \cup Elems(chunk) \cup Elems(wire)
Ahead   == Elems(chunk) \cup Elems(wire)

Unread == Lacks(Ahead, {"notice"}) /\ (reader # "append" => chunk = <<>>)

\* A command that has not started has printed nothing.
Fresh == \A c \in Cmds : pc[c] \in {"new", "write"} \/ c \in Elems(stdin) => emitted[c] = 0

\* An open shell without a command has nothing of an earlier one under way.
Quiet   == ~closed /\ (\A c \in Cmds : pc[c] # "expire") /\ (pending # None => pc[pending] = "write")
Settled == Quiet => Bare(Ahead) /\ running = None /\ stdin = <<>>

\* The pieces in buf, chunk and wire stand in the order in which they were printed.
InLine(b, u, w) ==
  /\ Ordered(b) /\ Ordered(u) /\ Ordered(w)
  /\ Precedes(Elems(b), Elems(u)) /\ Precedes(Elems(b), Elems(w)) /\ Precedes(Elems(u), Elems(w))

\* The shell is the command's alone: while it runs it has not printed its done
\* line, and before that nothing.
FlowOf(c) ==
  /\ Owned(Printed, c, emitted[c])
  /\ running \in {None, c} /\ Elems(stdin) \subseteq {c}
  /\ running = c => Lacks(Printed, DoneKinds)
  /\ pc[c] = "write" \/ c \in Elems(stdin) => Lacks(Printed, CmdKinds)
  /\ InLine(buf, chunk, wire)
Flow == \A c \in Cmds : Flying(c) => FlowOf(c)

\* All that the pending command has printed is there, or a notice stands for it.
Complete ==
  \A c \in Cmds : pending = c =>
    /\ Unmatched(buf, c)
    /\ \A n \in 1..emitted[c] : Out(c, n) \in Printed \/ (Cut(buf, c) /\ Start(c) \notin Ahead)

\* The output is c's, in order; it is whole, or it says so.
Faithful(out, c) ==
  /\ \A i \in Indices(out) : out[i].kind \in {"out", "done", "doneEnd"} => out[i].cmd = c
  /\ \A i, j \in Indices(out) :
       i < j /\ out[i].kind = "out" /\ out[j].kind = "out" => out[i].n < out[j].n
Whole(out, c) == ~Noticed(out) => Own(c, out) = 1..emitted[c]

Kept ==
  \A c \in Cmds :
    /\ pc[c] = "expire" => Faithful(partial[c], c)
    /\ result[c] # None /\ result[c].kind = "ok" =>
         Faithful(result[c].out, c) /\ Whole(result[c].out, c)

Replied ==
  \A c \in Cmds : answer[c] # None =>
    /\ answer[c].kind = "ok" => answer[c] = result[c]
    /\ answer[c].kind # "ok" => Faithful(answer[c].out, c)

FlowInv == Unread /\ Fresh /\ Settled /\ Flow /\ Complete
KeptInv == Kept /\ Replied

\* No output is faithful, and so is a part of the output of one command.
LEMMA NothingFaithful == \A c : Faithful(NoOutput, c)
BY DEF Faithful, NoOutput, Indices

\* An ordered sequence with only the command's own pieces is faithful output.
LEMMA OrderedFaithful ==
  ASSUME NEW s \in Seq(Pieces), NEW c, NEW m, Ordered(s), Owned(Elems(s), c, m)
  PROVE  Faithful(s, c)
<1>1. \A i \in Indices(s) : s[i] \in Elems(s)
  BY DEF Elems
<1>2. \A i \in Indices(s) : s[i].kind \in {"out", "done", "doneEnd"} => s[i].cmd = c
  BY <1>1 DEF Owned, CmdKinds
<1>3. \A i, j \in Indices(s) :
        i < j /\ s[i].kind = "out" /\ s[j].kind = "out" => s[i].n < s[j].n
  BY DEF Ordered, Follows
<1> QED BY <1>2, <1>3 DEF Faithful

\* One command flies at most.
LEMMA OneFlying ==
  ASSUME ShellInv, NEW c \in Cmds, Flying(c), NEW d \in Cmds, Flying(d)
  PROVE  c = d
BY DEF ShellInv, Serial, Flying

\* The pending command flies.
LEMMA PendingFlies ==
  ASSUME ShellInv, pending # None
  PROVE  pending \in Cmds /\ Flying(pending) /\ ~closed /\ result[pending] = None
BY DEF ShellInv, TypeOK, NoOrphan, Closed, Flying

-----------------------------------------------------------------------------
(* Steps of Run, Close and the reader that move no output *)

\* A step that moves no output and lets no call begin or write keeps the flow.
LEMMA StillFlow ==
  ASSUME ShellInv, FlowInv, UNCHANGED <<buf, chunk, wire, stdin, running, emitted>>,
         reader' = "append" <=> reader = "append",
         \A c \in Cmds : pc'[c] \in {"new", "write"} => pc'[c] = pc[c],
         \A c \in Cmds : Flying(c)' => Flying(c),
         pending' \in {pending, None}, Quiet' => Quiet
  PROVE  FlowInv'
<1>1. Unread'
  BY DEF FlowInv, Unread, Ahead
<1>2. Fresh'
  BY DEF FlowInv, Fresh
<1>3. Settled'
  BY DEF FlowInv, Settled, Ahead
<1>4. Flow'
  BY DEF FlowInv, Flow, FlowOf, Printed
<1>5. Complete'
  BY ShellAssumption DEF FlowInv, Complete, Printed, Ahead, ShellAssumption
<1> QED BY <1>1, <1>2, <1>3, <1>4, <1>5 DEF FlowInv

\* Failing a call, or moving one on, keeps what was found for the others.
LEMMA StillKept ==
  ASSUME ShellInv, KeptInv, UNCHANGED <<answer, partial, emitted>>,
         \A c \in Cmds : result'[c] = result[c] \/ (c = pending /\ result'[c] = Failed),
         \A c \in Cmds : pc'[c] = "expire" => pc[c] = "expire"
  PROVE  KeptInv'
<1>1. Failed.kind = "error"
  BY DEF Failed, Result
<1>2. \A c \in Cmds : result[c] # None => result'[c] = result[c]
  BY PendingFlies, ShellAssumption DEF ShellAssumption
<1>3. Kept'
  BY <1>1, <1>2 DEF KeptInv, Kept, Whole
<1>4. Replied'
  <2> SUFFICES ASSUME NEW c \in Cmds, answer[c] # None, answer[c].kind = "ok"
               PROVE  answer[c] = result'[c]
    BY DEF KeptInv, Replied
  <2> QED BY <1>2 DEF KeptInv, Replied
<1> QED BY <1>3, <1>4 DEF KeptInv

\* A call returns with a faithful answer, or with its result.
LEMMA ReturnKept ==
  ASSUME ShellInv, KeptInv, NEW c \in Cmds, NEW a, Return(c, a),
         a.kind = "ok" => a = result[c], a.kind # "ok" => Faithful(a.out, c),
         UNCHANGED <<partial, emitted>>,
         \A d \in Cmds : result'[d] = result[d] \/ (d = pending /\ result'[d] = Failed),
         a.kind = "ok" => result' = result
  PROVE  KeptInv'
<1>1. Failed.kind = "error"
  BY DEF Failed, Result
<1>2. \A d \in Cmds : result[d] # None => result'[d] = result[d]
  BY PendingFlies, ShellAssumption DEF ShellAssumption
<1>3. /\ pc' = [pc EXCEPT ![c] = "back"] /\ pc \in [Cmds -> PCs]
      /\ answer' = [answer EXCEPT ![c] = a] /\ answer \in [Cmds -> Answers \cup {None}]
  BY DEF Return, ShellInv, TypeOK
<1>4. \A d \in Cmds : pc'[d] = "expire" => pc[d] = "expire"
  BY <1>3
<1>5. Kept'
  BY <1>1, <1>2, <1>4 DEF KeptInv, Kept, Whole
<1>6. ASSUME NEW d \in Cmds, d # c, answer[d] # None
      PROVE  answer'[d] = answer[d] /\ (answer[d].kind = "ok" => answer[d] = result'[d])
  BY <1>2, <1>3, <1>6 DEF KeptInv, Replied
<1>7. answer'[c] = a
  BY <1>3
<1>8. Replied'
  BY <1>3, <1>6, <1>7 DEF KeptInv, Replied
<1> QED BY <1>5, <1>8 DEF KeptInv

\* Dispatch on an open shell starts with nothing under way.
LEMMA DispatchFlow ==
  ASSUME ShellInv, ShellInv', FlowInv, KeptInv, Serialised, NEW c \in Cmds, Dispatch(c)
  PROVE  FlowInv' /\ KeptInv'
<1> USE DEF shellVars, readerVars, callVars, remoteVars
<1>1. /\ pc[c] = "new" /\ \A d \in Cmds : pc[d] \in {"new", "back"}
      /\ UNCHANGED <<closed, chunk, reader, wire, stdin, running, emitted, partial, result>>
      /\ c # None
  BY ShellAssumption DEF Dispatch, ShellAssumption
<1>2. pending = None
  BY <1>1 DEF ShellInv, TypeOK, NoOrphan
<1>3. pc \in [Cmds -> PCs]
  BY DEF ShellInv, TypeOK
<1>4. ASSUME NEW k, k # "ok", Return(c, Result(k, NoOutput)), UNCHANGED <<pending, buf>>
      PROVE  FlowInv' /\ KeptInv'
  <2>1. pc' = [pc EXCEPT ![c] = "back"]
    BY <1>4 DEF Return
  <2>2. \A d \in Cmds : /\ pc'[d] \in {"new", "write"} => pc'[d] = pc[d]
                        /\ Flying(d)' => Flying(d)
                        /\ pc'[d] # "expire" /\ pc[d] # "expire"
    BY <1>1, <1>3, <2>1 DEF Flying
  <2>3. Quiet' => Quiet
    BY <1>1, <1>2, <2>2 DEF Quiet
  <2>4. FlowInv'
    BY <1>1, <1>4, <2>2, <2>3, StillFlow
  <2>5. Result(k, NoOutput).kind # "ok" /\ Faithful(Result(k, NoOutput).out, c)
    BY <1>4, NothingFaithful DEF Result
  <2>6. KeptInv'
    BY <1>1, <1>4, <2>5, ReturnKept
  <2> QED BY <2>4, <2>6
<1>5. ASSUME ~closed, buf' = <<>>, pending' = c, pc' = [pc EXCEPT ![c] = "write"], UNCHANGED answer
      PROVE  FlowInv' /\ KeptInv'
  <2>1. /\ pc'[c] = "write"
        /\ \A d \in Cmds : d # c => pc'[d] = pc[d] /\ ~Flying(d)'
    BY <1>1, <1>3, <1>5 DEF Flying
  <2>2. Bare(Ahead) /\ running = None /\ stdin = <<>>
    BY <1>1, <1>2, <1>5 DEF FlowInv, Settled, Quiet
  <2>3. emitted[c] = 0
    BY <1>1 DEF FlowInv, Fresh
  <2>4. /\ Ahead' = Ahead /\ Printed' = Ahead
        /\ Elems(buf') = {} /\ Elems(stdin') = {}
    BY <1>1, <1>5, <2>2, ElemsEmpty DEF Ahead, Printed
  <2>5. Unread'
    BY <1>1, <2>4 DEF FlowInv, Unread
  <2>6. Fresh'
    BY <1>1, <2>1, <2>3, <2>4 DEF FlowInv, Fresh
  <2>7. Settled'
    BY <1>1, <2>2, <2>4 DEF Settled
  <2>8. InLine(buf', chunk', wire')
    <3>1. Bare(Elems(chunk)) /\ Bare(Elems(wire))
      BY <2>2 DEF Bare, Ahead
    <3>2. \A s : Bare(Elems(s)) => Ordered(s)
      BY DEF Bare, Ordered, Elems, Follows, CmdKinds, DoneKinds
    <3>3. Ordered(<<>>)
      BY DEF Ordered, Indices
    <3>4. Precedes(Elems(chunk), Elems(wire))
      BY <3>1 DEF Bare, Precedes, Follows, CmdKinds, DoneKinds
    <3>5. \A T : Precedes({}, T)
      BY DEF Precedes
    <3> QED BY <1>1, <1>5, <2>4, <3>1, <3>2, <3>3, <3>4, <3>5 DEF InLine
  <2>9. FlowOf(c)'
    <3>1. Owned(Printed', c, emitted'[c]) /\ Lacks(Printed', CmdKinds) /\ Lacks(Printed', DoneKinds)
      BY <2>2, <2>4 DEF Owned, Lacks, Bare, CmdKinds, DoneKinds
    <3> QED BY <1>1, <2>2, <2>4, <2>8, <3>1 DEF FlowOf
  <2>10. Flow'
    BY <2>1, <2>9 DEF Flow
  <2>11. Complete'
    <3>1. Unmatched(<<>>, c)
      BY DEF Unmatched, Indices
    <3>2. 1..emitted'[c] = {}
      BY <1>1, <2>3
    <3> QED BY <1>5, <3>1, <3>2 DEF Complete
  <2>12. \A d \in Cmds : pc'[d] = "expire" => pc[d] = "expire"
    BY <1>1, <2>1
  <2>13. KeptInv'
    BY <1>1, <1>5, <2>12, StillKept
  <2> QED BY <2>5, <2>6, <2>7, <2>10, <2>11, <2>13 DEF FlowInv
<1>6. \/ \E k \in {"dead", "busy"} : Return(c, Result(k, NoOutput)) /\ UNCHANGED <<pending, buf>>
      \/ /\ ~closed /\ buf' = <<>> /\ pending' = c
         /\ pc' = [pc EXCEPT ![c] = "write"] /\ UNCHANGED answer
  BY DEF Dispatch, Refused
<1> QED BY <1>4, <1>5, <1>6

\* So does the write, which gives the command to the remote shell.
LEMMA WriteFlow ==
  ASSUME ShellInv, ShellInv', FlowInv, KeptInv, NEW c \in Cmds, Write(c)
  PROVE  FlowInv' /\ KeptInv'
<1> USE DEF shellVars, readerVars, callVars, remoteVars
<1>1. /\ pc[c] = "write" /\ pending = c /\ c # None
      /\ UNCHANGED <<closed, buf, chunk, reader, wire, running, emitted, partial, result>>
  BY ShellAssumption DEF Write, ShellInv, Writing, ShellAssumption
<1>2. pc \in [Cmds -> PCs] /\ stdin \in Seq(Cmds)
  BY DEF ShellInv, TypeOK
<1>3. Flying(c) /\ FlowOf(c) /\ \A d \in Cmds : d # c => pc[d] \in {"new", "back"}
  BY <1>1, OneFlying DEF Flying, FlowInv, Flow
<1>4. CASE stdin' = Append(stdin, c) /\ pc' = [pc EXCEPT ![c] = "wait"] /\ UNCHANGED <<pending, answer>>
  <2>1. pc'[c] = "wait" /\ \A d \in Cmds : d # c => pc'[d] = pc[d] /\ ~Flying(d)'
    BY <1>2, <1>3, <1>4 DEF Flying
  <2>2. Elems(stdin') = Elems(stdin) \cup {c}
    <3>1. /\ Len(stdin') = Len(stdin) + 1 /\ Len(stdin) \in Nat /\ stdin'[Len(stdin) + 1] = c
          /\ \A i \in 1..Len(stdin) : stdin'[i] = stdin[i]
      BY <1>2, <1>4
    <3>2. Indices(stdin') = Indices(stdin) \cup {Len(stdin) + 1}
      BY <3>1 DEF Indices
    <3>3. \A i \in Indices(stdin) : stdin'[i] = stdin[i]
      BY <3>1 DEF Indices
    <3> QED BY <3>1, <3>2, <3>3 DEF Elems
  <2>3. Printed' = Printed /\ Ahead' = Ahead
    BY <1>1 DEF Printed, Ahead
  <2>4. emitted[c] = 0
    BY <1>1 DEF FlowInv, Fresh
  <2>5. Unread'
    BY <1>1, <2>3 DEF FlowInv, Unread
  <2>6. Fresh'
    BY <1>1, <2>1, <2>2, <2>4 DEF FlowInv, Fresh
  <2>7. Settled'
    BY <1>1, <1>4, <2>1 DEF Settled, Quiet
  <2>8. FlowOf(c)'
    <3>1. /\ Owned(Printed, c, emitted[c]) /\ Elems(stdin) \subseteq {c}
          /\ Lacks(Printed, CmdKinds) /\ InLine(buf, chunk, wire) /\ running \in {None, c}
      BY <1>1, <1>3 DEF FlowOf
    <3>2. Lacks(Printed, DoneKinds)
      BY <3>1 DEF Lacks, DoneKinds, CmdKinds
    <3> QED BY <1>1, <2>2, <2>3, <3>1, <3>2 DEF FlowOf
  <2>9. Flow'
    BY <2>1, <2>8 DEF Flow
  <2>10. Complete'
    BY <1>1, <1>4, <2>3 DEF FlowInv, Complete
  <2>11. \A d \in Cmds : pc'[d] = "expire" => pc[d] = "expire"
    BY <1>3, <2>1
  <2>12. KeptInv'
    BY <1>1, <1>4, <2>11, StillKept
  <2> QED BY <2>5, <2>6, <2>7, <2>9, <2>10, <2>12 DEF FlowInv
<1>5. CASE UNCHANGED stdin /\ pending' = None /\ Return(c, Result("write", NoOutput))
  <2>1. pc' = [pc EXCEPT ![c] = "back"]
    BY <1>5 DEF Return
  <2>2. \A d \in Cmds : /\ pc'[d] \in {"new", "write"} => pc'[d] = pc[d]
                        /\ Flying(d)' => Flying(d)
                        /\ pc[d] # "expire"
    BY <1>1, <1>2, <1>3, <2>1 DEF Flying
  <2>3. Quiet' => Quiet
    BY <1>1, <2>2 DEF Quiet
  <2>4. FlowInv'
    BY <1>1, <1>5, <2>2, <2>3, StillFlow
  <2>5. Result("write", NoOutput).kind # "ok" /\ Faithful(Result("write", NoOutput).out, c)
    BY NothingFaithful DEF Result
  <2>6. KeptInv'
    BY <1>1, <1>5, <2>5, ReturnKept
  <2> QED BY <2>4, <2>6
<1> QED BY <1>4, <1>5 DEF Write

\* What the caller captured on a timeout is output of its command.
LEMMA PartialFaithful ==
  ASSUME NEW b \in Seq(Pieces), NEW c \in Cmds, NEW m, Ordered(b), Owned(Elems(b), c, m)
  PROVE  Faithful(Partial(b, c), c)
<1> DEFINE rest == AfterStart(b, c)
<1>1. rest \in Seq(Pieces) /\ Ordered(rest) /\ Elems(rest) \subseteq Elems(b)
  <2>1. CASE Has(b, Start(c))
    <3> DEFINE i == CHOOSE i \in Indices(b) : b[i] = Start(c)
    <3>1. i \in Indices(b)
      BY <2>1 DEF Has
    <3>2. i \in Nat /\ rest = Drop(b, i)
      BY <2>1, <3>1 DEF AfterStart, Indices
    <3> HIDE DEF i, rest
    <3> QED BY <3>2, DropTyped, OrderedDrop, ElemsDrop
  <2>2. CASE ~Has(b, Start(c))
    BY <2>2 DEF AfterStart
  <2> QED BY <2>1, <2>2
<1>2. ASSUME NEW s \in Seq(Pieces), Ordered(s), Elems(s) \subseteq Elems(b)
      PROVE  Faithful(BeforeDone(s, c), c)
  <2>1. CASE Has(s, Done(c))
    <3> DEFINE j == CHOOSE i \in Indices(s) : s[i] = Done(c)
               part == SubSeq(s, 1, j - 1)
    <3>1. j \in Indices(s)
      BY <2>1 DEF Has
    <3>2. j - 1 \in Nat /\ j - 1 <= Len(s)
      BY <3>1 DEF Indices
    <3>5. BeforeDone(s, c) = part
      BY <2>1 DEF BeforeDone
    <3> HIDE DEF j
    <3>3. part \in Seq(Pieces) /\ Ordered(part) /\ Elems(part) \subseteq Elems(s)
      BY <1>2, <3>2, OrderedPart, PartTyped, ElemsPart
    <3> HIDE DEF part
    <3>4. Owned(Elems(part), c, m)
      BY <1>2, <3>3 DEF Owned
    <3> QED BY <3>3, <3>4, <3>5, OrderedFaithful
  <2>2. CASE ~Has(s, Done(c))
    <3>1. Owned(Elems(s), c, m)
      BY <1>2 DEF Owned
    <3> QED BY <1>2, <2>2, <3>1, OrderedFaithful DEF BeforeDone
  <2> QED BY <2>1, <2>2
<1> HIDE DEF rest
<1>3. Faithful(BeforeDone(rest, c), c)
  BY <1>1, <1>2
<1> QED BY <1>3 DEF Partial, rest

\* The steps of a call that waits.
LEMMA WaitFlow ==
  ASSUME ShellInv, ShellInv', FlowInv, KeptInv, NEW c \in Cmds,
         Expire(c) \/ TakeResult(c) \/ TakeTimeout(c) \/ TimedOut(c)
  PROVE  FlowInv' /\ KeptInv'
<1> USE DEF shellVars, readerVars, callVars, remoteVars
<1>1. /\ pc \in [Cmds -> PCs] /\ partial \in [Cmds -> Seq(Pieces)] /\ buf \in Seq(Pieces)
      /\ result \in [Cmds -> Results \cup {None}]
  BY DEF ShellInv, TypeOK
<1>2. CASE Expire(c)
  <2>1. UNCHANGED <<buf, chunk, wire, stdin, running, emitted, reader, pc, pending, closed, answer, partial, result>>
    BY <1>2 DEF Expire
  <2>2. (Quiet' => Quiet) /\ \A d \in Cmds : Flying(d)' => Flying(d)
    BY <2>1 DEF Quiet, Flying
  <2>3. FlowInv'
    BY <2>1, <2>2, StillFlow
  <2>4. KeptInv'
    BY <2>1, <2>2, StillKept
  <2> QED BY <2>3, <2>4
<1>3. CASE TakeResult(c)
  <2>1. /\ UNCHANGED <<buf, chunk, wire, stdin, running, emitted, reader, pending, closed, partial, result>>
        /\ pc[c] = "wait" /\ result[c] # None
        /\ Return(c, IF result[c].kind = "ok" THEN result[c] ELSE Result("closed", NoOutput))
    BY <1>3 DEF TakeResult
  <2>2. pc' = [pc EXCEPT ![c] = "back"]
    BY <2>1 DEF Return
  <2>3. \A d \in Cmds : /\ pc'[d] \in {"new", "write"} => pc'[d] = pc[d]
                        /\ Flying(d)' => Flying(d)
                        /\ pc'[d] = "expire" <=> pc[d] = "expire"
                        /\ pc'[d] = "write" <=> pc[d] = "write"
    BY <1>1, <2>1, <2>2 DEF Flying
  <2>4. pending # None => pending \in Cmds
    BY PendingFlies
  <2>5. Quiet' => Quiet
    BY <2>1, <2>3, <2>4 DEF Quiet
  <2>6. FlowInv'
    BY <2>1, <2>3, <2>5, StillFlow
  <2>7. CASE result[c].kind = "ok"
    <3>1. Return(c, result[c])
      BY <2>1, <2>7
    <3> QED BY <2>1, <2>6, <2>7, <3>1, ReturnKept
  <2>8. CASE result[c].kind # "ok"
    <3>1. /\ Return(c, Result("closed", NoOutput)) /\ Result("closed", NoOutput).kind # "ok"
          /\ Faithful(Result("closed", NoOutput).out, c)
      BY <2>1, <2>8, NothingFaithful DEF Result
    <3> QED BY <2>1, <2>6, <3>1, ReturnKept
  <2> QED BY <2>7, <2>8
<1>4. CASE TakeTimeout(c)
  <2>1. /\ UNCHANGED <<buf, chunk, wire, stdin, running, emitted, reader, closed, answer, result>>
        /\ pc[c] = "wait" /\ pending' = None
        /\ pc' = [pc EXCEPT ![c] = "expire"] /\ partial' = [partial EXCEPT ![c] = Partial(buf, c)]
    BY <1>4 DEF TakeTimeout
  <2>2. pc'[c] = "expire" /\ partial'[c] = Partial(buf, c)
    BY <1>1, <2>1
  <2>3. \A d \in Cmds : /\ pc'[d] \in {"new", "write"} => pc'[d] = pc[d]
                        /\ Flying(d)' => Flying(d)
                        /\ d # c => pc'[d] = pc[d] /\ partial'[d] = partial[d]
    BY <1>1, <2>1 DEF Flying
  <2>4. ~Quiet'
    BY <2>2 DEF Quiet
  <2>5. FlowInv'
    BY <2>1, <2>3, <2>4, StillFlow
  <2>6. Flying(c) /\ FlowOf(c)
    BY <2>1 DEF FlowInv, Flow, Flying
  <2>7. Ordered(buf) /\ Owned(Elems(buf), c, emitted[c])
    BY <2>6 DEF FlowOf, InLine, Owned, Printed
  <2>8. Faithful(partial'[c], c)
    BY <1>1, <2>2, <2>7, PartialFaithful
  <2>9. Kept'
    BY <2>1, <2>2, <2>3, <2>8 DEF KeptInv, Kept, Whole
  <2>10. Replied'
    BY <2>1 DEF KeptInv, Replied
  <2> QED BY <2>5, <2>9, <2>10 DEF KeptInv
<1>5. CASE TimedOut(c)
  <2>1. /\ UNCHANGED <<buf, chunk, wire, stdin, running, emitted, reader, partial>>
        /\ pc[c] = "expire" /\ Close /\ Return(c, Result("timeout", partial[c]))
    BY <1>5 DEF TimedOut, Reset
  <2>2. /\ closed' /\ pending' = None
        /\ \A d \in Cmds : result'[d] = result[d] \/ (d = pending /\ result'[d] = Failed)
    BY <2>1, CloseCalls DEF ShellInv, Calls
  <2>3. pc' = [pc EXCEPT ![c] = "back"]
    BY <2>1 DEF Return
  <2>4. \A d \in Cmds : /\ pc'[d] \in {"new", "write"} => pc'[d] = pc[d]
                        /\ Flying(d)' => Flying(d)
    BY <1>1, <2>1, <2>3 DEF Flying
  <2>5. ~Quiet'
    BY <2>2 DEF Quiet
  <2>6. FlowInv'
    BY <2>1, <2>2, <2>4, <2>5, StillFlow
  <2>7. Result("timeout", partial[c]).kind # "ok" /\ Faithful(Result("timeout", partial[c]).out, c)
    BY <2>1 DEF Result, KeptInv, Kept
  <2>8. KeptInv'
    BY <2>1, <2>2, <2>7, ReturnKept
  <2> QED BY <2>6, <2>8
<1> QED BY <1>2, <1>3, <1>4, <1>5

\* Closing, and the steps of the reader that move no output.
LEMMA CloseFlow ==
  ASSUME ShellInv, ShellInv', FlowInv, KeptInv, CloseShell \/ Load \/ ReadError \/ MarkDead \/ RemoteExit \/ UNCHANGED vars
  PROVE  FlowInv' /\ KeptInv'
<1> USE DEF shellVars, readerVars, callVars, remoteVars
<1>1. CASE CloseShell \/ MarkDead
  <2>1. /\ UNCHANGED <<buf, chunk, wire, stdin, running, emitted, pc, answer, partial>>
        /\ reader' = "append" <=> reader = "append"
    BY <1>1 DEF CloseShell, MarkDead
  <2>2. /\ closed' /\ pending' = None
        /\ \A d \in Cmds : result'[d] = result[d] \/ (d = pending /\ result'[d] = Failed)
    <3>1. TypeOK /\ Calls
      BY DEF ShellInv, Calls
    <3>2. CASE CloseShell
      BY <3>1, <3>2, CloseCalls DEF CloseShell
    <3>3. CASE MarkDead
      BY <3>1, <3>3, ErrorCalls DEF MarkDead
    <3> QED BY <1>1, <3>2, <3>3
  <2>3. ~Quiet' /\ \A d \in Cmds : Flying(d)' => Flying(d)
    BY <2>1, <2>2 DEF Quiet, Flying
  <2>4. FlowInv'
    BY <2>1, <2>2, <2>3, StillFlow
  <2>5. KeptInv'
    BY <2>1, <2>2, <2>3, StillKept
  <2> QED BY <2>4, <2>5
<1>2. CASE Load \/ ReadError \/ RemoteExit \/ UNCHANGED vars
  <2>1. /\ UNCHANGED <<buf, chunk, wire, stdin, running, emitted, pc, pending, closed, answer, partial, result>>
        /\ reader' = "append" <=> reader = "append"
    BY <1>2 DEF Load, ReadError, RemoteExit, vars
  <2>2. (Quiet' => Quiet) /\ \A d \in Cmds : Flying(d)' => Flying(d)
    BY <2>1 DEF Quiet, Flying
  <2>3. FlowInv'
    BY <2>1, <2>2, StillFlow
  <2>4. KeptInv'
    BY <2>1, <2>2, StillKept
  <2> QED BY <2>3, <2>4
<1> QED BY <1>1, <1>2

-----------------------------------------------------------------------------
(* The steps that move output *)

\* A read moves a part of the wire.
LEMMA ReadFlow ==
  ASSUME ShellInv, ShellInv', FlowInv, KeptInv, Read
  PROVE  FlowInv' /\ KeptInv'
<1> USE DEF shellVars, readerVars, callVars, remoteVars
<1>1. UNCHANGED <<buf, stdin, running, emitted, pc, pending, closed, answer, partial, result>>
  BY DEF Read
<1>2. PICK k \in Nat : k <= Len(wire) /\ chunk' = SubSeq(wire, 1, k) /\ wire' = Drop(wire, k)
  BY DEF Read
<1>3. wire \in Seq(Pieces) /\ reader' = "append" /\ chunk = <<>>
  BY DEF Read, ShellInv, TypeOK, FlowInv, Unread
<1>4. Elems(chunk') \cup Elems(wire') = Elems(wire) /\ Elems(chunk) = {}
  BY <1>2, <1>3, ElemsSplit, ElemsEmpty
<1>5. Ahead' = Ahead /\ Printed' = Printed
  BY <1>1, <1>4 DEF Ahead, Printed
<1>6. Unread'
  BY <1>3, <1>5 DEF FlowInv, Unread
<1>7. Fresh'
  BY <1>1 DEF FlowInv, Fresh
<1>8. Settled'
  BY <1>1, <1>5 DEF FlowInv, Settled, Quiet
<1>9. ASSUME NEW c \in Cmds, Flying(c) PROVE FlowOf(c)'
  <2>1. FlowOf(c)
    BY <1>9 DEF FlowInv, Flow
  <2>2. Ordered(wire) /\ Ordered(buf) /\ Precedes(Elems(buf), Elems(wire))
    BY <2>1 DEF FlowOf, InLine
  <2>3. Ordered(chunk') /\ Ordered(wire')
    BY <1>2, <1>3, <2>2, OrderedDrop, OrderedPart
  <2>4. Precedes(Elems(chunk'), Elems(wire'))
    <3> SUFFICES ASSUME NEW i \in Indices(chunk'), NEW j \in Indices(wire')
                 PROVE  Follows(chunk'[i], wire'[j])
      BY DEF Precedes, Elems
    <3>1. /\ i \in Indices(wire) /\ chunk'[i] = wire[i] /\ i <= k
          /\ j + k \in Indices(wire) /\ wire'[j] = wire[j + k] /\ j \in Nat \ {0}
      BY <1>2, <1>3 DEF Indices, Drop
    <3> QED BY <2>2, <3>1 DEF Ordered, Indices
  <2>5. Precedes(Elems(buf), Elems(chunk')) /\ Precedes(Elems(buf), Elems(wire'))
    BY <1>4, <2>2 DEF Precedes
  <2>6. InLine(buf', chunk', wire')
    BY <1>1, <2>2, <2>3, <2>4, <2>5 DEF InLine
  <2> QED BY <1>1, <1>5, <2>1, <2>6 DEF FlowOf
<1>10. Flow'
  BY <1>1, <1>9 DEF Flow, Flying
<1>11. Complete'
  BY <1>1, <1>5 DEF FlowInv, Complete
<1>12. KeptInv'
  BY <1>1, StillKept
<1> QED BY <1>6, <1>7, <1>8, <1>10, <1>11, <1>12 DEF FlowInv

\* A buffer made of what was in buf and chunk, in order, and of notices.
LEMMA AppendLine ==
  ASSUME ShellInv, FlowInv, NEW c \in Cmds, Flying(c),
         buf' \in Seq(Pieces), Ordered(buf'), chunk' = <<>>,
         \A p \in Elems(buf') : p \in Elems(buf) \cup Elems(chunk) \/ p.kind = "notice",
         UNCHANGED <<wire, stdin, running, emitted, pc>>
  PROVE  FlowOf(c)'
<1>1. FlowOf(c)
  BY DEF FlowInv, Flow
<1>2. Elems(chunk') = {}
  BY ElemsEmpty
<1>3. \A p \in Printed' : p \in Printed \/ p.kind = "notice"
  BY <1>2 DEF Printed
<1>4. Owned(Printed', c, emitted[c])
  BY <1>1, <1>3 DEF FlowOf, Owned, CmdKinds
<1>5. running = c => Lacks(Printed', DoneKinds)
  BY <1>1, <1>3 DEF FlowOf, Lacks, DoneKinds
<1>6. pc[c] = "write" \/ c \in Elems(stdin) => Lacks(Printed', CmdKinds)
  BY <1>1, <1>3 DEF FlowOf, Lacks, CmdKinds
<1>7. InLine(buf', chunk', wire')
  <2>1. /\ Ordered(wire) /\ Precedes(Elems(buf), Elems(wire)) /\ Precedes(Elems(chunk), Elems(wire))
    BY <1>1 DEF FlowOf, InLine
  <2>2. Precedes(Elems(buf'), Elems(wire))
    BY <2>1, NoticeFollows DEF Precedes
  <2>3. Ordered(<<>>)
    BY DEF Ordered, Indices
  <2>4. \A T : Precedes({}, T) /\ Precedes(T, {})
    BY DEF Precedes
  <2> QED BY <1>2, <2>1, <2>2, <2>3, <2>4 DEF InLine
<1> QED BY <1>1, <1>4, <1>5, <1>6, <1>7 DEF FlowOf

\* The parts that say nothing of the pending command.
LEMMA AppendRest ==
  ASSUME ShellInv, FlowInv, chunk' = <<>>, Quiet' => Quiet,
         UNCHANGED <<wire, stdin, running, emitted, pc>>
  PROVE  Unread' /\ Fresh' /\ Settled'
<1>1. Elems(chunk') = {} /\ Ahead' = Elems(wire)
  BY ElemsEmpty DEF Ahead
<1>2. Unread'
  BY <1>1 DEF FlowInv, Unread, Lacks, Ahead
<1>3. Fresh'
  BY DEF FlowInv, Fresh
<1>4. Settled'
  BY <1>1 DEF FlowInv, Settled, Bare, Ahead
<1> QED BY <1>2, <1>3, <1>4

\* A buffer that holds no done line for the pending command, cut or not, still
\* accounts for all its output.
LEMMA AppendComplete ==
  ASSUME ShellInv, FlowInv, NEW c \in Cmds, pending = c, NEW b \in Seq(Pieces), b = buf \o chunk,
         Unmatched(b, c), buf' = Truncate(b), chunk' = <<>>,
         UNCHANGED <<wire, emitted, pending>>
  PROVE  Complete'
<1>1. Flying(c) /\ FlowOf(c) /\ c # None
  BY PendingFlies, ShellAssumption DEF FlowInv, Flow, ShellAssumption
<1>2. /\ buf \in Seq(Pieces) /\ chunk \in Seq(Pieces) /\ wire \in Seq(Pieces) /\ emitted \in [Cmds -> 0..MaxOut]
  BY DEF ShellInv, TypeOK
<1>3. Elems(b) = Elems(buf) \cup Elems(chunk)
  BY <1>2, ElemsConcat
<1>4. Ordered(b) /\ Precedes(Elems(b), Elems(wire))
  BY <1>1, <1>2, <1>3, OrderedConcat DEF FlowOf, InLine, Precedes
<1>5. Ahead' = Elems(wire) /\ Printed' = Elems(buf') \cup Elems(wire)
  BY ElemsEmpty DEF Ahead, Printed
<1>6. Unmatched(buf', c)
  BY UnmatchedTruncate
<1>7. ASSUME NEW n \in 1..emitted[c]
      PROVE  Out(c, n) \in Printed' \/ (Cut(buf', c) /\ Start(c) \notin Ahead')
  <2>1. n \in Nat
    OBVIOUS
  <2>2. CASE Out(c, n) \in Elems(wire)
    BY <1>5, <2>2
  <2>3. CASE Out(c, n) \in Elems(b)
    <3>1. Out(c, n) \in Elems(buf') \/ Cut(buf', c)
      BY <1>4, <2>1, <2>3, OutTruncate
    <3>2. ~Follows(Out(c, n), Start(c))
      BY DEF Follows, Out, Start, Piece, CmdKinds
    <3>3. Start(c) \notin Elems(wire)
      BY <1>4, <2>3, <3>2 DEF Precedes
    <3> QED BY <1>5, <3>1, <3>3
  <2>4. CASE Cut(buf, c) /\ Start(c) \notin Ahead
    <3>1. PICK k \in Indices(buf) : buf[k].kind = "notice" /\ \A i \in Indices(buf) : i > k => buf[i] # Start(c)
      BY <2>4 DEF Cut
    <3>2. k \in Indices(b) /\ b[k] = buf[k]
      BY <1>2, <3>1 DEF Indices
    <3>3. ASSUME NEW i \in Indices(b), i > k PROVE b[i] # Start(c)
      <4>1. CASE i \in Indices(buf) /\ b[i] = buf[i]
        BY <3>1, <3>3, <4>1
      <4>2. CASE i - Len(buf) \in Indices(chunk) /\ b[i] = chunk[i - Len(buf)]
        BY <2>4, <4>2 DEF Ahead, Elems
      <4> QED BY <1>2, <4>1, <4>2, ConcatAt
    <3>4. Cut(b, c)
      BY <3>1, <3>2, <3>3 DEF Cut
    <3> QED BY <1>5, <2>4, <3>4, CutTruncate DEF Ahead
  <2> QED BY <1>3, <1>5, <2>2, <2>3, <2>4 DEF FlowInv, Complete, Printed
<1> QED BY <1>1, <1>6, <1>7 DEF Complete

\* Where the pieces of a part stand in it.
LEMMA PartAt ==
  ASSUME NEW s \in Seq(Pieces), NEW i \in Nat, NEW j \in Nat, j - 1 \in Nat, j - 1 <= Len(s),
         NEW k \in Nat, i < k, k < j
  PROVE  /\ k - i \in Indices(SubSeq(s, i + 1, j - 1))
         /\ SubSeq(s, i + 1, j - 1)[k - i] = s[k]
<1>1. /\ i + 1 \in Nat \ {0} /\ Len(SubSeq(s, i + 1, j - 1)) = j - 1 - i
      /\ \A l \in 1..j - 1 - i : SubSeq(s, i + 1, j - 1)[l] = s[l + i]
  OBVIOUS
<1> QED BY <1>1 DEF Indices

\* What the scan finds between start line and done line is the whole output, or a
\* notice is part of it; and nothing of the command is left to come.
LEMMA MatchWhole ==
  ASSUME ShellInv, FlowInv, NEW c \in Cmds, pending = c, NEW b \in Seq(Pieces), b = buf \o chunk,
         NEW i \in Indices(b), NEW j \in Indices(b), Matches(b, c, i, j),
         NEW out, out = SubSeq(b, i + 1, j - 1)
  PROVE  /\ Faithful(out, c) /\ Whole(out, c)
         /\ Bare(Elems(wire)) /\ running = None /\ stdin = <<>>
<1>1. Flying(c) /\ FlowOf(c) /\ c # None
  BY PendingFlies, ShellAssumption DEF FlowInv, Flow, ShellAssumption
<1>2. /\ buf \in Seq(Pieces) /\ chunk \in Seq(Pieces) /\ wire \in Seq(Pieces) /\ emitted \in [Cmds -> 0..MaxOut]
      /\ stdin \in Seq(Cmds) /\ i \in Nat /\ j \in Nat /\ Len(b) \in Nat
  BY DEF ShellInv, TypeOK, Indices
<1>3. Elems(b) = Elems(buf) \cup Elems(chunk)
  BY <1>2, ElemsConcat
<1>4. Ordered(b) /\ Precedes(Elems(b), Elems(wire))
  BY <1>1, <1>2, <1>3, OrderedConcat DEF FlowOf, InLine, Precedes
<1>5. /\ b[i] = Start(c) /\ b[j] = Done(c) /\ b[j + 1] = DoneEnd(c)
      /\ i < j /\ j + 1 \in Indices(b) /\ i + 1 \in Nat \ {0} /\ j - 1 \in Nat /\ j - 1 <= Len(b)
  BY <1>2 DEF Matches, Indices
<1>6. /\ Start(c).kind = "start" /\ Done(c).kind = "done" /\ DoneEnd(c).kind = "doneEnd"
      /\ DoneEnd(c).cmd = c
  BY DEF Start, Done, DoneEnd, Piece
<1>7. DoneEnd(c) \in Elems(b)
  BY <1>5 DEF Elems
<1>8. Bare(Elems(wire))
  <2> SUFFICES ASSUME NEW q \in Elems(wire) PROVE q.kind = "noise"
    BY DEF Bare
  <2>1. Follows(DoneEnd(c), q) /\ q \in Pieces /\ q.kind # "notice"
    BY <1>2, <1>4, <1>7, ElemsTyped DEF Precedes, FlowInv, Unread, Lacks, Ahead
  <2> QED BY <1>6, <2>1 DEF Follows, CmdKinds, DoneKinds, Pieces
<1>9. c \in finished
  <2>1. SeenIn(buf, finished) /\ SeenIn(chunk, finished)
    BY DEF ShellInv, DoneSeen
  <2>2. \A p \in Elems(b) : p.kind = "doneEnd" => p.cmd \in finished
    BY <1>3, <2>1 DEF Elems, SeenIn
  <2> QED BY <1>6, <1>7, <2>2
<1>10. running = None
  BY <1>1, <1>9 DEF FlowOf, ShellInv, Submitted
<1>11. stdin = <<>>
  <2>1. ASSUME NEW k \in Indices(stdin) PROVE FALSE
    <3>1. stdin[k] \in Elems(stdin) /\ Elems(stdin) \subseteq {c}
      BY <1>1, <2>1 DEF FlowOf, Elems
    <3> QED BY <1>9, <2>1, <3>1 DEF ShellInv, Submitted
  <2>2. Len(stdin) = 0
    BY <1>2, <2>1 DEF Indices
  <2> QED BY <1>2, <2>2
<1>12. Owned(Elems(b), c, emitted[c])
  BY <1>1, <1>3 DEF FlowOf, Owned, Printed
<1>13. out \in Seq(Pieces) /\ Ordered(out) /\ Elems(out) \subseteq Elems(b)
  BY <1>4, <1>5, OrderedPart, PartTyped
<1>14. Faithful(out, c) /\ Owned(Elems(out), c, emitted[c])
  <2>1. Owned(Elems(out), c, emitted[c])
    BY <1>12, <1>13 DEF Owned
  <2> QED BY <1>13, <2>1, OrderedFaithful
<1>15. ASSUME NEW k \in Nat, i < k, k < j
       PROVE  k - i \in Indices(out) /\ out[k - i] = b[k]
  <2>1. j \in Nat /\ j - 1 \in Nat /\ j - 1 <= Len(b) /\ i \in Nat
    BY <1>2, <1>5
  <2>2. /\ k - i \in Indices(SubSeq(b, i + 1, j - 1))
        /\ SubSeq(b, i + 1, j - 1)[k - i] = b[k]
    BY <1>15, <2>1, PartAt, ZenonT(30)
  <2> QED BY <2>2, Zenon
<1>16. ASSUME NEW n \in 1..emitted[c], Out(c, n) \in Elems(b)
       PROVE  n \in Own(c, out)
  <2>1. PICK m \in Indices(b) : b[m] = Out(c, n)
    BY <1>16 DEF Elems
  <2>2. m \in Nat /\ Out(c, n).kind = "out" /\ Out(c, n).n = n
    BY <2>1 DEF Indices, Out, Piece
  <2>3. i < m
    <3>1. ~Follows(Out(c, n), Start(c))
      BY <1>6, <2>2 DEF Follows, CmdKinds
    <3>2. m # i
      BY <1>5, <1>6, <2>1, <2>2
    <3>3. ~(m < i)
      BY <1>4, <1>5, <2>1, <3>1 DEF Ordered
    <3> QED BY <1>2, <2>2, <3>2, <3>3
  <2>4. m < j
    <3>1. ~Follows(Done(c), Out(c, n))
      BY <1>6, <2>2 DEF Follows, DoneKinds
    <3>2. m # j
      BY <1>5, <1>6, <2>1, <2>2
    <3>3. ~(j < m)
      BY <1>4, <1>5, <2>1, <3>1 DEF Ordered
    <3> QED BY <1>2, <2>2, <3>2, <3>3
  <2>5. m - i \in Indices(out) /\ out[m - i] = Out(c, n)
    BY <1>15, <2>1, <2>2, <2>3, <2>4
  <2> QED BY <2>2, <2>5 DEF Own
<1>17. ASSUME Cut(buf, c), Start(c) \notin Ahead
       PROVE  Noticed(out)
  <2>1. PICK k \in Indices(buf) : buf[k].kind = "notice" /\ \A l \in Indices(buf) : l > k => buf[l] # Start(c)
    BY <1>17 DEF Cut
  <2>2. /\ k \in Nat /\ k \in Indices(b) /\ b[k] = buf[k] /\ k <= Len(buf) /\ Len(buf) \in Nat
        /\ Len(b) = Len(buf) + Len(chunk) /\ Len(chunk) \in Nat
        /\ \A l \in Indices(buf) : l \in Indices(b) /\ b[l] = buf[l]
    BY <1>2, <2>1 DEF Indices
  <2>3. i \in Indices(buf)
    <3>1. CASE i \notin Indices(buf)
      <4>2. i - Len(buf) \in Indices(chunk) /\ b[i] = chunk[i - Len(buf)]
        BY <1>2, <3>1, ConcatAt
      <4>1. Start(c) \in Elems(chunk)
        BY <1>5, <4>2 DEF Elems
      <4> QED BY <1>17, <4>1 DEF Ahead
    <3> QED BY <3>1
  <2>4. i < k
    <3>1. buf[i] = Start(c)
      BY <1>5, <2>2, <2>3
    <3>2. ~(i > k)
      BY <2>1, <2>3, <3>1
    <3>3. i # k
      BY <1>6, <2>1, <3>1
    <3> QED BY <1>2, <2>2, <3>2, <3>3
  <2>5. k < j
    <3>1. CASE k > j
      <4>1. j \in Indices(buf) /\ j + 1 \in Indices(buf) /\ j < Len(buf)
        BY <1>2, <1>5, <2>2, <3>1 DEF Indices
      <4>2. Matches(buf, c, i, j)
        BY <1>5, <2>2, <2>3, <4>1 DEF Matches
      <4>3. Unmatched(buf, c)
        BY DEF FlowInv, Complete
      <4> QED BY <2>3, <4>1, <4>2, <4>3 DEF Unmatched
    <3>2. k # j
      BY <1>5, <1>6, <2>1, <2>2
    <3> QED BY <1>2, <2>2, <3>1, <3>2
  <2>6. k - i \in Indices(out) /\ out[k - i].kind = "notice"
    BY <1>15, <2>1, <2>2, <2>4, <2>5
  <2> QED BY <2>6 DEF Noticed
<1>18. Whole(out, c)
  <2> SUFFICES ASSUME ~Noticed(out) PROVE Own(c, out) = 1..emitted[c]
    BY DEF Whole
  <2>1. Own(c, out) \subseteq 1..emitted[c]
    BY <1>14 DEF Own, Owned, Elems
  <2>2. ASSUME NEW n \in 1..emitted[c] PROVE n \in Own(c, out)
    <3>1. Out(c, n).kind = "out"
      BY DEF Out, Piece
    <3>2. Out(c, n) \notin Elems(wire)
      BY <1>8, <3>1 DEF Bare
    <3>3. Out(c, n) \in Printed
      BY <1>17 DEF FlowInv, Complete
    <3>4. Out(c, n) \in Elems(b)
      BY <1>3, <3>2, <3>3 DEF Printed
    <3> QED BY <1>16, <3>4
  <2> QED BY <2>1, <2>2
<1> QED BY <1>8, <1>10, <1>11, <1>14, <1>18

\* readerLoop appends its chunk and scans.
LEMMA AppendFlow ==
  ASSUME ShellInv, ShellInv', FlowInv, KeptInv, AppendChunk
  PROVE  FlowInv' /\ KeptInv'
<1> DEFINE b == buf \o chunk
<1>1. /\ Scan(b) /\ chunk' = <<>>
      /\ UNCHANGED <<closed, wire, stdin, running, emitted, pc, answer, partial>>
  BY DEF AppendChunk, callVars, remoteVars
<1>2. /\ buf \in Seq(Pieces) /\ chunk \in Seq(Pieces) /\ b \in Seq(Pieces) /\ buf' \in Seq(Pieces)
  BY DEF ShellInv, TypeOK
<1> HIDE DEF b
<1>3. Elems(b) = Elems(buf) \cup Elems(chunk)
  BY <1>2, ElemsConcat DEF b
<1>4. ASSUME NEW c \in Cmds, Flying(c) PROVE Ordered(b)
  <2>1. FlowOf(c)
    BY <1>4 DEF FlowInv, Flow
  <2> QED BY <1>2, <2>1, OrderedConcat DEF FlowOf, InLine, b
<1>5. ASSUME \A p \in Elems(buf') : p \in Elems(b) \/ p.kind = "notice", Ordered(b) => Ordered(buf')
      PROVE  Flow'
  <2> SUFFICES ASSUME NEW c \in Cmds, Flying(c) PROVE FlowOf(c)'
    BY <1>1 DEF Flow, Flying
  <2> QED BY <1>1, <1>2, <1>3, <1>4, <1>5, AppendLine
<1>6. CASE /\ pending = None /\ UNCHANGED <<result, pending>>
           /\ buf' = IF Len(b) > IdleMax THEN Drop(b, Len(b) - IdleMax \div 2) ELSE b
  <2>1. Len(b) > IdleMax => Len(b) - IdleMax \div 2 \in Nat
    BY <1>2, ShellAssumption DEF ShellAssumption
  <2>2. Elems(buf') \subseteq Elems(b) /\ (Ordered(b) => Ordered(buf'))
    BY <1>2, <1>6, <2>1, ElemsDrop, OrderedDrop
  <2>3. Flow'
    BY <1>5, <2>2
  <2>4. Quiet' => Quiet
    BY <1>1, <1>6 DEF Quiet
  <2>5. Complete'
    BY <1>6, ShellAssumption DEF Complete, ShellAssumption
  <2>6. KeptInv'
    BY <1>1, <1>6, StillKept
  <2> QED BY <1>1, <2>3, <2>4, <2>5, <2>6, AppendRest DEF FlowInv
<1>7. CASE /\ pending # None /\ Unmatched(b, pending) /\ buf' = Truncate(b)
           /\ UNCHANGED <<result, pending>>
  <2>1. Flow'
    BY <1>2, <1>5, <1>7, ElemsTruncate, OrderedTruncate
  <2>2. Quiet' => Quiet
    BY <1>1, <1>7 DEF Quiet
  <2>3. Complete'
    BY <1>1, <1>2, <1>7, PendingFlies, AppendComplete DEF b
  <2>4. KeptInv'
    BY <1>1, <1>7, StillKept
  <2> QED BY <1>1, <2>1, <2>2, <2>3, <2>4, AppendRest DEF FlowInv
<1>8. ASSUME NEW i \in Indices(b), NEW j \in Indices(b), pending # None, Matches(b, pending, i, j),
             Resolve(pending, Result("ok", SubSeq(b, i + 1, j - 1))), buf' = Drop(b, j + 2 - i)
      PROVE  FlowInv' /\ KeptInv'
  <2> DEFINE c == pending
             out == SubSeq(b, i + 1, j - 1)
             r == Result("ok", out)
  <2>1. c \in Cmds /\ Flying(c) /\ result[c] = None
    BY <1>8, PendingFlies
  <2>2. /\ Faithful(out, c) /\ Whole(out, c)
        /\ Bare(Elems(wire)) /\ running = None /\ stdin = <<>>
    BY <1>2, <1>8, <2>1, MatchWhole DEF b
  <2>3. j + 2 - i \in Nat
    BY <1>8 DEF Matches, Indices
  <2>4. Elems(buf') \subseteq Elems(b) /\ (Ordered(b) => Ordered(buf'))
    BY <1>2, <1>8, <2>3, ElemsDrop, OrderedDrop
  <2>5. Flow'
    BY <1>5, <2>4
  <2>6. Ahead' = Elems(wire)
    BY <1>1, ElemsEmpty DEF Ahead
  <2>7. Unread' /\ Fresh' /\ Settled'
    <3>1. Unread'
      BY <1>1, <2>6 DEF FlowInv, Unread, Lacks, Ahead
    <3>2. Fresh'
      BY <1>1 DEF FlowInv, Fresh
    <3>3. Settled'
      BY <1>1, <2>2, <2>6 DEF Settled
    <3> QED BY <3>1, <3>2, <3>3
  <2>8. pending' = None /\ result' = [result EXCEPT ![c] = r]
    BY <1>8, <2>1 DEF Resolve
  <2>9. Complete'
    BY <2>8, ShellAssumption DEF Complete, ShellAssumption
  <2>10. r.kind = "ok" /\ r.out = out
    BY DEF Result
  <2>11. result'[c] = r /\ \A d \in Cmds : d # c => result'[d] = result[d]
    BY <2>1, <2>8 DEF ShellInv, TypeOK
  <2> HIDE DEF r, out, c
  <2>12. Kept'
    BY <1>1, <2>2, <2>10, <2>11 DEF KeptInv, Kept, Whole
  <2>13. Replied'
    <3> SUFFICES ASSUME NEW d \in Cmds, answer[d] # None, answer[d].kind = "ok"
                 PROVE  answer[d] = result'[d]
      BY <1>1 DEF KeptInv, Replied
    <3>1. answer[d] = result[d]
      BY DEF KeptInv, Replied
    <3> QED BY <2>1, <2>11, <3>1
  <2> QED BY <2>5, <2>7, <2>9, <2>12, <2>13 DEF FlowInv, KeptInv
<1> QED BY <1>1, <1>6, <1>7, <1>8 DEF Scan

\* The remote side prints s: it goes to the end of the wire.
LEMMA EmitLine ==
  ASSUME ShellInv, NEW s \in Seq(Pieces), wire' = wire \o s, UNCHANGED <<buf, chunk>>
  PROVE  /\ Printed' = Printed \cup Elems(s) /\ Ahead' = Ahead \cup Elems(s)
         /\ InLine(buf, chunk, wire) /\ Ordered(s) /\ Precedes(Printed, Elems(s)) =>
              InLine(buf', chunk', wire')
<1>1. wire \in Seq(Pieces)
  BY DEF ShellInv, TypeOK
<1>2. Elems(wire') = Elems(wire) \cup Elems(s)
  BY <1>1, ElemsConcat
<1>3. Printed' = Printed \cup Elems(s) /\ Ahead' = Ahead \cup Elems(s)
  BY <1>2 DEF Printed, Ahead
<1>4. ASSUME InLine(buf, chunk, wire), Ordered(s), Precedes(Printed, Elems(s))
      PROVE  InLine(buf', chunk', wire')
  <2>1. /\ Precedes(Elems(buf), Elems(s)) /\ Precedes(Elems(chunk), Elems(s))
        /\ Precedes(Elems(wire), Elems(s))
    BY <1>4 DEF Precedes, Printed
  <2>2. Ordered(wire')
    BY <1>1, <1>4, <2>1, OrderedConcat DEF InLine
  <2>3. Precedes(Elems(buf), Elems(wire')) /\ Precedes(Elems(chunk), Elems(wire'))
    BY <1>2, <1>4, <2>1 DEF InLine, Precedes
  <2> QED BY <1>4, <2>2, <2>3 DEF InLine
<1> QED BY <1>3, <1>4

\* One piece is in order.
LEMMA OrderedOne == \A p : Ordered(<<p>>)
BY DEF Ordered, Indices

\* What the remote side prints without a command disturbs nobody.
LEMMA NoiseFlow ==
  ASSUME ShellInv, ShellInv', FlowInv, KeptInv, RemoteNoise
  PROVE  FlowInv' /\ KeptInv'
<1> USE DEF shellVars, readerVars, callVars
<1>1. /\ wire' = wire \o <<Noise>>
      /\ UNCHANGED <<buf, chunk, reader, pc, pending, closed, stdin, running, emitted, answer, partial, result>>
  BY DEF RemoteNoise, Emit
<1>2. Noise \in Pieces /\ Noise.kind = "noise" /\ <<Noise>> \in Seq(Pieces)
  BY DEF Noise, Piece, Pieces
<1>3. Elems(<<Noise>>) = {Noise}
  BY <1>2, ElemsOne
<1>4. Printed' = Printed \cup {Noise} /\ Ahead' = Ahead \cup {Noise}
  BY <1>1, <1>2, <1>3, EmitLine
<1>5. Unread'
  BY <1>1, <1>2, <1>4 DEF FlowInv, Unread, Lacks
<1>6. Fresh'
  BY <1>1 DEF FlowInv, Fresh
<1>7. Settled'
  BY <1>1, <1>2, <1>4 DEF FlowInv, Settled, Quiet, Bare
<1>8. ASSUME NEW c \in Cmds, Flying(c) PROVE FlowOf(c)'
  <2>1. FlowOf(c)
    BY <1>8 DEF FlowInv, Flow
  <2>2. Precedes(Printed, {Noise})
    BY <1>2 DEF Precedes, Follows
  <2>3. InLine(buf', chunk', wire')
    BY <1>1, <1>2, <1>3, <2>1, <2>2, EmitLine, OrderedOne DEF FlowOf
  <2>4. /\ Owned(Printed', c, emitted[c])
        /\ \A K \in {CmdKinds, DoneKinds} : Lacks(Printed, K) => Lacks(Printed', K)
    BY <1>2, <1>4, <2>1 DEF FlowOf, Owned, Lacks, CmdKinds, DoneKinds
  <2> QED BY <1>1, <2>1, <2>3, <2>4 DEF FlowOf
<1>9. Flow'
  BY <1>1, <1>8 DEF Flow, Flying
<1>10. \A c \in Cmds : Start(c) # Noise
  BY <1>2 DEF Start, Piece
<1>11. Complete'
  BY <1>1, <1>4, <1>10 DEF FlowInv, Complete
<1>12. KeptInv'
  BY <1>1, StillKept
<1> QED BY <1>5, <1>6, <1>7, <1>9, <1>11, <1>12 DEF FlowInv

\* The remote shell prints a start line when it takes a command.
LEMMA StartFlow ==
  ASSUME ShellInv, ShellInv', FlowInv, KeptInv, RemoteStart
  PROVE  FlowInv' /\ KeptInv'
<1> USE DEF shellVars, readerVars, callVars
<1> DEFINE r == Head(stdin)
<1>1. /\ running = None /\ stdin # <<>> /\ running' = r /\ stdin' = Drop(stdin, 1)
      /\ wire' = wire \o <<Start(r)>>
      /\ UNCHANGED <<buf, chunk, reader, pc, pending, closed, emitted, answer, partial, result>>
  BY DEF RemoteStart, Emit
<1>2. stdin \in Seq(Cmds) /\ Len(stdin) \in Nat \ {0} /\ r = stdin[1] /\ r \in Cmds /\ r # None
  BY <1>1, ShellAssumption, SMTT(30) DEF ShellInv, TypeOK, ShellAssumption
<1>3. r \in Elems(stdin)
  BY <1>2 DEF Elems, Indices
<1>4. Elems(stdin') \subseteq Elems(stdin)
  <2> SUFFICES ASSUME NEW i \in Indices(stdin') PROVE i + 1 \in Indices(stdin) /\ stdin'[i] = stdin[i + 1]
    BY DEF Elems
  <2> QED BY <1>1, <1>2 DEF Drop, Indices
<1> HIDE DEF r
<1>5. r \notin Elems(stdin') /\ pc[r] \notin {"new", "write"}
  BY <1>1, <1>2 DEF ShellInv, Submitted, Elems
<1>6. emitted[r] = 0
  BY <1>2, <1>3 DEF FlowInv, Fresh
<1>7. /\ Start(r) \in Pieces /\ Start(r).kind = "start" /\ Start(r).cmd = r /\ <<Start(r)>> \in Seq(Pieces)
  BY <1>2 DEF Start, Piece, Pieces
<1>8. Elems(<<Start(r)>>) = {Start(r)}
  BY <1>7, ElemsOne
<1>9. Printed' = Printed \cup {Start(r)} /\ Ahead' = Ahead \cup {Start(r)}
  BY <1>1, <1>7, <1>8, EmitLine
<1>10. Unread'
  BY <1>1, <1>7, <1>9 DEF FlowInv, Unread, Lacks
<1>11. Fresh'
  BY <1>1, <1>4 DEF FlowInv, Fresh
<1>12. Settled'
  BY <1>1 DEF FlowInv, Settled, Quiet
<1>13. ASSUME NEW c \in Cmds, Flying(c) PROVE FlowOf(c)' /\ r = c
  <2>1. FlowOf(c) /\ r = c
    BY <1>3, <1>13 DEF FlowInv, Flow, FlowOf
  <2>2. Lacks(Printed, CmdKinds)
    BY <1>3, <2>1 DEF FlowOf
  <2>3. Precedes(Printed, {Start(r)})
    BY <1>7, <2>2 DEF Precedes, Follows, Lacks
  <2>4. InLine(buf', chunk', wire')
    BY <1>1, <1>7, <1>8, <2>1, <2>3, EmitLine, OrderedOne DEF FlowOf
  <2>5. Owned(Printed', c, emitted[c]) /\ Lacks(Printed', DoneKinds)
    BY <1>7, <1>9, <2>1, <2>2 DEF FlowOf, Owned, Lacks, CmdKinds, DoneKinds
  <2> QED BY <1>1, <1>4, <1>5, <2>1, <2>4, <2>5 DEF FlowOf
<1>14. Flow'
  BY <1>1, <1>13 DEF Flow, Flying
<1>15. Complete'
  <2> SUFFICES ASSUME NEW c \in Cmds, pending = c
               PROVE  Unmatched(buf, c) /\ 1..emitted[c] = {}
    BY <1>1 DEF Complete
  <2>1. r = c
    BY <1>13, PendingFlies, ShellAssumption DEF ShellAssumption
  <2> QED BY <1>6, <2>1 DEF FlowInv, Complete
<1>16. KeptInv'
  BY <1>1, StillKept
<1> QED BY <1>10, <1>11, <1>12, <1>14, <1>15, <1>16 DEF FlowInv

\* The running command prints its next piece.
LEMMA OutputFlow ==
  ASSUME ShellInv, ShellInv', FlowInv, KeptInv, RemoteOutput
  PROVE  FlowInv' /\ KeptInv'
<1> USE DEF shellVars, readerVars, callVars
<1> DEFINE r == running
           n == emitted[r] + 1
<1>1. /\ r # None /\ emitted' = [emitted EXCEPT ![r] = n]
      /\ wire' = wire \o <<Out(r, emitted'[r])>>
      /\ UNCHANGED <<buf, chunk, reader, pc, pending, closed, stdin, running, answer, partial, result>>
  BY DEF RemoteOutput, Emit, Out
<1>2. r \in Cmds /\ emitted \in [Cmds -> 0..MaxOut] /\ emitted[r] \in Nat
  BY <1>1, ShellAssumption DEF ShellInv, TypeOK, ShellAssumption
<1>3. emitted'[r] = n /\ n \in Nat \ {0} /\ \A c \in Cmds : c # r => emitted'[c] = emitted[c]
  BY <1>1, <1>2
<1>4. r \notin Elems(stdin) /\ pc[r] \notin {"new", "write"} /\ r \notin finished
  BY <1>1 DEF ShellInv, Submitted, Elems
<1> HIDE DEF n
<1>5. /\ Out(r, n) \in Pieces /\ Out(r, n).kind = "out" /\ Out(r, n).cmd = r /\ Out(r, n).n = n
      /\ <<Out(r, n)>> \in Seq(Pieces)
  BY <1>2, <1>3 DEF Out, Piece, Pieces
<1>6. Elems(<<Out(r, n)>>) = {Out(r, n)}
  BY <1>5, ElemsOne
<1>7. Printed' = Printed \cup {Out(r, n)} /\ Ahead' = Ahead \cup {Out(r, n)}
  BY <1>1, <1>3, <1>5, <1>6, EmitLine
<1>8. Unread'
  BY <1>1, <1>5, <1>7 DEF FlowInv, Unread, Lacks
<1>9. Fresh'
  BY <1>1, <1>3, <1>4 DEF FlowInv, Fresh
<1>10. Settled'
  BY <1>1 DEF FlowInv, Settled, Quiet
<1>11. ASSUME NEW c \in Cmds, Flying(c) PROVE FlowOf(c)' /\ r = c
  <2>1. FlowOf(c) /\ r = c
    BY <1>1, <1>11 DEF FlowInv, Flow, FlowOf
  <2>2. Lacks(Printed, DoneKinds) /\ Owned(Printed, c, emitted[c])
    BY <2>1 DEF FlowOf
  <2>3. ASSUME NEW p \in Printed PROVE Follows(p, Out(r, n))
    <3>1. p.kind = "out" => p.n < n
      BY <1>2, <2>1, <2>2 DEF Owned, n
    <3> QED BY <1>5, <2>2, <3>1 DEF Follows, Lacks
  <2>4. InLine(buf', chunk', wire')
    <3>1. Precedes(Printed, Elems(<<Out(r, n)>>))
      BY <1>6, <2>3 DEF Precedes
    <3>2. wire' = wire \o <<Out(r, n)>> /\ InLine(buf, chunk, wire)
      BY <1>1, <1>3, <2>1 DEF FlowOf
    <3> QED BY <1>1, <1>5, <3>1, <3>2, EmitLine, OrderedOne
  <2>5. Owned(Printed', c, emitted'[c])
    <3>1. 1..emitted[c] \subseteq 1..emitted'[c] /\ n \in 1..emitted'[c]
      BY <1>2, <1>3, <2>1 DEF n
    <3> QED BY <1>5, <1>7, <2>1, <2>2, <3>1 DEF Owned
  <2>6. Lacks(Printed', DoneKinds)
    BY <1>5, <1>7, <2>2 DEF Lacks, DoneKinds
  <2> QED BY <1>1, <1>4, <2>1, <2>4, <2>5, <2>6 DEF FlowOf
<1>12. Flow'
  BY <1>1, <1>11 DEF Flow, Flying
<1>13. Complete'
  <2> SUFFICES ASSUME NEW c \in Cmds, pending = c, NEW k \in 1..emitted'[c]
               PROVE  Out(c, k) \in Printed' \/ (Cut(buf, c) /\ Start(c) \notin Ahead')
    BY <1>1 DEF FlowInv, Complete
  <2>1. r = c
    BY <1>11, PendingFlies, ShellAssumption DEF ShellAssumption
  <2>2. k = n \/ k \in 1..emitted[c]
    BY <1>2, <1>3, <2>1 DEF n
  <2>3. Start(c) # Out(r, n)
    BY <1>5 DEF Start, Piece
  <2> QED BY <1>7, <2>1, <2>2, <2>3 DEF FlowInv, Complete
<1>14. Kept'
  <2> SUFFICES ASSUME NEW c \in Cmds, result[c] # None, result[c].kind = "ok"
               PROVE  Whole(result[c].out, c)'
    BY <1>1 DEF KeptInv, Kept
  <2>1. c # r
    BY <1>4 DEF ShellInv, DoneSeen
  <2> QED BY <1>1, <1>3, <2>1 DEF KeptInv, Kept, Whole
<1>15. Replied'
  BY <1>1 DEF KeptInv, Replied
<1> QED BY <1>8, <1>9, <1>10, <1>12, <1>13, <1>14, <1>15 DEF FlowInv, KeptInv

\* The running command ends with its done line.
LEMMA DoneFlow ==
  ASSUME ShellInv, ShellInv', FlowInv, KeptInv, RemoteDone
  PROVE  FlowInv' /\ KeptInv'
<1> USE DEF shellVars, readerVars, callVars
<1> DEFINE r == running
           s == <<Done(r), DoneEnd(r)>>
<1>1. /\ r # None /\ running' = None /\ wire' = wire \o s
      /\ UNCHANGED <<buf, chunk, reader, pc, pending, closed, stdin, emitted, answer, partial, result>>
  BY DEF RemoteDone, Emit
<1>2. r \in Cmds
  BY <1>1 DEF ShellInv, TypeOK
<1>3. r \notin Elems(stdin) /\ pc[r] \notin {"new", "write"}
  BY <1>1 DEF ShellInv, Submitted, Elems
<1>4. /\ Done(r) \in Pieces /\ Done(r).kind = "done" /\ Done(r).cmd = r
      /\ DoneEnd(r) \in Pieces /\ DoneEnd(r).kind = "doneEnd" /\ DoneEnd(r).cmd = r
  BY <1>2 DEF Done, DoneEnd, Piece, Pieces
<1>5. /\ s \in Seq(Pieces) /\ Elems(s) = {Done(r), DoneEnd(r)}
      /\ Ordered(s)
  <2>1. s \in Seq(Pieces) /\ Len(s) = 2 /\ s[1] = Done(r) /\ s[2] = DoneEnd(r) /\ Indices(s) = {1, 2}
    BY <1>4 DEF Indices
  <2>2. Elems(s) = {Done(r), DoneEnd(r)}
    BY <2>1 DEF Elems
  <2>3. Follows(Done(r), DoneEnd(r))
    BY <1>4 DEF Follows
  <2>4. Ordered(s)
    BY <2>1, <2>3 DEF Ordered
  <2> QED BY <2>1, <2>2, <2>4
<1> HIDE DEF s
<1>6. Printed' = Printed \cup {Done(r), DoneEnd(r)} /\ Ahead' = Ahead \cup {Done(r), DoneEnd(r)}
  BY <1>1, <1>5, EmitLine
<1>7. Unread'
  BY <1>1, <1>4, <1>6 DEF FlowInv, Unread, Lacks
<1>8. Fresh'
  BY <1>1 DEF FlowInv, Fresh
<1>9. Settled'
  BY <1>1 DEF FlowInv, Settled, Quiet
<1>10. ASSUME NEW c \in Cmds, Flying(c) PROVE FlowOf(c)'
  <2>1. FlowOf(c) /\ r = c
    BY <1>1, <1>10 DEF FlowInv, Flow, FlowOf
  <2>2. Lacks(Printed, DoneKinds) /\ Owned(Printed, c, emitted[c])
    BY <2>1 DEF FlowOf
  <2>3. Precedes(Printed, Elems(s))
    BY <1>4, <1>5, <2>2 DEF Precedes, Follows, Lacks, DoneKinds
  <2>4. InLine(buf', chunk', wire')
    BY <1>1, <1>5, <2>1, <2>3, EmitLine DEF FlowOf
  <2>5. Owned(Printed', c, emitted[c])
    BY <1>4, <1>6, <2>1, <2>2 DEF Owned
  <2>6. None # c
    BY ShellAssumption DEF ShellAssumption
  <2> QED BY <1>1, <1>3, <2>1, <2>4, <2>5, <2>6 DEF FlowOf
<1>11. Flow'
  BY <1>1, <1>10 DEF Flow, Flying
<1>12. \A c \in Cmds : Start(c) # Done(r) /\ Start(c) # DoneEnd(r)
  BY <1>4 DEF Start, Piece
<1>13. Complete'
  BY <1>1, <1>6, <1>12 DEF FlowInv, Complete
<1>14. KeptInv'
  BY <1>1, StillKept
<1> QED BY <1>7, <1>8, <1>9, <1>11, <1>13, <1>14 DEF FlowInv

\* Every step keeps the flow and what was found in it.
LEMMA StepFlow ==
  ASSUME ShellInv, ShellInv', FlowInv, KeptInv, Serialised, [Next]_vars
  PROVE  FlowInv' /\ KeptInv'
<1>1. ASSUME NEW c \in Cmds, Run(c) \/ Expire(c) PROVE FlowInv' /\ KeptInv'
  BY <1>1, DispatchFlow, WriteFlow, WaitFlow DEF Run
<1>2. CASE ReaderLoop
  BY <1>2, CloseFlow, ReadFlow, AppendFlow DEF ReaderLoop
<1>3. CASE Remote
  BY <1>3, StartFlow, OutputFlow, DoneFlow, NoiseFlow, CloseFlow DEF Remote
<1>4. CASE CloseShell \/ UNCHANGED vars
  BY <1>4, CloseFlow
<1> QED BY <1>1, <1>2, <1>3, <1>4 DEF Next

\* At first nothing was printed.
LEMMA InitFlow == ASSUME Init PROVE FlowInv /\ KeptInv
<1>1. Elems(buf) = {} /\ Elems(chunk) = {} /\ Elems(wire) = {} /\ Ahead = {} /\ Printed = {}
  BY ElemsEmpty DEF Init, Ahead, Printed
<1>2. Unread /\ Settled
  BY <1>1 DEF Init, Unread, Settled, Lacks, Bare
<1>3. Fresh
  BY DEF Init, Fresh
<1>4. Flow
  BY DEF Init, Flow, Flying
<1>5. Complete
  BY ShellAssumption DEF Init, Complete, ShellAssumption
<1>6. KeptInv
  BY DEF Init, KeptInv, Kept, Replied
<1> QED BY <1>2, <1>3, <1>4, <1>5, <1>6 DEF FlowInv

\* An answer is the result that was kept, or faithful as it is.
LEMMA KeptMeansFaithful ==
  ASSUME KeptInv
  PROVE  OutputFaithful
<1> SUFFICES ASSUME NEW c \in Cmds, answer[c] # None
             PROVE  /\ Faithful(answer[c].out, c)
                    /\ answer[c].kind = "ok" => Whole(answer[c].out, c)
  BY DEF OutputFaithful, Faithful, Whole
<1> QED BY DEF KeptInv, Kept, Replied

\* When calls are serialised, what Run returns is output of its own command, in
\* order, and after a success all of it unless a notice says otherwise: for any
\* commands, sizes of the buffer and splits of the output into reads.
THEOREM OutputIsFaithful == ASSUME Serialised PROVE Spec => []OutputFaithful
<1>1. ShellInv /\ ShellInv' /\ FlowInv /\ KeptInv /\ [Next]_vars => FlowInv' /\ KeptInv'
  BY StepFlow
<1>2. Init => FlowInv /\ KeptInv
  BY InitFlow
<1>3. KeptInv => OutputFaithful
  BY KeptMeansFaithful
<1> QED BY <1>1, <1>2, <1>3, ShellInvariant, PTL DEF Spec
=============================================================================
