------------------------ MODULE HistoryWriterProofs ------------------------
(***************************************************************************)
(* Type correctness of the history writer, that what it writes is whole,   *)
(* and that it writes nothing it must not, for any shells and queue size.  *)
(***************************************************************************)
EXTENDS HistoryWriter, TLAPS, FiniteSetTheorems, FunctionTheorems, SequenceTheorems

\* A writer between its two writes of an entry has the lock.
WriterHasLock == \A s \in Shell : worker[s] \in {"writing", "halfway"} => lock = s

\* The file ends with what was written of the entry so far.
HalfAtEnd ==
    \A s \in Shell :
        worker[s] = "halfway" =>
            batch[s] # <<>> /\ file # <<>> /\ file[Len(file)] = Piece(s, "first")

\* There is no trace of a shell that has not loaded the file.
NoTrace(s) ==
    /\ ~loadOk[s]
    /\ worker[s] = "none"
    /\ queue[s] = <<>>
    /\ lock # s
    /\ \A i \in 1..Len(file) : file[i].shell # s

UnloadedIdle == \A s \in Shell : main[s] \in {"new", "failed"} => NoTrace(s)

\* A shell that has not loaded the file has entered nothing; only a shell that stops stops
\* its writer, which then has drained the queue; and a batch is worked on to its end.
StopsDrained ==
    \A s \in Shell :
        /\ main[s] = "new" => entered[s] = 0 /\ lost[s] = {}
        /\ stop[s] => main[s] \in {"stopping", "leaving", "gone"}
        /\ worker[s] = "done" => stop[s] /\ queue[s] = <<>>
        /\ worker[s] \in {"none", "waiting", "done"} => batch[s] = <<>>

\* The batch and then the queue hold entries in the order they were entered.
Increasing(q) == \A i, j \in 1..Len(q) : i < j => q[i] < q[j]
InOrder ==
    \A s \in Shell :
        /\ Increasing(queue[s]) /\ Increasing(batch[s])
        /\ \A n \in Elements(queue[s]) : n <= entered[s]
        /\ \A m \in Elements(batch[s]) : m <= entered[s] /\ \A n \in Elements(queue[s]) : m < n

IInv == /\ TypeOK /\ WriterHasLock /\ HalfAtEnd /\ UnloadedIdle /\ WholeLines
        /\ StopsDrained /\ InOrder /\ Accounted

FilePiece == [shell : Shell, seq : Number, part : {"first", "rest"}]

-----------------------------------------------------------------------------
LEMMA TailType ==
    ASSUME NEW S, NEW q \in Seq(S), q # <<>>
    PROVE  /\ Head(q) \in S /\ Tail(q) \in Seq(S)
           /\ Len(q) \in Nat \ {0} /\ Len(Tail(q)) = Len(q) - 1
  OBVIOUS

LEMMA ElementsType ==
    ASSUME NEW S, NEW q \in Seq(S)
    PROVE  Elements(q) \subseteq S
  BY DEF Elements

LEMMA GiveUpType ==
    ASSUME TypeOK, NEW s \in Shell, NEW E \in SUBSET Number, GiveUp(s, E)
    PROVE  lost' \in [Shell -> SUBSET Number]
  BY DEF TypeOK, GiveUp

LEMMA EnqueueType ==
    ASSUME TypeOK, NEW s \in Shell, Enqueue(s) PROVE TypeOK'
  <1> DEFINE full == Len(queue[s]) >= QueueCap
             rest == IF full THEN Tail(queue[s]) ELSE queue[s]
             dropped == IF full THEN {Head(queue[s])} ELSE {}
  <1>1. /\ queue[s] \in Seq(Number) /\ Len(queue[s]) <= QueueCap
        /\ QueueCap \in Nat \ {0}
    BY CapAssumption DEF TypeOK
  <1>2. /\ entered' = [entered EXCEPT ![s] = @ + 1]
        /\ UNCHANGED <<main, loadOk, stop, worker, hurry, batch, lock, file>>
        /\ \/ /\ queue' = [queue EXCEPT ![s] = Append(rest, entered'[s])]
              /\ GiveUp(s, dropped)
           \/ UNCHANGED <<queue, lost>>
    BY DEF Enqueue, workerVars, diskVars
  <1>3. entered' \in [Shell -> Nat] /\ entered'[s] \in Number
    BY <1>2 DEF TypeOK, Number
  <1>4. rest \in Seq(Number) /\ Len(rest) < QueueCap /\ dropped \subseteq Number
    <2>1. CASE full
      <3>1. queue[s] # <<>>
        BY <1>1, <2>1
      <3> QED BY <1>1, <2>1, <3>1, TailType
    <2>2. CASE ~full
      BY <1>1, <2>2
    <2> QED BY <2>1, <2>2
  <1> HIDE DEF rest, dropped, full
  <1>5. Append(rest, entered'[s]) \in Seq(Number)
        /\ Len(Append(rest, entered'[s])) <= QueueCap
    BY <1>1, <1>3, <1>4
  <1>6. /\ queue' \in [Shell -> Seq(Number)]
        /\ \A t \in Shell : Len(queue'[t]) <= QueueCap
        /\ lost' \in [Shell -> SUBSET Number]
    <2>1. CASE UNCHANGED <<queue, lost>>
      BY <2>1 DEF TypeOK
    <2>2. CASE /\ queue' = [queue EXCEPT ![s] = Append(rest, entered'[s])]
               /\ GiveUp(s, dropped)
      BY <1>4, <1>5, <2>2, GiveUpType DEF TypeOK
    <2> QED BY <1>2, <2>1, <2>2
  <1> QED BY <1>2, <1>3, <1>6 DEF TypeOK

LEMMA EndType ==
    ASSUME TypeOK, NEW s \in Shell, End(s) PROVE TypeOK'
  <1>1. Elements(queue[s]) \cup Elements(batch[s]) \in SUBSET Number
    BY ElementsType DEF TypeOK
  <1>2. lost' \in [Shell -> SUBSET Number]
    BY <1>1, GiveUpType DEF End
  <1>3. /\ queue' \in [Shell -> Seq(Number)] /\ batch' \in [Shell -> Seq(Number)]
        /\ \A t \in Shell : Len(queue'[t]) <= QueueCap /\ Len(batch'[t]) <= QueueCap
    BY CapAssumption DEF End, TypeOK
  <1> QED BY <1>2, <1>3 DEF End, TypeOK

LEMMA AbandonType ==
    ASSUME TypeOK, NEW s \in Shell, Abandon(s) PROVE TypeOK'
  <1>1. Elements(batch[s]) \in SUBSET Number
    BY ElementsType DEF TypeOK
  <1>2. lost' \in [Shell -> SUBSET Number]
    BY <1>1, GiveUpType DEF Abandon
  <1>3. batch' \in [Shell -> Seq(Number)] /\ \A t \in Shell : Len(batch'[t]) <= QueueCap
    BY CapAssumption DEF Abandon, TypeOK
  <1> QED BY <1>2, <1>3 DEF Abandon, TypeOK, mainVars, diskVars

LEMMA TakeBatchType ==
    ASSUME TypeOK, NEW s \in Shell, TakeBatch(s) PROVE TypeOK'
  <1>1. /\ queue' \in [Shell -> Seq(Number)] /\ batch' \in [Shell -> Seq(Number)]
        /\ \A t \in Shell : Len(queue'[t]) <= QueueCap /\ Len(batch'[t]) <= QueueCap
    BY CapAssumption DEF TakeBatch, TypeOK
  <1>2. hurry' \in [Shell -> BOOLEAN]
    BY DEF TakeBatch, TypeOK
  <1> QED BY <1>1, <1>2 DEF TakeBatch, TypeOK, mainVars, diskVars

\* What a write does to the types: the file grows by a piece, or the batch
\* loses its head, or both.
LEMMA PieceType ==
    ASSUME TypeOK, NEW s \in Shell, batch[s] # <<>>, NEW part \in {"first", "rest"}
    PROVE  Append(file, Piece(s, part)) \in Seq(FilePiece)
  <1>1. Head(batch[s]) \in Number
    BY TailType DEF TypeOK
  <1>2. Piece(s, part) \in FilePiece
    BY <1>1 DEF Piece, FilePiece
  <1>3. file \in Seq(FilePiece)
    BY DEF TypeOK, FilePiece
  <1> QED BY <1>2, <1>3

LEMMA BatchTailType ==
    ASSUME TypeOK, NEW s \in Shell, batch[s] # <<>>,
           batch' = [batch EXCEPT ![s] = Tail(@)]
    PROVE  /\ batch' \in [Shell -> Seq(Number)]
           /\ \A t \in Shell : Len(batch'[t]) <= QueueCap
  <1>1. /\ batch[s] \in Seq(Number) /\ Len(batch[s]) <= QueueCap
        /\ QueueCap \in Nat
    BY CapAssumption DEF TypeOK
  <1>2. Tail(batch[s]) \in Seq(Number) /\ Len(Tail(batch[s])) <= QueueCap
    BY <1>1, TailType
  <1> QED BY <1>2 DEF TypeOK

LEMMA TypeStep ==
    ASSUME TypeOK, HalfAtEnd, [Next]_vars PROVE TypeOK'
  <1>1. CASE UNCHANGED vars
    BY <1>1 DEF vars, TypeOK
  <1>2. ASSUME NEW s \in Shell, Main(s) PROVE TypeOK'
    <2>1. CASE LoadOk(s)
      BY <2>1 DEF LoadOk, TypeOK, diskVars
    <2>2. CASE LoadFails(s)
      BY <2>2 DEF LoadFails, TypeOK, workerVars, diskVars
    <2>3. CASE Enqueue(s)
      BY <2>3, EnqueueType
    <2>4. CASE ShutdownBegin(s)
      BY <2>4 DEF ShutdownBegin, TypeOK, workerVars, diskVars
    <2> QED BY <1>2, <2>1, <2>2, <2>3, <2>4 DEF Main
  <1>3. ASSUME NEW s \in Shell, Leave(s) \/ Kill(s) PROVE TypeOK'
    <2>1. CASE ShutdownJoin(s) \/ ShutdownTimeout(s)
      BY <2>1 DEF ShutdownJoin, ShutdownTimeout, TypeOK, workerVars, diskVars
    <2> QED BY <1>3, <2>1, EndType DEF Leave, Exit, Kill
  <1>4. ASSUME NEW s \in Shell, Write(s) \/ TakeLock(s) \/ LockFails(s) PROVE TypeOK'
    <2>1. CASE Open(s) \/ TakeLock(s) \/ Unlock(s)
      BY <2>1 DEF Open, TakeLock, Unlock, TypeOK, mainVars, diskVars
    <2>2. CASE WritePart(s)
      <3>1. file' \in Seq(FilePiece)
        BY <2>2, PieceType DEF WritePart
      <3> QED BY <2>2, <3>1 DEF WritePart, TypeOK, mainVars, FilePiece
    <2>3. CASE WriteRest(s)
      <3>1. batch[s] # <<>>
        BY <2>3 DEF WriteRest, HalfAtEnd
      <3>2. file' \in Seq(FilePiece)
        BY <2>3, <3>1, PieceType DEF WriteRest
      <3>3. /\ batch' \in [Shell -> Seq(Number)]
            /\ \A t \in Shell : Len(batch'[t]) <= QueueCap
        BY <2>3, <3>1, BatchTailType DEF WriteRest
      <3> QED BY <2>3, <3>2, <3>3 DEF WriteRest, TypeOK, mainVars, FilePiece
    <2>4. CASE WriteFails(s)
      <3>1. {Head(batch[s])} \in SUBSET Number
        BY <2>4, TailType DEF WriteFails, TypeOK
      <3>2. lost' \in [Shell -> SUBSET Number]
        BY <2>4, <3>1, GiveUpType DEF WriteFails
      <3>3. /\ batch' \in [Shell -> Seq(Number)]
            /\ \A t \in Shell : Len(batch'[t]) <= QueueCap
        BY <2>4, BatchTailType DEF WriteFails
      <3> QED BY <2>4, <3>2, <3>3 DEF WriteFails, TypeOK, mainVars, diskVars
    <2> QED BY <1>4, <2>1, <2>2, <2>3, <2>4, TakeBatchType, AbandonType
            DEF Write, OpenFails, LockTimeout, LockFails
  <1>5. CASE ForeignLock \/ ForeignUnlock
    BY <1>5 DEF ForeignLock, ForeignUnlock, TypeOK, mainVars, workerVars
  <1> QED BY <1>1, <1>2, <1>3, <1>4, <1>5 DEF Next

-----------------------------------------------------------------------------
(* The lock.                                                               *)

LEMMA LockStep ==
    ASSUME TypeOK, WriterHasLock, [Next]_vars PROVE WriterHasLock'
  <1>1. CASE UNCHANGED vars
    BY <1>1 DEF vars, WriterHasLock
  <1>2. ASSUME NEW s \in Shell, Main(s) PROVE WriterHasLock'
    BY <1>2 DEF Main, LoadOk, LoadFails, Enqueue, ShutdownBegin, WriterHasLock,
                TypeOK, workerVars, diskVars
  <1>3. ASSUME NEW s \in Shell, Leave(s) \/ Kill(s) PROVE WriterHasLock'
    BY <1>3, LockAssumption DEF Leave, ShutdownJoin, ShutdownTimeout, Exit, Kill, End,
                WriterHasLock, TypeOK, workerVars, diskVars
  <1>4. ASSUME NEW s \in Shell, Write(s) \/ LockFails(s) PROVE WriterHasLock'
    <2>1. CASE Unlock(s)
      BY <2>1, LockAssumption DEF Unlock, WriterHasLock, TypeOK
    <2>2. CASE ~Unlock(s)
      BY <1>4, <2>2 DEF Write, LockFails, TakeBatch, Open, OpenFails, LockTimeout,
                Abandon, WritePart, WriteRest, WriteFails, WriterHasLock, TypeOK, diskVars
    <2> QED BY <2>1, <2>2
  <1>5. ASSUME NEW s \in Shell, TakeLock(s) PROVE WriterHasLock'
    BY <1>5, LockAssumption DEF TakeLock, WriterHasLock, TypeOK
  <1>6. CASE ForeignLock \/ ForeignUnlock
    BY <1>6, LockAssumption DEF ForeignLock, ForeignUnlock, WriterHasLock, TypeOK, workerVars
  <1> QED BY <1>1, <1>2, <1>3, <1>4, <1>5, <1>6 DEF Next

-----------------------------------------------------------------------------
(* The file.                                                               *)

\* Steps that write nothing.
LEMMA FileKept ==
    ASSUME TypeOK, WholeLines, HalfAtEnd, [Next]_vars, file' = file
    PROVE  WholeLines' /\ HalfAtEnd'
  <1>1. WholeLines'
    BY DEF WholeLines
  <1>2. ASSUME NEW t \in Shell, worker'[t] = "halfway"
        PROVE  worker[t] = "halfway" /\ batch'[t] = batch[t]
    <2>1. CASE UNCHANGED vars
      BY <1>2, <2>1 DEF vars
    <2>2. ASSUME NEW s \in Shell, Main(s) \/ Leave(s) \/ Kill(s)
          PROVE  worker[t] = "halfway" /\ batch'[t] = batch[t]
      BY <1>2, <2>2 DEF Main, LoadOk, LoadFails, Enqueue, ShutdownBegin, Leave,
                ShutdownJoin, ShutdownTimeout, Exit, Kill, End, TypeOK, workerVars
    <2>3. ASSUME NEW s \in Shell, Write(s) \/ LockFails(s) \/ TakeLock(s)
          PROVE  worker[t] = "halfway" /\ batch'[t] = batch[t]
      <3>1. ~WritePart(s) /\ ~WriteRest(s)
        <4>1. file # Append(file, Piece(s, "first")) /\ file # Append(file, Piece(s, "rest"))
          <5>1. Len(file) \in Nat /\ file \in Seq(FilePiece)
            BY DEF TypeOK, FilePiece
          <5> QED BY <5>1
        <4> QED BY <4>1 DEF WritePart, WriteRest
      <3> QED BY <1>2, <2>3, <3>1 DEF Write, LockFails, TakeLock, TakeBatch, Open, OpenFails,
                LockTimeout, Abandon, WriteFails, Unlock, TypeOK
    <2>4. CASE ForeignLock \/ ForeignUnlock
      BY <1>2, <2>4 DEF ForeignLock, ForeignUnlock, workerVars
    <2> QED BY <2>1, <2>2, <2>3, <2>4 DEF Next
  <1>3. HalfAtEnd'
    BY <1>2 DEF HalfAtEnd, Piece
  <1> QED BY <1>1, <1>3

\* A writer puts down the first part of an entry: no other is halfway.
LEMMA FirstPart ==
    ASSUME TypeOK, WriterHasLock, WholeLines, HalfAtEnd, NEW s \in Shell, WritePart(s)
    PROVE  WholeLines' /\ HalfAtEnd'
  <1> DEFINE p == Piece(s, "first")
  <1>1. /\ file' = Append(file, p) /\ batch' = batch /\ batch[s] # <<>>
        /\ worker[s] = "writing" /\ worker' = [worker EXCEPT ![s] = "halfway"]
    BY DEF WritePart
  <1>2. p \in FilePiece /\ p.part = "first"
    <2>1. Head(batch[s]) \in Number
      BY <1>1, TailType DEF TypeOK
    <2> QED BY <2>1 DEF Piece, FilePiece
  <1>3. file \in Seq(FilePiece) /\ Len(file) \in Nat
    BY DEF TypeOK, FilePiece
  <1> HIDE DEF p
  <1>4. /\ Len(file') = Len(file) + 1 /\ file'[Len(file')] = p /\ file' # <<>>
        /\ \A i \in 1..Len(file) : file'[i] = file[i]
    BY <1>1, <1>2, <1>3
  <1>5. WholeLines'
    <2> SUFFICES ASSUME NEW i \in 1..Len(file'), file'[i].part = "rest"
                 PROVE  i > 1 /\ file'[i - 1] = [file'[i] EXCEPT !.part = "first"]
      BY DEF WholeLines
    <2>1. i \in 1..Len(file)
      BY <1>2, <1>3, <1>4
    <2>2. i > 1 /\ file[i - 1] = [file[i] EXCEPT !.part = "first"]
      BY <2>1, <1>4 DEF WholeLines
    <2>3. i - 1 \in 1..Len(file)
      BY <2>1, <2>2, <1>3
    <2> QED BY <2>1, <2>2, <2>3, <1>4
  <1>6. ASSUME NEW t \in Shell, worker'[t] = "halfway" PROVE t = s
    BY <1>1, <1>6 DEF WriterHasLock, TypeOK
  <1>7. HalfAtEnd'
    BY <1>1, <1>4, <1>6 DEF HalfAtEnd, Piece, p
  <1> QED BY <1>5, <1>7

\* It puts down the rest, right behind.
LEMMA RestPart ==
    ASSUME TypeOK, WriterHasLock, WholeLines, HalfAtEnd, NEW s \in Shell, WriteRest(s)
    PROVE  WholeLines' /\ HalfAtEnd'
  <1> DEFINE p == Piece(s, "rest")
  <1>1. /\ file' = Append(file, p) /\ worker[s] = "halfway"
        /\ worker' = [worker EXCEPT ![s] = "writing"]
    BY DEF WriteRest
  <1>2. /\ batch[s] # <<>> /\ file # <<>> /\ file[Len(file)] = Piece(s, "first")
    BY <1>1 DEF HalfAtEnd
  <1>3. p \in FilePiece /\ [p EXCEPT !.part = "first"] = Piece(s, "first")
    <2>1. Head(batch[s]) \in Number
      BY <1>2, TailType DEF TypeOK
    <2> QED BY <2>1 DEF Piece, FilePiece
  <1>4. file \in Seq(FilePiece) /\ Len(file) \in Nat /\ Len(file) > 0
    BY <1>2 DEF TypeOK, FilePiece
  <1> HIDE DEF p
  <1>5. /\ Len(file') = Len(file) + 1 /\ file'[Len(file')] = p
        /\ \A i \in 1..Len(file) : file'[i] = file[i]
    BY <1>1, <1>3, <1>4
  <1>6. WholeLines'
    <2> SUFFICES ASSUME NEW i \in 1..Len(file'), file'[i].part = "rest"
                 PROVE  i > 1 /\ file'[i - 1] = [file'[i] EXCEPT !.part = "first"]
      BY DEF WholeLines
    <2>1. CASE i \in 1..Len(file)
      <3>1. i > 1 /\ file[i - 1] = [file[i] EXCEPT !.part = "first"]
        BY <2>1, <1>5 DEF WholeLines
      <3>2. i - 1 \in 1..Len(file)
        BY <2>1, <3>1, <1>4
      <3> QED BY <2>1, <3>1, <3>2, <1>5
    <2>2. CASE i = Len(file')
      <3>1. i - 1 = Len(file) /\ i - 1 \in 1..Len(file)
        BY <2>2, <1>4, <1>5
      <3> QED BY <2>2, <3>1, <1>2, <1>3, <1>4, <1>5
    <2> QED BY <2>1, <2>2, <1>4, <1>5
  <1>7. \A t \in Shell : worker'[t] # "halfway"
    BY <1>1 DEF WriterHasLock, TypeOK
  <1> QED BY <1>6, <1>7 DEF HalfAtEnd

LEMMA FileStep ==
    ASSUME TypeOK, WriterHasLock, WholeLines, HalfAtEnd, [Next]_vars
    PROVE  WholeLines' /\ HalfAtEnd'
  <1>1. CASE \E s \in Shell : WritePart(s) \/ WriteRest(s)
    BY <1>1, FirstPart, RestPart
  <1>2. CASE ~(\E s \in Shell : WritePart(s) \/ WriteRest(s))
    <2>1. file' = file
      BY <1>2 DEF Next, vars, Main, LoadOk, LoadFails, Enqueue, ShutdownBegin, Leave,
              ShutdownJoin, ShutdownTimeout, Exit, Kill, End, Write, TakeLock, LockFails,
              TakeBatch, Open, OpenFails, LockTimeout, Abandon, WriteFails, Unlock,
              ForeignLock, ForeignUnlock, diskVars
    <2> QED BY <2>1, FileKept
  <1> QED BY <1>1, <1>2

-----------------------------------------------------------------------------
(* A shell that has not loaded the file.                                   *)

\* A step of a shell touches only its own state, and adds nobody else's piece.
LEMMA PieceOfWriter ==
    ASSUME TypeOK, HalfAtEnd, NEW s \in Shell, WritePart(s) \/ WriteRest(s)
    PROVE  \A i \in 1..Len(file') :
             \/ file'[i].shell = s
             \/ i \in 1..Len(file) /\ file'[i] = file[i]
  <1>1. PICK part \in {"first", "rest"} : file' = Append(file, Piece(s, part))
    BY DEF WritePart, WriteRest
  <1>2. batch[s] # <<>>
    BY DEF WritePart, WriteRest, HalfAtEnd
  <1>3. Piece(s, part) \in FilePiece /\ Piece(s, part).shell = s
    <2>1. Head(batch[s]) \in Number
      BY <1>2, TailType DEF TypeOK
    <2> QED BY <2>1 DEF Piece, FilePiece
  <1>4. file \in Seq(FilePiece) /\ Len(file) \in Nat
    BY DEF TypeOK, FilePiece
  <1> QED BY <1>1, <1>3, <1>4

LEMMA UnloadedStep ==
    ASSUME TypeOK, HalfAtEnd, UnloadedIdle, [Next]_vars PROVE UnloadedIdle'
  <1> SUFFICES ASSUME NEW t \in Shell, main'[t] \in {"new", "failed"} PROVE NoTrace(t)'
    BY DEF UnloadedIdle
  <1>1. CASE UNCHANGED vars
    BY <1>1 DEF vars, UnloadedIdle, NoTrace
  <1>2. ASSUME NEW s \in Shell, Main(s) PROVE NoTrace(t)'
    <2>1. CASE LoadOk(s)
      BY <2>1 DEF LoadOk, UnloadedIdle, NoTrace, TypeOK, diskVars
    <2>2. CASE LoadFails(s)
      BY <2>2 DEF LoadFails, UnloadedIdle, NoTrace, TypeOK, workerVars, diskVars
    <2>3. CASE Enqueue(s)
      BY <2>3 DEF Enqueue, UnloadedIdle, NoTrace, TypeOK, workerVars, diskVars
    <2>4. CASE ShutdownBegin(s)
      BY <2>4 DEF ShutdownBegin, UnloadedIdle, NoTrace, TypeOK, workerVars, diskVars
    <2> QED BY <1>2, <2>1, <2>2, <2>3, <2>4 DEF Main
  <1>3. ASSUME NEW s \in Shell, Leave(s) \/ Kill(s) PROVE NoTrace(t)'
    <2>1. main'[s] \in {"leaving", "gone"} /\ main' = [main EXCEPT ![s] = main'[s]]
      BY <1>3 DEF Leave, ShutdownJoin, ShutdownTimeout, Exit, Kill, End, TypeOK
    <2>2. t # s /\ NoTrace(t)
      BY <2>1 DEF UnloadedIdle, TypeOK
    <2>3. loadOk' = loadOk /\ file' = file /\ lock' \in {lock, Nobody}
      BY <1>3 DEF Leave, ShutdownJoin, ShutdownTimeout, Exit, Kill, End, diskVars
    <2>4. worker'[t] = worker[t] /\ queue'[t] = queue[t]
      BY <1>3, <2>2 DEF Leave, ShutdownJoin, ShutdownTimeout, Exit, Kill, End, TypeOK,
            workerVars
    <2> QED BY <2>2, <2>3, <2>4, LockAssumption DEF NoTrace
  <1>4. ASSUME NEW s \in Shell, Write(s) \/ TakeLock(s) \/ LockFails(s) PROVE NoTrace(t)'
    <2>1. main' = main /\ loadOk' = loadOk /\ worker[s] # "none"
      BY <1>4 DEF Write, TakeLock, LockFails, TakeBatch, Open, OpenFails, LockTimeout,
            Abandon, WritePart, WriteRest, WriteFails, Unlock, mainVars
    <2>2. NoTrace(t) /\ t # s
      BY <2>1 DEF UnloadedIdle, NoTrace
    <2>3. worker'[t] = worker[t] /\ queue'[t] = queue[t]
      BY <1>4, <2>2 DEF Write, TakeLock, LockFails, TakeBatch, Open, OpenFails, LockTimeout,
            Abandon, WritePart, WriteRest, WriteFails, Unlock, TypeOK
    <2>4. lock' # t
      BY <1>4, <2>2, LockAssumption DEF Write, TakeLock, LockFails, TakeBatch, Open,
            OpenFails, LockTimeout, Abandon, WritePart, WriteRest, WriteFails, Unlock,
            NoTrace, diskVars
    <2>5. \A i \in 1..Len(file') : file'[i].shell # t
      <3>1. CASE WritePart(s) \/ WriteRest(s)
        BY <3>1, <2>2, PieceOfWriter DEF NoTrace
      <3>2. CASE ~(WritePart(s) \/ WriteRest(s))
        <4>1. file' = file
          BY <1>4, <3>2 DEF Write, TakeLock, LockFails, TakeBatch, Open, OpenFails,
                LockTimeout, Abandon, WriteFails, Unlock, diskVars
        <4> QED BY <4>1, <2>2 DEF NoTrace
      <3> QED BY <3>1, <3>2
    <2> QED BY <2>1, <2>2, <2>3, <2>4, <2>5 DEF NoTrace
  <1>5. CASE ForeignLock \/ ForeignUnlock
    BY <1>5, LockAssumption DEF ForeignLock, ForeignUnlock, UnloadedIdle, NoTrace,
          mainVars, workerVars
  <1> QED BY <1>1, <1>2, <1>3, <1>4, <1>5 DEF Next

-----------------------------------------------------------------------------
(* Sequences of entries.                                                   *)

LEMMA EmptyElements ==
    Elements(<<>>) = {} /\ Increasing(<<>>)
  BY DEF Elements, Increasing

\* Taking the head off takes one element, and the smallest of an increasing one.
LEMMA TailElements ==
    ASSUME NEW q \in Seq(Number), q # <<>>
    PROVE  /\ Head(q) \in Elements(q)
           /\ Elements(Tail(q)) \subseteq Elements(q)
           /\ Elements(q) = Elements(Tail(q)) \cup {Head(q)}
           /\ Increasing(q) => /\ Increasing(Tail(q))
                               /\ Head(q) \notin Elements(Tail(q))
                               /\ \A n \in Elements(q) : Head(q) <= n
  <1>1. /\ Len(q) \in Nat \ {0} /\ Tail(q) \in Seq(Number) /\ Len(Tail(q)) = Len(q) - 1
        /\ \A i \in 1..Len(Tail(q)) : Tail(q)[i] = q[i + 1]
        /\ Head(q) = q[1] /\ \A i \in 1..Len(q) : q[i] \in Nat
    BY DEF Number
  <1>2. Head(q) \in Elements(q)
    BY <1>1 DEF Elements
  <1>3. ASSUME NEW n \in Elements(Tail(q)) PROVE n \in Elements(q)
    <2>1. PICK i \in 1..Len(Tail(q)) : n = Tail(q)[i]
      BY DEF Elements
    <2>2. i + 1 \in 1..Len(q) /\ n = q[i + 1]
      BY <1>1, <2>1
    <2> QED BY <2>2 DEF Elements
  <1>4. ASSUME NEW n \in Elements(q) PROVE n \in Elements(Tail(q)) \cup {Head(q)}
    <2>1. PICK i \in 1..Len(q) : n = q[i]
      BY DEF Elements
    <2>2. CASE i = 1
      BY <1>1, <2>1, <2>2
    <2>3. CASE i # 1
      <3>1. i - 1 \in 1..Len(Tail(q)) /\ (i - 1) + 1 = i
        BY <1>1, <2>3
      <3>2. Tail(q)[i - 1] = n
        BY <1>1, <2>1, <3>1
      <3> QED BY <3>1, <3>2 DEF Elements
    <2> QED BY <2>2, <2>3
  <1>5. ASSUME Increasing(q)
        PROVE  /\ Increasing(Tail(q))
               /\ Head(q) \notin Elements(Tail(q))
               /\ \A n \in Elements(q) : Head(q) <= n
    <2>1. Increasing(Tail(q))
      BY <1>1, <1>5 DEF Increasing
    <2>2. \A i \in 2..Len(q) : q[1] < q[i]
      BY <1>1, <1>5 DEF Increasing
    <2>3. Head(q) \notin Elements(Tail(q))
      BY <1>1, <2>2 DEF Elements
    <2>4. \A n \in Elements(q) : Head(q) <= n
      BY <1>1, <2>2 DEF Elements
    <2> QED BY <2>1, <2>3, <2>4
  <1> QED BY <1>2, <1>3, <1>4, <1>5

LEMMA AppendElements ==
    ASSUME NEW q \in Seq(Number), NEW e \in Number
    PROVE  /\ Elements(Append(q, e)) = Elements(q) \cup {e}
           /\ Increasing(q) /\ (\A n \in Elements(q) : n < e) => Increasing(Append(q, e))
  <1>1. /\ Len(q) \in Nat /\ Len(Append(q, e)) = Len(q) + 1
        /\ \A i \in 1..Len(q) : Append(q, e)[i] = q[i]
        /\ Append(q, e)[Len(q) + 1] = e
    OBVIOUS
  <1> DEFINE a == Append(q, e)
  <1> HIDE DEF a
  <1>2. \A i \in 1..Len(a) : a[i] \in Elements(q) \cup {e}
    BY <1>1 DEF Elements, a
  <1>3. \A i \in 1..Len(q) : q[i] \in Elements(a)
    BY <1>1 DEF Elements, a
  <1>4. e \in Elements(a)
    BY <1>1 DEF Elements, a
  <1>5. Elements(a) = Elements(q) \cup {e}
    BY <1>2, <1>3, <1>4 DEF Elements
  <1>6. ASSUME Increasing(q), \A n \in Elements(q) : n < e PROVE Increasing(a)
    <2> SUFFICES ASSUME NEW i \in 1..Len(a), NEW j \in 1..Len(a), i < j PROVE a[i] < a[j]
      BY DEF Increasing
    <2>1. i \in 1..Len(q) /\ a[i] = q[i] /\ q[i] \in Elements(q)
      BY <1>1 DEF a, Elements
    <2>2. CASE j \in 1..Len(q)
      BY <1>1, <1>6, <2>1, <2>2 DEF a, Increasing
    <2>3. CASE j = Len(q) + 1
      BY <1>1, <1>6, <2>1, <2>3 DEF a
    <2> QED BY <1>1, <2>2, <2>3 DEF a
  <1> QED BY <1>5, <1>6 DEF a

-----------------------------------------------------------------------------
(* The order of the entries on their way.                                  *)

\* What Enqueue does to the queue.
LEMMA EnqueueEffect ==
    ASSUME TypeOK, InOrder, NEW s \in Shell, Enqueue(s)
    PROVE  /\ entered' = [entered EXCEPT ![s] = entered[s] + 1]
           /\ UNCHANGED <<main, loadOk, stop, worker, hurry, batch, lock, file>>
           /\ \/ ~loadOk[s] /\ UNCHANGED <<queue, lost>>
              \/ /\ loadOk[s]
                 /\ \E rest \in Seq(Number), dropped \in SUBSET Number :
                      /\ queue' = [queue EXCEPT ![s] = Append(rest, entered[s] + 1)]
                      /\ lost' = [lost EXCEPT ![s] = @ \cup dropped]
                      /\ Elements(queue[s]) = Elements(rest) \cup dropped
                      /\ Increasing(rest)
  <1> DEFINE full == Len(queue[s]) >= QueueCap
             rest == IF full THEN Tail(queue[s]) ELSE queue[s]
             dropped == IF full THEN {Head(queue[s])} ELSE {}
  <1>1. /\ queue[s] \in Seq(Number) /\ QueueCap \in Nat \ {0} /\ entered[s] \in Nat
        /\ Increasing(queue[s]) /\ loadOk[s] \in BOOLEAN
    BY CapAssumption DEF TypeOK, InOrder
  <1>2. /\ entered' = [entered EXCEPT ![s] = @ + 1]
        /\ UNCHANGED <<main, loadOk, stop, worker, hurry, batch, lock, file>>
        /\ IF loadOk[s] THEN /\ queue' = [queue EXCEPT ![s] = Append(rest, entered'[s])]
                             /\ GiveUp(s, dropped)
           ELSE UNCHANGED <<queue, lost>>
    BY DEF Enqueue, workerVars, diskVars
  <1>3. entered'[s] = entered[s] + 1
    BY <1>2 DEF TypeOK
  <1>4. /\ rest \in Seq(Number) /\ dropped \in SUBSET Number /\ Increasing(rest)
        /\ Elements(queue[s]) = Elements(rest) \cup dropped
    <2>1. CASE full
      <3>1. queue[s] # <<>>
        BY <1>1, <2>1
      <3>2. Head(queue[s]) \in Number /\ Tail(queue[s]) \in Seq(Number)
        BY <1>1, <3>1, TailType
      <3> QED BY <1>1, <2>1, <3>1, <3>2, TailElements
    <2>2. CASE ~full
      BY <1>1, <2>2
    <2> QED BY <2>1, <2>2
  <1> HIDE DEF rest, dropped, full
  <1> QED BY <1>1, <1>2, <1>3, <1>4 DEF GiveUp

\* Losing the head of a batch, or all of it, or the queue keeps the rest in order.
LEMMA InOrderStep ==
    ASSUME TypeOK, HalfAtEnd, InOrder, [Next]_vars PROVE InOrder'
  <1> SUFFICES ASSUME NEW t \in Shell
               PROVE  /\ Increasing(queue'[t]) /\ Increasing(batch'[t])
                      /\ \A n \in Elements(queue'[t]) : n <= entered'[t]
                      /\ \A m \in Elements(batch'[t]) :
                            m <= entered'[t] /\ \A n \in Elements(queue'[t]) : m < n
    BY DEF InOrder
  <1>1. /\ Increasing(queue[t]) /\ Increasing(batch[t])
        /\ \A n \in Elements(queue[t]) : n <= entered[t]
        /\ \A m \in Elements(batch[t]) : m <= entered[t] /\ \A n \in Elements(queue[t]) : m < n
    BY DEF InOrder
  <1>2. /\ queue[t] \in Seq(Number) /\ batch[t] \in Seq(Number) /\ entered[t] \in Nat
        /\ Elements(queue[t]) \subseteq Nat /\ Elements(batch[t]) \subseteq Nat
    <2>1. queue[t] \in Seq(Number) /\ batch[t] \in Seq(Number) /\ entered[t] \in Nat
      BY DEF TypeOK
    <2> QED BY <2>1, ElementsType DEF Number
  <1>3. CASE queue'[t] = queue[t] /\ batch'[t] = batch[t] /\ entered'[t] = entered[t]
    BY <1>1, <1>3
  <1>4. CASE /\ queue'[t] \in {queue[t], <<>>} /\ entered'[t] = entered[t]
             /\ \/ batch'[t] \in {<<>>, queue[t]} /\ queue'[t] = <<>>
                \/ batch'[t] = <<>>
                \/ batch[t] # <<>> /\ batch'[t] = Tail(batch[t])
    BY <1>1, <1>2, <1>4, EmptyElements, TailElements
  <1>5. CASE Enqueue(t)
    <2>1. entered'[t] = entered[t] + 1 /\ batch'[t] = batch[t]
      BY <1>2, <1>5, EnqueueEffect DEF TypeOK
    <2>2. CASE ~loadOk[t] /\ UNCHANGED queue
      BY <1>1, <1>2, <2>1, <2>2
    <2>3. ASSUME NEW rest \in Seq(Number),
                 queue' = [queue EXCEPT ![t] = Append(rest, entered[t] + 1)],
                 Elements(rest) \subseteq Elements(queue[t]), Increasing(rest)
          PROVE  /\ Increasing(queue'[t]) /\ Increasing(batch'[t])
                 /\ \A n \in Elements(queue'[t]) : n <= entered'[t]
                 /\ \A m \in Elements(batch'[t]) :
                       m <= entered'[t] /\ \A n \in Elements(queue'[t]) : m < n
      <3>1. queue'[t] = Append(rest, entered[t] + 1)
        BY <2>3 DEF TypeOK
      <3>2. entered[t] + 1 \in Number
        BY <1>2 DEF Number
      <3>3. \A n \in Elements(rest) : n \in Nat /\ n < entered[t] + 1
        BY <1>1, <1>2, <2>3
      <3>4. /\ Elements(queue'[t]) = Elements(rest) \cup {entered[t] + 1}
            /\ Increasing(queue'[t])
        BY <2>3, <3>1, <3>2, <3>3, AppendElements
      <3>5. ASSUME NEW n \in Elements(queue'[t]) PROVE n <= entered'[t]
        BY <1>2, <2>1, <3>3, <3>4
      <3>6. ASSUME NEW m \in Elements(batch'[t])
            PROVE  m <= entered'[t] /\ \A n \in Elements(queue'[t]) : m < n
        <4>1. m \in Nat /\ m <= entered[t] /\ \A n \in Elements(rest) : m < n
          BY <1>1, <1>2, <2>1, <2>3
        <4>2. m < entered[t] + 1 /\ m <= entered'[t]
          BY <1>2, <2>1, <4>1
        <4>3. ASSUME NEW n \in Elements(queue'[t]) PROVE m < n
          BY <3>4, <4>1, <4>2
        <4> QED BY <4>2, <4>3
      <3> QED BY <1>1, <2>1, <3>4, <3>5, <3>6
    <2> QED BY <1>5, <2>2, <2>3, EnqueueEffect
  <1>6. CASE UNCHANGED vars \/ ForeignLock \/ ForeignUnlock
    BY <1>3, <1>6 DEF vars, ForeignLock, ForeignUnlock, mainVars, workerVars
  <1>7. ASSUME NEW s \in Shell, Main(s) \/ Leave(s) \/ Kill(s), ~Enqueue(s)
        PROVE  \/ queue'[t] = queue[t] /\ batch'[t] = batch[t] /\ entered'[t] = entered[t]
               \/ queue'[t] = <<>> /\ batch'[t] = <<>> /\ entered'[t] = entered[t]
    BY <1>7 DEF Main, LoadOk, LoadFails, ShutdownBegin, Leave, ShutdownJoin, ShutdownTimeout,
            Exit, Kill, End, workerVars, TypeOK
  <1>8. ASSUME NEW s \in Shell, Enqueue(s), s # t
        PROVE  queue'[t] = queue[t] /\ batch'[t] = batch[t] /\ entered'[t] = entered[t]
    BY <1>8 DEF Enqueue, workerVars, TypeOK
  <1>9. ASSUME NEW s \in Shell, Write(s) \/ LockFails(s) \/ TakeLock(s)
        PROVE  /\ entered'[t] = entered[t]
               /\ \/ queue'[t] = queue[t] /\ batch'[t] = batch[t]
                  \/ queue'[t] = <<>> /\ batch'[t] = queue[t]
                  \/ queue'[t] = queue[t] /\ batch'[t] = <<>>
                  \/ queue'[t] = queue[t] /\ batch[t] # <<>> /\ batch'[t] = Tail(batch[t])
    <2>1. WriteRest(s) => batch[s] # <<>>
      BY DEF WriteRest, HalfAtEnd
    <2> QED BY <1>9, <2>1 DEF Write, LockFails, TakeLock, TakeBatch, Open, OpenFails, LockTimeout,
            Abandon, WritePart, WriteRest, WriteFails, Unlock, mainVars, TypeOK
  <1> QED BY <1>3, <1>4, <1>5, <1>6, <1>7, <1>8, <1>9 DEF Next, Main

-----------------------------------------------------------------------------
(* The writer stops when all is done.                                      *)

LEMMA StopsDrainedStep ==
    ASSUME TypeOK, UnloadedIdle, HalfAtEnd, StopsDrained, [Next]_vars PROVE StopsDrained'
  <1> SUFFICES ASSUME NEW t \in Shell
               PROVE  /\ main'[t] = "new" => entered'[t] = 0 /\ lost'[t] = {}
                      /\ stop'[t] => main'[t] \in {"stopping", "leaving", "gone"}
                      /\ worker'[t] = "done" => stop'[t] /\ queue'[t] = <<>>
                      /\ worker'[t] \in {"none", "waiting", "done"} => batch'[t] = <<>>
    BY DEF StopsDrained
  <1>1. /\ main[t] = "new" => entered[t] = 0 /\ lost[t] = {}
        /\ stop[t] => main[t] \in {"stopping", "leaving", "gone"}
        /\ worker[t] = "done" => stop[t] /\ queue[t] = <<>>
        /\ worker[t] \in {"none", "waiting", "done"} => batch[t] = <<>>
        /\ main[t] \in {"new", "failed"} => worker[t] = "none" /\ queue[t] = <<>>
    BY DEF StopsDrained, UnloadedIdle, NoTrace
  <1>2. CASE UNCHANGED vars \/ ForeignLock \/ ForeignUnlock
    BY <1>1, <1>2 DEF vars, ForeignLock, ForeignUnlock, mainVars, workerVars
  <1>3. ASSUME NEW s \in Shell, Main(s) \/ Leave(s) \/ Kill(s), s # t
        PROVE  /\ main'[t] = main[t] /\ entered'[t] = entered[t] /\ lost'[t] = lost[t]
               /\ stop'[t] = stop[t] /\ worker'[t] = worker[t] /\ queue'[t] = queue[t]
               /\ batch'[t] = batch[t]
    BY <1>3 DEF Main, LoadOk, LoadFails, Enqueue, GiveUp, ShutdownBegin, Leave, ShutdownJoin,
            ShutdownTimeout, Exit, Kill, End, workerVars, TypeOK
  <1>4. ASSUME NEW s \in Shell, Write(s) \/ LockFails(s) \/ TakeLock(s), s # t
        PROVE  /\ main'[t] = main[t] /\ entered'[t] = entered[t] /\ lost'[t] = lost[t]
               /\ stop'[t] = stop[t] /\ worker'[t] = worker[t] /\ queue'[t] = queue[t]
               /\ batch'[t] = batch[t]
    BY <1>4 DEF Write, LockFails, TakeLock, TakeBatch, Open, OpenFails, LockTimeout, Abandon,
            GiveUp, WritePart, WriteRest, WriteFails, Unlock, mainVars, TypeOK
  <1>5. CASE LoadOk(t) \/ LoadFails(t)
    BY <1>1, <1>5 DEF LoadOk, LoadFails, workerVars, TypeOK
  <1>6. CASE Enqueue(t)
    <2>1. main[t] \in {"running", "failed"} /\ UNCHANGED <<main, stop, worker, batch>>
      BY <1>6 DEF Enqueue, workerVars
    <2> QED BY <1>1, <2>1
  <1>7. CASE ShutdownBegin(t)
    BY <1>1, <1>7 DEF ShutdownBegin, workerVars, TypeOK
  <1>8. CASE Leave(t) \/ Kill(t)
    BY <1>1, <1>8 DEF Leave, Kill, ShutdownJoin, ShutdownTimeout, Exit, End, workerVars, TypeOK
  <1>9. CASE TakeBatch(t)
    BY <1>1, <1>9 DEF TakeBatch, mainVars, TypeOK
  <1>10. CASE Open(t) \/ OpenFails(t) \/ LockTimeout(t) \/ LockFails(t) \/ TakeLock(t)
    BY <1>1, <1>10 DEF Open, OpenFails, LockTimeout, LockFails, TakeLock, Abandon, mainVars, TypeOK,
            GiveUp
  <1>11. CASE WritePart(t) \/ WriteRest(t) \/ WriteFails(t) \/ Unlock(t)
    <2>1. /\ main' = main /\ entered' = entered /\ stop' = stop /\ queue' = queue
          /\ worker'[t] \in {"halfway", "writing", "waiting"}
          /\ worker'[t] = "waiting" => batch'[t] = <<>>
          /\ worker[t] \in {"writing", "halfway"}
      BY <1>11 DEF WritePart, WriteRest, WriteFails, Unlock, mainVars, TypeOK
    <2> QED BY <1>1, <2>1
  <1> QED BY <1>1, <1>2, <1>3, <1>4, <1>5, <1>6, <1>7, <1>8, <1>9, <1>10, <1>11
          DEF Next, Main, Write

-----------------------------------------------------------------------------
(* Nothing is forgotten.                                                   *)

\* What a writer puts down is written when it is the rest of an entry.
LEMMA WrittenStep ==
    ASSUME TypeOK, NEW s \in Shell, NEW t \in Shell, NEW part \in {"first", "rest"},
           batch[s] # <<>>, file' = Append(file, Piece(s, part))
    PROVE  Written(t)' = IF t = s /\ part = "rest" THEN Written(t) \cup {Head(batch[s])}
                         ELSE Written(t)
  <1> DEFINE p == Piece(s, part)
             Of(f) == {j \in 1..Len(f) : f[j].shell = t /\ f[j].part = "rest"}
  <1>1. p \in FilePiece /\ p.shell = s /\ p.seq = Head(batch[s]) /\ p.part = part
    <2>1. Head(batch[s]) \in Number
      BY TailType DEF TypeOK
    <2> QED BY <2>1 DEF Piece, FilePiece
  <1>2. file \in Seq(FilePiece)
    BY DEF TypeOK, FilePiece
  <1> HIDE DEF p
  <1>3. /\ Len(file) \in Nat /\ Len(file') = Len(file) + 1
        /\ \A i \in 1..Len(file) : file'[i] = file[i]
        /\ file'[Len(file) + 1] = p
    BY <1>1, <1>2 DEF p
  <1>4. Of(file') = IF t = s /\ part = "rest" THEN Of(file) \cup {Len(file) + 1} ELSE Of(file)
    BY <1>1, <1>3
  <1>5. Of(file) \subseteq 1..Len(file)
    OBVIOUS
  <1>6. Written(t) = {file[i].seq : i \in Of(file)} /\ Written(t)' = {file'[i].seq : i \in Of(file')}
    BY DEF Written
  <1> HIDE DEF Of
  <1>7. {file'[i].seq : i \in Of(file)} = {file[i].seq : i \in Of(file)}
    BY <1>3, <1>5
  <1>8. CASE t = s /\ part = "rest"
    <2>1. {file'[i].seq : i \in Of(file')}
              = {file'[i].seq : i \in Of(file)} \cup {file'[Len(file) + 1].seq}
      BY <1>4, <1>8
    <2> QED BY <1>1, <1>3, <1>6, <1>7, <1>8, <2>1
  <1>9. CASE ~(t = s /\ part = "rest")
    BY <1>4, <1>6, <1>7, <1>9
  <1> QED BY <1>8, <1>9

Account(s) == Written(s) \cup lost[s] \cup Elements(queue[s]) \cup Elements(batch[s])

\* Entries only move between the queue, the batch, the file and the lost ones.
LEMMA AccountStep ==
    ASSUME TypeOK, HalfAtEnd, UnloadedIdle, StopsDrained, InOrder, [Next]_vars, NEW t \in Shell,
           loadOk'[t]
    PROVE  \/ /\ loadOk[t] /\ entered'[t] = entered[t] /\ Account(t)' = Account(t)
           \/ /\ loadOk[t] /\ entered'[t] = entered[t] + 1
              /\ Account(t)' = Account(t) \cup {entered[t] + 1}
           \/ /\ ~loadOk[t] /\ entered'[t] = 0 /\ Account(t)' = {}
  <1>1. /\ queue[t] \in Seq(Number) /\ batch[t] \in Seq(Number) /\ entered[t] \in Nat
        /\ loadOk[t] \in BOOLEAN
    BY DEF TypeOK
  <1>2. ASSUME file' = file PROVE Written(t)' = Written(t)
    BY <1>2 DEF Written
  <1>3. CASE /\ loadOk' = loadOk /\ entered'[t] = entered[t] /\ queue'[t] = queue[t]
             /\ batch'[t] = batch[t] /\ lost'[t] = lost[t] /\ Written(t)' = Written(t)
    BY <1>1, <1>3 DEF Account
  <1>4. CASE UNCHANGED vars \/ ForeignLock \/ ForeignUnlock
    BY <1>2, <1>3, <1>4 DEF vars, ForeignLock, ForeignUnlock, mainVars, workerVars
  <1>5. CASE LoadOk(t)
    <2>1. main[t] = "new" /\ UNCHANGED <<entered, queue, batch, file, lost>>
      BY <1>5 DEF LoadOk, diskVars
    <2>2. NoTrace(t) /\ entered[t] = 0 /\ lost[t] = {} /\ batch[t] = <<>>
      BY <2>1 DEF UnloadedIdle, StopsDrained, NoTrace
    <2>3. Written(t) = {} /\ Elements(queue[t]) = {} /\ Elements(batch[t]) = {}
      BY <2>2, EmptyElements DEF Written, NoTrace
    <2> QED BY <1>1, <1>2, <2>1, <2>2, <2>3 DEF Account, NoTrace
  <1>6. CASE Enqueue(t)
    <2>1. /\ entered'[t] = entered[t] + 1 /\ UNCHANGED <<loadOk, batch, file>>
          /\ loadOk[t]
      BY <1>1, <1>6, EnqueueEffect DEF TypeOK
    <2>2. PICK rest \in Seq(Number), dropped \in SUBSET Number :
             /\ queue' = [queue EXCEPT ![t] = Append(rest, entered[t] + 1)]
             /\ lost' = [lost EXCEPT ![t] = @ \cup dropped]
             /\ Elements(queue[t]) = Elements(rest) \cup dropped
             /\ Increasing(rest)
      BY <1>6, <2>1, EnqueueEffect
    <2>3. queue'[t] = Append(rest, entered[t] + 1) /\ lost'[t] = lost[t] \cup dropped
      BY <2>2 DEF TypeOK
    <2>4. Elements(queue'[t]) = Elements(rest) \cup {entered[t] + 1}
      <3>1. entered[t] + 1 \in Number
        BY <1>1 DEF Number
      <3> QED BY <2>3, <3>1, AppendElements
    <2> QED BY <1>2, <2>1, <2>2, <2>3, <2>4 DEF Account
  <1>7. ASSUME NEW s \in Shell, LoadOk(s) \/ Enqueue(s), s # t
        PROVE  /\ loadOk'[t] = loadOk[t] /\ entered'[t] = entered[t] /\ queue'[t] = queue[t]
               /\ batch'[t] = batch[t] /\ lost'[t] = lost[t] /\ file' = file
    BY <1>7 DEF LoadOk, Enqueue, GiveUp, workerVars, diskVars, TypeOK
  <1>8. ASSUME NEW s \in Shell, \/ LoadFails(s) \/ ShutdownBegin(s) \/ ShutdownJoin(s)
                                \/ ShutdownTimeout(s)
        PROVE  /\ loadOk' = loadOk /\ entered'[t] = entered[t] /\ queue'[t] = queue[t]
               /\ batch'[t] = batch[t] /\ lost'[t] = lost[t] /\ file' = file
    BY <1>8 DEF LoadFails, ShutdownBegin, ShutdownJoin, ShutdownTimeout, workerVars, diskVars
  <1>9. ASSUME NEW s \in Shell, End(s)
        PROVE  loadOk[t] /\ entered'[t] = entered[t] /\ Account(t)' = Account(t)
    <2>1. loadOk' = loadOk /\ entered' = entered /\ file' = file
      BY <1>9 DEF End
    <2>2. CASE s = t
      <3>1. /\ queue'[t] = <<>> /\ batch'[t] = <<>>
            /\ lost'[t] = lost[t] \cup (Elements(queue[t]) \cup Elements(batch[t]))
        BY <1>9, <2>2 DEF End, GiveUp, TypeOK
      <3> QED BY <1>2, <2>1, <3>1, EmptyElements DEF Account
    <2>3. CASE s # t
      <3>1. queue'[t] = queue[t] /\ batch'[t] = batch[t] /\ lost'[t] = lost[t]
        BY <1>9, <2>3 DEF End, GiveUp, TypeOK
      <3> QED BY <1>2, <2>1, <3>1 DEF Account
    <2> QED BY <2>2, <2>3
  <1>10. ASSUME NEW s \in Shell, Write(s) \/ LockFails(s) \/ TakeLock(s)
         PROVE  loadOk[t] /\ entered'[t] = entered[t] /\ Account(t)' = Account(t)
    <2>1. loadOk' = loadOk /\ entered' = entered
      BY <1>10 DEF Write, LockFails, TakeLock, TakeBatch, Open, OpenFails, LockTimeout, Abandon,
            WritePart, WriteRest, WriteFails, Unlock, mainVars
    <2>2. CASE TakeBatch(s)
      <3>1. file' = file /\ lost' = lost /\ worker[s] = "waiting"
            /\ batch' = [batch EXCEPT ![s] = queue[s]] /\ queue' = [queue EXCEPT ![s] = <<>>]
        BY <2>2 DEF TakeBatch, diskVars
      <3>2. batch[s] = <<>>
        BY <3>1 DEF StopsDrained
      <3>3. Elements(queue'[t]) \cup Elements(batch'[t]) = Elements(queue[t]) \cup Elements(batch[t])
        BY <3>1, <3>2, EmptyElements DEF TypeOK
      <3> QED BY <1>2, <2>1, <3>1, <3>3 DEF Account
    <2>3. CASE Open(s) \/ Unlock(s) \/ TakeLock(s)
      <3>1. UNCHANGED <<file, lost, queue, batch>>
        BY <2>3 DEF Open, Unlock, TakeLock, diskVars
      <3> QED BY <1>2, <2>1, <3>1 DEF Account
    <2>4. CASE Abandon(s)
      <3>1. file' = file /\ queue' = queue /\ batch' = [batch EXCEPT ![s] = <<>>]
            /\ lost' = [lost EXCEPT ![s] = @ \cup Elements(batch[s])]
        BY <2>4 DEF Abandon, GiveUp, diskVars
      <3>2. lost'[t] \cup Elements(batch'[t]) = lost[t] \cup Elements(batch[t])
        BY <3>1, EmptyElements DEF TypeOK
      <3> QED BY <1>2, <2>1, <3>1, <3>2 DEF Account
    <2>5. CASE WritePart(s)
      <3>1. /\ UNCHANGED <<queue, batch, lost>> /\ batch[s] # <<>>
            /\ file' = Append(file, Piece(s, "first"))
        BY <2>5 DEF WritePart
      <3>2. Written(t)' = Written(t)
        BY <3>1, WrittenStep
      <3> QED BY <2>1, <3>1, <3>2 DEF Account
    <2>6. CASE WriteRest(s)
      <3>1. /\ UNCHANGED <<queue, lost>> /\ batch[s] # <<>>
            /\ file' = Append(file, Piece(s, "rest")) /\ batch' = [batch EXCEPT ![s] = Tail(@)]
        BY <2>6 DEF WriteRest, HalfAtEnd
      <3>2. Elements(batch[s]) = Elements(Tail(batch[s])) \cup {Head(batch[s])}
        BY <3>1, TailElements DEF TypeOK
      <3>3. CASE s = t
        <4>1. batch'[t] = Tail(batch[t]) /\ Written(t)' = Written(t) \cup {Head(batch[t])}
          BY <3>1, <3>3, WrittenStep DEF TypeOK
        <4> QED BY <2>1, <3>1, <3>2, <3>3, <4>1 DEF Account
      <3>4. CASE s # t
        <4>1. batch'[t] = batch[t] /\ Written(t)' = Written(t)
          BY <3>1, <3>4, WrittenStep DEF TypeOK
        <4> QED BY <2>1, <3>1, <4>1 DEF Account
      <3> QED BY <3>3, <3>4
    <2>7. CASE WriteFails(s)
      <3>1. /\ UNCHANGED <<queue, file>> /\ batch[s] # <<>>
            /\ batch' = [batch EXCEPT ![s] = Tail(@)]
            /\ lost' = [lost EXCEPT ![s] = @ \cup {Head(batch[s])}]
        BY <2>7 DEF WriteFails, GiveUp, diskVars
      <3>2. Elements(batch[s]) = Elements(Tail(batch[s])) \cup {Head(batch[s])}
        BY <3>1, TailElements DEF TypeOK
      <3>3. lost'[t] \cup Elements(batch'[t]) = lost[t] \cup Elements(batch[t])
        BY <3>1, <3>2 DEF TypeOK
      <3> QED BY <1>2, <2>1, <3>1, <3>3 DEF Account
    <2> QED BY <1>10, <2>2, <2>3, <2>4, <2>5, <2>6, <2>7
            DEF Write, LockFails, OpenFails, LockTimeout
  <1> QED BY <1>1, <1>2, <1>3, <1>4, <1>5, <1>6, <1>7, <1>8, <1>9, <1>10
          DEF Next, Main, Leave, Exit, Kill, Account

LEMMA AccountedStep ==
    ASSUME TypeOK, HalfAtEnd, UnloadedIdle, StopsDrained, InOrder, Accounted, StopsDrained',
           [Next]_vars
    PROVE  Accounted'
  <1>1. ASSUME NEW t \in Shell, loadOk'[t] PROVE 1..entered'[t] = Account(t)'
    <2>1. entered[t] \in Nat /\ (loadOk[t] => 1..entered[t] = Account(t))
      BY DEF TypeOK, Accounted, Account
    <2>2. 1..(entered[t] + 1) = (1..entered[t]) \cup {entered[t] + 1} /\ 1..0 = {}
      BY <2>1
    <2> QED BY <1>1, <2>1, <2>2, AccountStep
  <1>2. \A t \in Shell : worker'[t] = "done" => queue'[t] = <<>> /\ batch'[t] = <<>>
    BY DEF StopsDrained
  <1> QED BY <1>1, <1>2 DEF Accounted, Account

-----------------------------------------------------------------------------
(* The entries written to their end, in the order of their ends.           *)

LEMMA EndsFinite ==
    ASSUME NEW f \in Seq(FilePiece)
    PROVE  /\ EndsIn(f) \subseteq 1..Len(f) /\ IsFiniteSet(EndsIn(f))
           /\ Cardinality(EndsIn(f)) \in Nat
           /\ \A p : /\ IsFiniteSet({q \in EndsIn(f) : q <= p})
                     /\ Rank(f, p) \in Nat /\ Rank(f, p) <= Cardinality(EndsIn(f))
  <1>1. Len(f) \in Nat /\ EndsIn(f) \in SUBSET (1..Len(f))
    BY DEF EndsIn
  <1>2. IsFiniteSet(1..Len(f))
    BY <1>1, FS_Interval
  <1>3. IsFiniteSet(EndsIn(f))
    BY <1>1, <1>2, FS_Subset
  <1>4. Cardinality(EndsIn(f)) \in Nat
    BY <1>3, FS_CardinalityType
  <1>5. ASSUME NEW p
        PROVE  /\ IsFiniteSet({q \in EndsIn(f) : q <= p})
               /\ Rank(f, p) \in Nat /\ Rank(f, p) <= Cardinality(EndsIn(f))
    <2> DEFINE below == {q \in EndsIn(f) : q <= p}
    <2>1. below \in SUBSET EndsIn(f)
      OBVIOUS
    <2>2. IsFiniteSet(below) /\ Cardinality(below) <= Cardinality(EndsIn(f))
      BY <1>3, <2>1, FS_Subset
    <2>3. Cardinality(below) \in Nat
      BY <2>2, FS_CardinalityType
    <2> QED BY <2>2, <2>3 DEF Rank
  <1> QED BY <1>1, <1>3, <1>4, <1>5

\* The k-th end exists, for every k up to their number: ranks are distinct, and at least 1.
LEMMA RanksAttained ==
    ASSUME NEW f \in Seq(FilePiece), NEW k \in 1..Cardinality(EndsIn(f))
    PROVE  EndAt(f, k) \in EndsIn(f) /\ Rank(f, EndAt(f, k)) = k
  <1> DEFINE E == EndsIn(f)
             n == Cardinality(E)
             r == [p \in E |-> Rank(f, p)]
  <1>1. E \subseteq Nat /\ IsFiniteSet(E) /\ n \in Nat
    <2>1. 1..Len(f) \subseteq Nat
      OBVIOUS
    <2> QED BY <2>1, EndsFinite
  <1>2. ASSUME NEW p \in E PROVE Rank(f, p) \in 1..n
    <2>1. p \in {q \in E : q <= p}
      BY <1>1
    <2>2. Rank(f, p) # 0
      BY <2>1, EndsFinite, FS_EmptySet DEF Rank
    <2>3. Rank(f, p) \in Nat /\ Rank(f, p) <= n
      BY EndsFinite
    <2> QED BY <1>1, <2>2, <2>3
  <1>3. ASSUME NEW p \in E, NEW q \in E, p < q PROVE Rank(f, p) # Rank(f, q)
    <2> DEFINE P == {x \in E : x <= p}
               Q == {x \in E : x <= q}
    <2>1. P \in SUBSET Q /\ q \in Q /\ q \notin P
      BY <1>1, <1>3
    <2>2. IsFiniteSet(Q)
      BY EndsFinite
    <2>3. Cardinality(Q) # Cardinality(P)
      BY <2>1, <2>2, FS_Subset
    <2> QED BY <2>3 DEF Rank
  <1>4. r \in [E -> 1..n]
    BY <1>2
  <1>5. \A p, q \in E : r[p] = r[q] => p = q
    <2> SUFFICES ASSUME NEW p \in E, NEW q \in E, r[p] = r[q], p # q PROVE FALSE
      OBVIOUS
    <2>1. p < q \/ q < p
      BY <1>1
    <2>2. Rank(f, p) = Rank(f, q)
      OBVIOUS
    <2> QED BY <2>1, <2>2, <1>3
  <1> HIDE DEF r, n, E
  <1>6. r \in Injection(E, 1..n)
    BY <1>4, <1>5 DEF Injection, IsInjective
  <1>7. IsFiniteSet(1..n) /\ Cardinality(1..n) = n
    BY <1>1, FS_Interval
  <1>8. r \in Surjection(E, 1..n)
    BY <1>6, <1>7, FS_Injection DEF n
  <1>9. \E p \in E : r[p] = k
    BY <1>8 DEF Surjection, n, E
  <1>10. Ranked(f, k) # {}
    BY <1>9 DEF Ranked, r, E
  <1>11. EndAt(f, k) \in Ranked(f, k)
    BY <1>10 DEF EndAt
  <1> QED BY <1>11 DEF Ranked

LEMMA LogType ==
    ASSUME NEW f \in Seq(FilePiece)
    PROVE  LogOf(f) \in Seq(Log!Entry) /\ Len(LogOf(f)) = Cardinality(EndsIn(f))
  <1> DEFINE n == Cardinality(EndsIn(f))
             e(i) == [shell |-> f[EndAt(f, i)].shell, seq |-> f[EndAt(f, i)].seq]
  <1>1. n \in Nat
    BY EndsFinite
  <1>2. ASSUME NEW i \in 1..n PROVE e(i) \in Log!Entry
    <2>1. EndAt(f, i) \in 1..Len(f)
      BY RanksAttained, EndsFinite
    <2>2. f[EndAt(f, i)] \in FilePiece
      BY <2>1
    <2> QED BY <2>2 DEF FilePiece, Number, Log!Entry
  <1>3. LogOf(f) = [i \in 1..n |-> e(i)]
    BY DEF LogOf
  <1> HIDE DEF n, e
  <1>4. LogOf(f) \in [1..n -> Log!Entry]
    BY <1>2, <1>3
  <1> QED BY <1>1, <1>4 DEF n

\* The first part of an entry is no end.
LEMMA FirstIsNoEnd ==
    ASSUME NEW f \in Seq(FilePiece), NEW p \in FilePiece, p.part = "first"
    PROVE  LogOf(Append(f, p)) = LogOf(f)
  <1> DEFINE g == Append(f, p)
  <1>1. /\ Len(f) \in Nat /\ Len(g) = Len(f) + 1 /\ g[Len(f) + 1] = p
        /\ \A i \in 1..Len(f) : g[i] = f[i]
    OBVIOUS
  <1> HIDE DEF g
  <1>2. EndsIn(g) = EndsIn(f)
    BY <1>1 DEF EndsIn
  <1>3. \A k : EndAt(g, k) = EndAt(f, k)
    BY <1>2 DEF EndAt, Ranked, Rank
  <1>4. ASSUME NEW k \in 1..Cardinality(EndsIn(f)) PROVE g[EndAt(g, k)] = f[EndAt(f, k)]
    <2>1. EndAt(f, k) \in 1..Len(f)
      BY RanksAttained, EndsFinite
    <2> QED BY <1>1, <1>3, <2>1
  <1>5. LogOf(g) = LogOf(f)
    BY <1>2, <1>4 DEF LogOf
  <1> QED BY <1>5 DEF g

\* The rest of an entry is the next end.
LEMMA RestIsNextEnd ==
    ASSUME NEW f \in Seq(FilePiece), NEW p \in FilePiece, p.part = "rest"
    PROVE  LogOf(Append(f, p)) = Append(LogOf(f), [shell |-> p.shell, seq |-> p.seq])
  <1> DEFINE g == Append(f, p)
             last == Len(f) + 1
             n == Cardinality(EndsIn(f))
             entry == [shell |-> p.shell, seq |-> p.seq]
             longer == Append(LogOf(f), entry)
  <1>1. /\ g \in Seq(FilePiece) /\ Len(f) \in Nat /\ Len(g) = last /\ g[last] = p
        /\ \A i \in 1..Len(f) : g[i] = f[i]
    OBVIOUS
  <1>2. EndsIn(f) \subseteq 1..Len(f) /\ IsFiniteSet(EndsIn(f)) /\ n \in Nat
    BY EndsFinite
  <1> HIDE DEF g, n
  <1>3. EndsIn(g) = EndsIn(f) \cup {last} /\ last \notin EndsIn(f)
    <2>1. \A i \in 1..last : i \in EndsIn(g) <=> i \in EndsIn(f) \/ i = last
      BY <1>1 DEF EndsIn
    <2> QED BY <1>1, <1>2, <2>1 DEF EndsIn
  <1>4. Cardinality(EndsIn(g)) = n + 1
    BY <1>2, <1>3, FS_AddElement DEF n
  <1>5. ASSUME NEW q \in EndsIn(f) PROVE Rank(g, q) = Rank(f, q)
    <2>1. q \in Nat /\ q < last
      BY <1>1, <1>2
    <2>2. {x \in EndsIn(g) : x <= q} = {x \in EndsIn(f) : x <= q}
      BY <1>1, <1>3, <2>1
    <2> QED BY <2>2 DEF Rank
  <1>6. Rank(g, last) = n + 1
    <2>1. \A x \in EndsIn(g) : x <= last
      BY <1>1, <1>2, <1>3
    <2>2. {x \in EndsIn(g) : x <= last} = EndsIn(g)
      BY <2>1
    <2> QED BY <1>4, <2>2 DEF Rank
  <1>7. ASSUME NEW k \in 1..n
        PROVE  EndAt(g, k) = EndAt(f, k) /\ EndAt(f, k) \in 1..Len(f)
    <2>1. k # n + 1
      BY <1>2
    <2>2. Ranked(g, k) = Ranked(f, k)
      BY <1>3, <1>5, <1>6, <2>1 DEF Ranked
    <2>3. EndAt(f, k) \in EndsIn(f)
      BY RanksAttained DEF n
    <2> QED BY <1>2, <2>2, <2>3 DEF EndAt
  <1>8. EndAt(g, n + 1) = last
    <2>1. \A q \in EndsIn(f) : Rank(g, q) # n + 1
      <3>1. \A q : Rank(f, q) \in Nat /\ Rank(f, q) <= n
        BY EndsFinite DEF n
      <3> QED BY <1>2, <1>5, <3>1
    <2>2. Ranked(g, n + 1) = {last}
      BY <1>3, <1>6, <2>1 DEF Ranked
    <2> QED BY <2>2 DEF EndAt
  <1>9. LogOf(g) \in Seq(Log!Entry) /\ Len(LogOf(g)) = n + 1
    BY <1>1, <1>4, LogType
  <1>10. LogOf(f) \in Seq(Log!Entry) /\ Len(LogOf(f)) = n
    BY LogType DEF n
  <1>11. entry \in Log!Entry
    BY DEF FilePiece, Number, Log!Entry
  <1> HIDE DEF entry
  <1>12. /\ longer \in Seq(Log!Entry) /\ Len(longer) = n + 1 /\ longer[n + 1] = entry
         /\ \A i \in 1..n : longer[i] = LogOf(f)[i]
    BY <1>10, <1>11, AppendProperties
  <1> HIDE DEF longer
  <1>13. \A k \in 1..n : LogOf(g)[k] = LogOf(f)[k]
    <2> SUFFICES ASSUME NEW k \in 1..n PROVE LogOf(g)[k] = LogOf(f)[k]
      OBVIOUS
    <2>1. k \in 1..(n + 1)
      BY <1>2
    <2>2. LogOf(g)[k] = [shell |-> g[EndAt(g, k)].shell, seq |-> g[EndAt(g, k)].seq]
      BY <1>4, <2>1 DEF LogOf
    <2>3. LogOf(f)[k] = [shell |-> f[EndAt(f, k)].shell, seq |-> f[EndAt(f, k)].seq]
      BY DEF LogOf, n
    <2>4. g[EndAt(g, k)] = f[EndAt(f, k)]
      BY <1>1, <1>7
    <2> QED BY <2>2, <2>3, <2>4
  <1>14. LogOf(g)[n + 1] = entry
    <2>1. n + 1 \in 1..(n + 1)
      BY <1>2
    <2> QED BY <1>1, <1>4, <1>8, <2>1 DEF LogOf, entry
  <1>15. \A i \in 1..Len(LogOf(g)) : LogOf(g)[i] = longer[i]
    BY <1>2, <1>9, <1>12, <1>13, <1>14
  <1>16. LogOf(g) = longer
    BY <1>9, <1>12, <1>15, SeqEqual
  <1> QED BY <1>16 DEF g, longer, entry

-----------------------------------------------------------------------------
(* Every step is a step of HistoryLog, or none.                            *)

Outbox == [s \in Shell |-> Elements(queue[s]) \cup Elements(batch[s])]

LEMMA LogStutters ==
    ASSUME entered' = entered, Outbox' = Outbox, LogOf(file)' = LogOf(file)
    PROVE  UNCHANGED Log!logVars
  BY DEF Outbox, Log!logVars

\* Entries of one shell are taken off its queue or its batch and not written.
LEMMA LogLoses ==
    ASSUME NEW s \in Shell, entered' = entered, file' = file,
           \A t \in Shell \ {s} : queue'[t] = queue[t] /\ batch'[t] = batch[t],
           Elements(queue'[s]) \cup Elements(batch'[s])
               \subseteq Elements(queue[s]) \cup Elements(batch[s])
    PROVE  Log!Lose(s)
  <1> DEFINE kept == Elements(queue'[s]) \cup Elements(batch'[s])
  <1>1. LogOf(file)' = LogOf(file)
    OBVIOUS
  <1>2. Outbox' = [Outbox EXCEPT ![s] = kept]
    BY DEF Outbox
  <1>3. kept \in SUBSET Outbox[s]
    BY DEF Outbox
  <1> HIDE DEF kept
  <1>4. \E k \in SUBSET Outbox[s] : Outbox' = [Outbox EXCEPT ![s] = k]
    BY <1>2, <1>3
  <1> QED BY <1>1, <1>4 DEF Log!Lose, Outbox

LEMMA LogSubmits ==
    ASSUME TypeOK, InOrder, NEW s \in Shell, Enqueue(s)
    PROVE  Log!Submit(s)
  <1>1. /\ entered' = [entered EXCEPT ![s] = @ + 1] /\ entered'[s] = entered[s] + 1
        /\ entered[s] + 1 \in Number
        /\ batch' = batch /\ file' = file
    BY EnqueueEffect DEF TypeOK, Number
  <1> DEFINE kept == Elements(queue'[s]) \cup Elements(batch'[s])
  <1>2. /\ \A t \in Shell \ {s} : queue'[t] = queue[t]
        /\ kept \subseteq Outbox[s] \cup {entered'[s]}
    <2>1. CASE UNCHANGED queue
      BY <1>1, <2>1 DEF Outbox
    <2>2. ASSUME NEW rest \in Seq(Number), NEW dropped,
                 queue' = [queue EXCEPT ![s] = Append(rest, entered[s] + 1)],
                 Elements(queue[s]) = Elements(rest) \cup dropped
          PROVE  /\ \A t \in Shell \ {s} : queue'[t] = queue[t]
                 /\ kept \subseteq Outbox[s] \cup {entered'[s]}
      <3>1. queue'[s] = Append(rest, entered[s] + 1) /\ \A t \in Shell \ {s} : queue'[t] = queue[t]
        BY <2>2 DEF TypeOK
      <3>2. Elements(queue'[s]) = Elements(rest) \cup {entered[s] + 1}
        BY <1>1, <3>1, AppendElements
      <3> QED BY <1>1, <2>2, <3>1, <3>2 DEF Outbox
    <2> QED BY <2>1, <2>2, EnqueueEffect
  <1>3. Outbox' = [Outbox EXCEPT ![s] = kept]
    BY <1>1, <1>2 DEF Outbox
  <1> HIDE DEF kept
  <1>4. \E k \in SUBSET (Outbox[s] \cup {entered'[s]}) : Outbox' = [Outbox EXCEPT ![s] = k]
    BY <1>2, <1>3
  <1>5. LogOf(file)' = LogOf(file)
    BY <1>1
  <1> QED BY <1>1, <1>4, <1>5 DEF Log!Submit, Outbox

\* The rest of an entry is written: it is the oldest of its shell.
LEMMA LogPersists ==
    ASSUME TypeOK, HalfAtEnd, InOrder, NEW s \in Shell, WriteRest(s)
    PROVE  Log!Persist(s)
  <1> DEFINE n == Head(batch[s])
  <1>1. /\ UNCHANGED <<entered, queue>> /\ batch[s] # <<>>
        /\ file' = Append(file, Piece(s, "rest")) /\ batch' = [batch EXCEPT ![s] = Tail(@)]
    BY DEF WriteRest, HalfAtEnd, mainVars
  <1>2. /\ queue[s] \in Seq(Number) /\ batch[s] \in Seq(Number) /\ Increasing(batch[s])
        /\ file \in Seq(FilePiece) /\ batch'[s] = Tail(batch[s])
        /\ \A t \in Shell \ {s} : batch'[t] = batch[t]
    BY <1>1 DEF TypeOK, InOrder, FilePiece
  <1>3. n \in Number /\ n \in Elements(batch[s])
    BY <1>1, <1>2, TailType, TailElements
  <1>4. Piece(s, "rest") \in FilePiece /\ Piece(s, "rest").part = "rest"
        /\ Piece(s, "rest").shell = s /\ Piece(s, "rest").seq = n
    BY <1>3 DEF Piece, FilePiece
  <1>5. LogOf(file)' = Append(LogOf(file), [shell |-> s, seq |-> n])
    BY <1>1, <1>2, <1>4, RestIsNextEnd
  <1>6. \A m \in Outbox[s] : n <= m
    <2>1. \A m \in Elements(batch[s]) : n <= m
      BY <1>1, <1>2, TailElements
    <2>2. \A m \in Elements(queue[s]) : m \in Number /\ n < m
      BY <1>2, <1>3, ElementsType DEF InOrder
    <2>3. \A m \in Elements(queue[s]) : n <= m
      BY <1>3, <2>2 DEF Number
    <2> QED BY <2>1, <2>3 DEF Outbox
  <1>7. Elements(queue[s]) \cup Elements(Tail(batch[s])) = Outbox[s] \ {n}
    <2>1. n \notin Elements(queue[s])
      <3>1. \A m \in Elements(queue[s]) : n < m
        BY <1>3 DEF InOrder
      <3>2. n \in Nat
        BY <1>3 DEF Number
      <3> QED BY <3>1, <3>2
    <2>2. /\ Elements(batch[s]) = Elements(Tail(batch[s])) \cup {n}
          /\ n \notin Elements(Tail(batch[s]))
      BY <1>1, <1>2, TailElements
    <2> QED BY <2>1, <2>2 DEF Outbox
  <1>8. Outbox' = [Outbox EXCEPT ![s] = @ \ {n}]
    BY <1>1, <1>2, <1>7 DEF Outbox
  <1>9. n \in Outbox[s]
    BY <1>3 DEF Outbox
  <1> HIDE DEF n
  <1>10. \E m \in Outbox[s] :
            /\ \A k \in Outbox[s] : m <= k
            /\ LogOf(file)' = Append(LogOf(file), [shell |-> s, seq |-> m])
            /\ Outbox' = [Outbox EXCEPT ![s] = @ \ {m}]
            /\ entered' = entered
    BY <1>1, <1>5, <1>6, <1>8, <1>9
  <1> QED BY <1>10 DEF Log!Persist, Outbox

LEMMA LogStep ==
    ASSUME TypeOK, HalfAtEnd, InOrder, [Next]_vars
    PROVE  [Log!LogNext]_Log!logVars
  <1>1. ASSUME UNCHANGED <<entered, queue, batch, file>> PROVE UNCHANGED Log!logVars
    BY <1>1, LogStutters DEF Outbox
  <1>2. CASE UNCHANGED vars \/ ForeignLock \/ ForeignUnlock
    BY <1>1, <1>2 DEF vars, ForeignLock, ForeignUnlock, mainVars, workerVars
  <1>3. ASSUME NEW s \in Shell, Enqueue(s) PROVE Log!LogNext
    BY <1>3, LogSubmits DEF Log!LogNext
  <1>4. ASSUME NEW s \in Shell,
               \/ LoadOk(s) \/ LoadFails(s) \/ ShutdownBegin(s) \/ ShutdownJoin(s) \/ ShutdownTimeout(s)
               \/ Open(s) \/ TakeLock(s) \/ Unlock(s)
        PROVE  UNCHANGED Log!logVars
    BY <1>1, <1>4 DEF LoadOk, LoadFails, ShutdownBegin, ShutdownJoin, ShutdownTimeout, Open,
            TakeLock, Unlock, mainVars, workerVars, diskVars
  <1>5. ASSUME NEW s \in Shell, End(s) \/ TakeBatch(s) \/ Abandon(s) \/ WriteFails(s)
        PROVE  Log!LogNext
    <2>1. entered' = entered /\ file' = file
      BY <1>5 DEF End, TakeBatch, Abandon, WriteFails, mainVars, diskVars
    <2>2. \A t \in Shell \ {s} : queue'[t] = queue[t] /\ batch'[t] = batch[t]
      BY <1>5 DEF End, TakeBatch, Abandon, WriteFails, TypeOK
    <2>3. \/ queue'[s] = <<>> /\ batch'[s] = <<>>
          \/ queue'[s] = <<>> /\ batch'[s] = queue[s]
          \/ queue'[s] = queue[s] /\ batch'[s] = <<>>
          \/ queue'[s] = queue[s] /\ batch[s] # <<>> /\ batch'[s] = Tail(batch[s])
      BY <1>5 DEF End, TakeBatch, Abandon, WriteFails, TypeOK
    <2>4. batch[s] \in Seq(Number)
      BY DEF TypeOK
    <2>5. Elements(queue'[s]) \cup Elements(batch'[s])
              \subseteq Elements(queue[s]) \cup Elements(batch[s])
      BY <2>3, <2>4, EmptyElements, TailElements
    <2> QED BY <2>1, <2>2, <2>5, LogLoses DEF Log!LogNext
  <1>6. ASSUME NEW s \in Shell, WritePart(s) PROVE UNCHANGED Log!logVars
    <2>1. /\ UNCHANGED <<entered, queue, batch>> /\ batch[s] # <<>>
          /\ file' = Append(file, Piece(s, "first"))
      BY <1>6 DEF WritePart, mainVars
    <2>2. Head(batch[s]) \in Number
      BY <2>1, TailType DEF TypeOK
    <2>3. Piece(s, "first") \in FilePiece /\ Piece(s, "first").part = "first"
      BY <2>2 DEF Piece, FilePiece
    <2>4. LogOf(file)' = LogOf(file)
      BY <2>1, <2>3, FirstIsNoEnd DEF TypeOK, FilePiece
    <2> QED BY <2>1, <2>4, LogStutters DEF Outbox
  <1>7. ASSUME NEW s \in Shell, WriteRest(s) PROVE Log!LogNext
    BY <1>7, LogPersists DEF Log!LogNext
  <1> QED BY <1>2, <1>3, <1>4, <1>5, <1>6, <1>7
          DEF Next, Main, Leave, Exit, Kill, Write, OpenFails, LockTimeout, LockFails

-----------------------------------------------------------------------------
\* The inductive invariant.  WholeLines needs to know that a writer halfway
\* through an entry finds its first part at the end of the file, and that, in
\* turn, needs the lock.  Accounted needs to know that a batch is worked off
\* before the next is taken, and the refinement that the batch and the queue
\* are in order, so that what is written next is the oldest.
THEOREM InductiveInvariant == Spec => []IInv
  <1>1. Init => IInv
    <2> SUFFICES ASSUME Init PROVE IInv
      OBVIOUS
    <2>1. TypeOK
      BY CapAssumption DEF Init, TypeOK
    <2>2. WriterHasLock /\ HalfAtEnd
      BY DEF Init, WriterHasLock, HalfAtEnd
    <2>3. Len(file) = 0
      BY DEF Init
    <2>4. UnloadedIdle /\ WholeLines
      BY <2>3, LockAssumption DEF Init, UnloadedIdle, NoTrace, WholeLines
    <2>5. /\ StopsDrained
          /\ \A s \in Shell : queue[s] = <<>> /\ batch[s] = <<>> /\ loadOk[s] = FALSE
          /\ \A s \in Shell : worker[s] = "none"
      BY DEF Init, StopsDrained
    <2>6. InOrder
      BY <2>5, EmptyElements DEF InOrder
    <2>7. Accounted
      BY <2>5 DEF Accounted
    <2> QED BY <2>1, <2>2, <2>4, <2>5, <2>6, <2>7 DEF IInv
  <1>2. IInv /\ [Next]_vars => IInv'
    <2> SUFFICES ASSUME IInv, [Next]_vars PROVE IInv'
      OBVIOUS
    <2>1. TypeOK' /\ WriterHasLock' /\ HalfAtEnd' /\ UnloadedIdle' /\ WholeLines'
      BY TypeStep, LockStep, FileStep, UnloadedStep DEF IInv
    <2>2. StopsDrained' /\ InOrder'
      BY StopsDrainedStep, InOrderStep DEF IInv
    <2>3. Accounted'
      BY <2>2, AccountedStep DEF IInv
    <2> QED BY <2>1, <2>2, <2>3 DEF IInv
  <1> QED BY <1>1, <1>2, PTL DEF Spec

\* The variables keep their types, the queue and the batch their bound.
THEOREM TypeCorrect == Spec => []TypeOK
  <1>1. IInv => TypeOK
    BY DEF IInv
  <1> QED BY <1>1, InductiveInvariant, PTL

\* Entries are whole: nothing comes between the two writes of an entry, not
\* from another shell, and not when shells die in the middle of a write.
THEOREM LinesAreWhole == Spec => []WholeLines
  <1>1. IInv => WholeLines
    BY DEF IInv
  <1> QED BY <1>1, InductiveInvariant, PTL

\* A shell that failed to load the file never writes to it or locks it.
THEOREM FailedLoadIsReadOnly == Spec => []FailedLoadWritesNothing
  <1>1. IInv => FailedLoadWritesNothing
    BY DEF IInv, UnloadedIdle, NoTrace, FailedLoadWritesNothing
  <1> QED BY <1>1, InductiveInvariant, PTL

\* Every entry is in the file, on its way or given up for a reason the source
\* names, and a writer that was joined has drained its queue
\* (history-writer.h, 5).
THEOREM NothingForgotten == Spec => []Accounted
  <1>1. IInv => Accounted
    BY DEF IInv
  <1> QED BY <1>1, InductiveInvariant, PTL

\* The writer implements HistoryLog: whatever the shells, the threads, the
\* lock and the kernel do, the file is a log of whole entries, those of each
\* shell in the order they were entered.
THEOREM WriterImplementsLog == Spec => ImplementsLog
  <1>1. Init => Log!LogInit
    <2> SUFFICES ASSUME Init PROVE Log!LogInit
      OBVIOUS
    <2>1. EndsIn(file) = {}
      BY DEF Init, EndsIn
    <2>2. Cardinality(EndsIn(file)) = 0
      BY <2>1, FS_EmptySet
    <2>3. file \in Seq(FilePiece)
      BY DEF Init
    <2>4. LogOf(file) \in Seq(Log!Entry) /\ Len(LogOf(file)) = 0
      BY <2>2, <2>3, LogType
    <2>5. LogOf(file) = <<>>
      BY <2>4
    <2>6. [s \in Shell |-> Elements(queue[s]) \cup Elements(batch[s])] = [s \in Shell |-> {}]
      BY EmptyElements DEF Init
    <2> QED BY <2>5, <2>6 DEF Init, Log!LogInit
  <1>2. IInv /\ [Next]_vars => [Log!LogNext]_Log!logVars
    BY LogStep DEF IInv
  <1> QED BY <1>1, <1>2, InductiveInvariant, PTL DEF Spec, ImplementsLog, Log!LogSpec

LogP == INSTANCE HistoryLogProofs WITH
            log <- LogOf(file),
            submitted <- entered,
            outbox <- [s \in Shell |-> Elements(queue[s]) \cup Elements(batch[s])]

\* What follows of it: in the history file no entry overtakes an earlier one of its shell,
\* and none is there twice.
THEOREM EntriesInOrder == Spec => []Log!LogInOrder
  <1>1. Log!LogInit => LogP!LogInv
    BY LogP!LogInvHolds DEF Log!LogInit, LogP!LogInit
  <1>2. LogP!LogInv /\ [Log!LogNext]_Log!logVars => LogP!LogInv'
    BY LogP!LogInvHolds DEF Log!LogNext, LogP!LogNext, Log!logVars, LogP!logVars,
       Log!Submit, LogP!Submit, Log!Persist, LogP!Persist, Log!Lose, LogP!Lose
  <1>3. LogP!LogInv => Log!LogInOrder
    BY LogP!LogInvHolds DEF Log!LogInOrder, LogP!LogInOrder
  <1> QED BY <1>1, <1>2, <1>3, WriterImplementsLog, PTL DEF ImplementsLog, Log!LogSpec
=============================================================================
