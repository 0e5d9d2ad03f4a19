--------------------------- MODULE HistoryWriter ---------------------------
(***************************************************************************)
(* The asynchronous history writer (src/src/native/history-writer.cc).     *)
(*                                                                         *)
(* Several shells append to one file.  In each, the main thread loads the  *)
(* file, enqueues entries and shuts down, and a worker thread takes the    *)
(* queue as a batch and appends it under flock.  Each holds the mutex g_mu *)
(* for one short critical section at a time and never while it waits for   *)
(* the file, so a critical section is one action.                          *)
(*                                                                         *)
(* write may take an entry in two parts.  Opening, writing and the lock    *)
(* may fail or be held up by another program, any shell may be killed.     *)
(* Entries are numbered per shell; what their bytes are is HistoryCodec.   *)
(*                                                                         *)
(* "Fault:" marks a plausible mistake in the definition that follows it,   *)
(* for the mutation runs; it is no part of the model.                      *)
(***************************************************************************)
EXTENDS Integers, Sequences, FiniteSetsExt

CONSTANTS
    Shell,        \* the shells
    Nobody,       \* the owner of a free lock
    Foreign,      \* another program that locks the file
    QueueCap,     \* kQueueCap
    MaxEntries    \* bound on the entries the shells enter together

ASSUME LockAssumption == {Nobody, Foreign} \cap Shell = {} /\ Nobody # Foreign
ASSUME CapAssumption == QueueCap \in Nat \ {0} /\ MaxEntries \in Nat

VARIABLES
    main,     \* where the main thread of each shell is
    loadOk,   \* g_load_ok
    entered,  \* how many entries were passed to enqueue
    queue,    \* g_queue
    stop,     \* g_shutdown
    worker,   \* where the writer thread is
    hurry,    \* its shutting_down
    batch,    \* what is left of its batch
    lock,     \* who holds the flock
    file,     \* the parts of entries in the file
    lost      \* the entries given up, for whichever of the reasons below

mainVars   == <<main, loadOk, entered, stop>>
workerVars == <<worker, hurry, batch>>
diskVars   == <<lock, file>>
vars == <<main, loadOk, entered, queue, stop, worker, hurry, batch, lock, file, lost>>

Number == Nat \ {0}   \* of an entry

Elements(q) == {q[i] : i \in 1..Len(q)}
Piece(s, part) == [shell |-> s, seq |-> Head(batch[s]), part |-> part]
GiveUp(s, entries) == lost' = [lost EXCEPT ![s] = @ \cup entries]

-----------------------------------------------------------------------------
(* The main thread.                                                        *)

\* load: the file was read, or there is none yet.
LoadOk(s) ==
    /\ main[s] = "new"
    /\ main' = [main EXCEPT ![s] = "running"]
    /\ loadOk' = [loadOk EXCEPT ![s] = TRUE]
    /\ worker' = [worker EXCEPT ![s] = "waiting"]
    /\ UNCHANGED <<entered, queue, stop, hurry, batch, diskVars, lost>>

\* Fault: the writer is started all the same.
LoadFailsOpen(s) ==
    /\ main[s] = "new"
    /\ main' = [main EXCEPT ![s] = "failed"]
    /\ loadOk' = [loadOk EXCEPT ![s] = TRUE]
    /\ worker' = [worker EXCEPT ![s] = "waiting"]
    /\ UNCHANGED <<entered, queue, stop, hurry, batch, diskVars, lost>>

\* Any other error: no writer is started and enqueue stays switched off.
LoadFails(s) ==
    /\ main[s] = "new"
    /\ main' = [main EXCEPT ![s] = "failed"]
    /\ UNCHANGED <<loadOk, entered, queue, stop, workerVars, diskVars, lost>>

\* Fault: the bound is checked after the entry was added.
EnqueueLate(s) ==
    /\ main[s] \in {"running", "failed"}
    /\ MapThenSumSet(LAMBDA t : entered[t], Shell) < MaxEntries
    /\ entered' = [entered EXCEPT ![s] = @ + 1]
    /\ LET full == Len(queue[s]) > QueueCap
           rest == IF full THEN Tail(queue[s]) ELSE queue[s]
       IN IF loadOk[s]
          THEN /\ queue' = [queue EXCEPT ![s] = Append(rest, entered'[s])]
               /\ GiveUp(s, IF full THEN {Head(queue[s])} ELSE {})
          ELSE UNCHANGED <<queue, lost>>
    /\ UNCHANGED <<main, loadOk, stop, workerVars, diskVars>>

\* enqueue: a full queue gives up its oldest entry.
Enqueue(s) ==
    /\ main[s] \in {"running", "failed"}
    /\ MapThenSumSet(LAMBDA t : entered[t], Shell) < MaxEntries
    /\ entered' = [entered EXCEPT ![s] = @ + 1]
    /\ LET full == Len(queue[s]) >= QueueCap
           rest == IF full THEN Tail(queue[s]) ELSE queue[s]
       IN IF loadOk[s]
          THEN /\ queue' = [queue EXCEPT ![s] = Append(rest, entered'[s])]
               /\ GiveUp(s, IF full THEN {Head(queue[s])} ELSE {})
          ELSE UNCHANGED <<queue, lost>>
    /\ UNCHANGED <<main, loadOk, stop, workerVars, diskVars>>

\* shutdown(1000), from the exit handler of the REPL; nothing is done if no
\* writer was started.
ShutdownBegin(s) ==
    /\ \/ /\ main[s] = "running"
          /\ main' = [main EXCEPT ![s] = "stopping"]
          /\ stop' = [stop EXCEPT ![s] = TRUE]
       \/ /\ main[s] = "failed"
          /\ main' = [main EXCEPT ![s] = "leaving"]
          /\ UNCHANGED stop
    /\ UNCHANGED <<loadOk, entered, queue, workerVars, diskVars, lost>>

ShutdownJoin(s) ==
    /\ main[s] = "stopping"
    /\ worker[s] = "done"
    /\ main' = [main EXCEPT ![s] = "leaving"]
    /\ UNCHANGED <<loadOk, entered, queue, stop, workerVars, diskVars, lost>>

\* Fault: the writer is joined without a time limit.
ShutdownNoTimeout(s) ==
    /\ main[s] = "stopping"
    /\ worker[s] = "done"
    /\ main' = [main EXCEPT ![s] = "leaving"]
    /\ UNCHANGED <<loadOk, entered, queue, stop, workerVars, diskVars, lost>>

\* The time limit is over: the writer is detached and left to itself.
ShutdownTimeout(s) ==
    /\ main[s] = "stopping"
    /\ worker[s] # "done"
    /\ main' = [main EXCEPT ![s] = "leaving"]
    /\ UNCHANGED <<loadOk, entered, queue, stop, workerVars, diskVars, lost>>

\* The process ends, in the middle of whatever its writer is doing, and the
\* kernel releases its lock.
End(s) ==
    /\ main' = [main EXCEPT ![s] = "gone"]
    /\ worker' = [worker EXCEPT ![s] = "gone"]
    /\ lock' = IF lock = s THEN Nobody ELSE lock
    /\ queue' = [queue EXCEPT ![s] = <<>>]
    /\ batch' = [batch EXCEPT ![s] = <<>>]
    /\ GiveUp(s, Elements(queue[s]) \cup Elements(batch[s]))
    /\ UNCHANGED <<loadOk, entered, stop, hurry, file>>

Exit(s) == main[s] = "leaving" /\ End(s)
Kill(s) == main[s] \in {"running", "failed", "stopping"} /\ End(s)

-----------------------------------------------------------------------------
(* The writer thread.                                                      *)

\* Fault: a writer that is told to stop leaves its queue.
TakeBatchOrStop(s) ==
    /\ worker[s] = "waiting"
    /\ queue[s] # <<>> \/ stop[s]
    /\ batch' = [batch EXCEPT ![s] = IF stop[s] THEN <<>> ELSE queue[s]]
    /\ queue' = [queue EXCEPT ![s] = IF stop[s] THEN @ ELSE <<>>]
    /\ hurry' = [hurry EXCEPT ![s] = stop[s]]
    /\ worker' = [worker EXCEPT ![s] = IF stop[s] THEN "done" ELSE "opening"]
    /\ UNCHANGED <<mainVars, diskVars, lost>>

\* Fault: the queue is copied, not swapped.
TakeBatchCopy(s) ==
    /\ worker[s] = "waiting"
    /\ queue[s] # <<>> \/ stop[s]
    /\ batch' = [batch EXCEPT ![s] = queue[s]]
    /\ hurry' = [hurry EXCEPT ![s] = stop[s]]
    /\ worker' = [worker EXCEPT ![s] = IF queue[s] = <<>> THEN "done" ELSE "opening"]
    /\ UNCHANGED <<queue, mainVars, diskVars, lost>>

\* The wait on g_cv is over: take the queue, or stop if it is empty.
TakeBatch(s) ==
    /\ worker[s] = "waiting"
    /\ queue[s] # <<>> \/ stop[s]
    /\ batch' = [batch EXCEPT ![s] = queue[s]]
    /\ queue' = [queue EXCEPT ![s] = <<>>]
    /\ hurry' = [hurry EXCEPT ![s] = stop[s]]
    /\ worker' = [worker EXCEPT ![s] = IF queue[s] = <<>> THEN "done" ELSE "opening"]
    /\ UNCHANGED <<mainVars, diskVars, lost>>

Open(s) ==
    /\ worker[s] = "opening"
    /\ worker' = [worker EXCEPT ![s] = "locking"]
    /\ UNCHANGED <<mainVars, queue, hurry, batch, diskVars, lost>>

\* The batch is given up.
Abandon(s) ==
    /\ batch' = [batch EXCEPT ![s] = <<>>]
    /\ worker' = [worker EXCEPT ![s] = "waiting"]
    /\ GiveUp(s, Elements(batch[s]))
    /\ UNCHANGED <<mainVars, queue, hurry, diskVars>>

OpenFails(s) == worker[s] = "opening" /\ Abandon(s)

\* Fault: a shared lock.
TakeLockShared(s) ==
    /\ worker[s] = "locking"
    /\ lock # Foreign
    /\ lock' = s
    /\ worker' = [worker EXCEPT ![s] = "writing"]
    /\ UNCHANGED <<mainVars, queue, hurry, batch, file, lost>>

TakeLock(s) ==
    /\ worker[s] = "locking"
    /\ lock = Nobody
    /\ lock' = s
    /\ worker' = [worker EXCEPT ![s] = "writing"]
    /\ UNCHANGED <<mainVars, queue, hurry, batch, file, lost>>

\* The lock could not be had in time.  There is a time limit only for a batch
\* that was taken after shutdown began.
LockTimeout(s) ==
    /\ worker[s] = "locking"
    /\ hurry[s]
    /\ lock # Nobody
    /\ Abandon(s)

\* flock failed.
LockFails(s) == worker[s] = "locking" /\ Abandon(s)

WritePart(s) ==
    /\ worker[s] = "writing"
    /\ batch[s] # <<>>
    /\ file' = Append(file, Piece(s, "first"))
    /\ worker' = [worker EXCEPT ![s] = "halfway"]
    /\ UNCHANGED <<mainVars, queue, hurry, batch, lock, lost>>

WriteRest(s) ==
    /\ worker[s] = "halfway"
    /\ file' = Append(file, Piece(s, "rest"))
    /\ batch' = [batch EXCEPT ![s] = Tail(@)]
    /\ worker' = [worker EXCEPT ![s] = "writing"]
    /\ UNCHANGED <<mainVars, queue, hurry, lock, lost>>

\* write returned an error: on with the next entry of the batch.
WriteFails(s) ==
    /\ worker[s] \in {"writing", "halfway"}
    /\ batch[s] # <<>>
    /\ batch' = [batch EXCEPT ![s] = Tail(@)]
    /\ worker' = [worker EXCEPT ![s] = "writing"]
    /\ GiveUp(s, {Head(batch[s])})
    /\ UNCHANGED <<mainVars, queue, hurry, diskVars>>

\* Fault: the descriptor with the lock is leaked.
UnlockNot(s) ==
    /\ worker[s] = "writing"
    /\ batch[s] = <<>>
    /\ worker' = [worker EXCEPT ![s] = "waiting"]
    /\ UNCHANGED <<mainVars, queue, hurry, batch, diskVars, lost>>

Unlock(s) ==
    /\ worker[s] = "writing"
    /\ batch[s] = <<>>
    /\ lock' = Nobody
    /\ worker' = [worker EXCEPT ![s] = "waiting"]
    /\ UNCHANGED <<mainVars, queue, hurry, batch, file, lost>>

-----------------------------------------------------------------------------
(* Another program that locks the file, for as long as it likes.           *)

ForeignLock ==
    /\ lock = Nobody
    /\ lock' = Foreign
    /\ UNCHANGED <<mainVars, queue, workerVars, file, lost>>

ForeignUnlock ==
    /\ lock = Foreign
    /\ lock' = Nobody
    /\ UNCHANGED <<mainVars, queue, workerVars, file, lost>>

-----------------------------------------------------------------------------
Init ==
    /\ main = [s \in Shell |-> "new"]
    /\ loadOk = [s \in Shell |-> FALSE]
    /\ entered = [s \in Shell |-> 0]
    /\ queue = [s \in Shell |-> <<>>]
    /\ stop = [s \in Shell |-> FALSE]
    /\ worker = [s \in Shell |-> "none"]
    /\ hurry = [s \in Shell |-> FALSE]
    /\ batch = [s \in Shell |-> <<>>]
    /\ lock = Nobody
    /\ file = <<>>
    /\ lost = [s \in Shell |-> {}]

Main(s) == LoadOk(s) \/ LoadFails(s) \/ Enqueue(s) \/ ShutdownBegin(s)
Leave(s) == ShutdownJoin(s) \/ ShutdownTimeout(s) \/ Exit(s)
Write(s) == TakeBatch(s) \/ Open(s) \/ OpenFails(s) \/ LockTimeout(s)
            \/ WritePart(s) \/ WriteRest(s) \/ WriteFails(s) \/ Unlock(s)

Next == \/ \E s \in Shell : Main(s) \/ Leave(s) \/ Write(s) \/ TakeLock(s)
                          \/ LockFails(s) \/ Kill(s)
        \/ ForeignLock \/ ForeignUnlock

Spec == Init /\ [][Next]_vars

\* Threads run, and the kernel gives the lock in the end to a writer that
\* blocks on it, if it is free again and again.
FairSpec == /\ Spec
            /\ \A s \in Shell : /\ WF_vars(Leave(s))
                                /\ WF_vars(Write(s))
                                /\ SF_vars(TakeLock(s))

-----------------------------------------------------------------------------
(* Properties.                                                             *)

\* The values of the variables.
TypeOK ==
    /\ main \in [Shell -> {"new", "running", "failed", "stopping", "leaving", "gone"}]
    /\ loadOk \in [Shell -> BOOLEAN]
    /\ entered \in [Shell -> Nat]
    /\ queue \in [Shell -> Seq(Number)]
    /\ \A s \in Shell : Len(queue[s]) <= QueueCap /\ Len(batch[s]) <= QueueCap
    /\ stop \in [Shell -> BOOLEAN]
    /\ worker \in [Shell -> {"none", "waiting", "opening", "locking", "writing",
                             "halfway", "done", "gone"}]
    /\ hurry \in [Shell -> BOOLEAN]
    /\ batch \in [Shell -> Seq(Number)]
    /\ lock \in Shell \cup {Nobody, Foreign}
    /\ file \in Seq([shell : Shell, seq : Number, part : {"first", "rest"}])
    /\ lost \in [Shell -> SUBSET Number]

\* history-writer.h, 4: "two jsh instances can't interleave partial lines".
\* Whoever else writes and whoever is killed, the two parts of an entry that
\* was written to its end are next to each other.
WholeLines ==
    \A i \in 1..Len(file) :
        file[i].part = "rest" =>
            i > 1 /\ file[i - 1] = [file[i] EXCEPT !.part = "first"]

\* history-writer.h, 2: a shell that could not load the file never touches it.
FailedLoadWritesNothing ==
    \A s \in Shell :
        main[s] = "failed" => /\ queue[s] = <<>> /\ lock # s
                              /\ \A i \in 1..Len(file) : file[i].shell # s

Written(s) == {file[i].seq : i \in {j \in 1..Len(file) : file[j].shell = s
                                                         /\ file[j].part = "rest"}}

\* history-writer.h, 5: a shutdown in time drains the queue.  Every entry is
\* in the file, on its way, or was given up for one of the reasons the source
\* names; and nothing is on its way when the writer has been joined.
Accounted ==
    \A s \in Shell :
        /\ loadOk[s] => 1..entered[s] = Written(s) \cup lost[s]
                                        \cup Elements(queue[s]) \cup Elements(batch[s])
        /\ worker[s] = "done" => queue[s] = <<>> /\ batch[s] = <<>>

\* history-writer.h, 5: shutdown is bounded, also when another program never
\* releases the lock.
ShutdownReturns == \A s \in Shell : main[s] = "stopping" ~> main[s] = "gone"

\* An entry does not stay on its way for ever if other programs always give
\* the lock back.
Settled ==
    []<>(lock # Foreign) =>
        \A s \in Shell, n \in 1..MaxEntries :
            n \in Elements(queue[s]) \cup Elements(batch[s])
                ~> n \in Written(s) \cup lost[s]

\* HistoryLog is what this amounts to: the entries written to their end, in
\* the order of their ends.
EndsIn(f) == {i \in 1..Len(f) : f[i].part = "rest"}
Rank(f, p) == Cardinality({q \in EndsIn(f) : q <= p})
Ranked(f, i) == {p \in EndsIn(f) : Rank(f, p) = i}
EndAt(f, i) == CHOOSE p \in Ranked(f, i) : TRUE

LogOf(f) == [i \in 1..Cardinality(EndsIn(f)) |->
                [shell |-> f[EndAt(f, i)].shell, seq |-> f[EndAt(f, i)].seq]]

Log == INSTANCE HistoryLog WITH
           log <- LogOf(file),
           submitted <- entered,
           outbox <- [s \in Shell |-> Elements(queue[s]) \cup Elements(batch[s])]

ImplementsLog == Log!LogSpec

=============================================================================
