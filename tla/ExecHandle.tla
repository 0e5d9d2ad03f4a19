----------------------------- MODULE ExecHandle -----------------------------
(***************************************************************************)
(* jsh.exec (src/src/exec/index.ts): one ExecHandle, from its constructor  *)
(* to the promise of its result, with the loops that iterate over it.      *)
(*                                                                         *)
(* The coroutines of the handle share one thread and give it up only at an *)
(* await, so what runs from one await to the next is one action.  Every    *)
(* fs.read and fs.write blocks a thread of libuv's pool, which serves them *)
(* in the order they were submitted.  The command (external: the processes *)
(* of a pipeline, or what execute runs for a compound command) writes,     *)
(* closes its ends and dies in any order; background children of it may    *)
(* hold an end after its death.  A stage may be stopped instead.           *)
(*                                                                         *)
(* Output is a sequence of bytes: letters, newlines and the two bytes of a *)
(* longer character.  A text is what toString makes of bytes, a piece of a *)
(* character that stands alone being replaced.  Carriage returns at the    *)
(* ends of lines, which fdLineReader strips, are not modelled.             *)
(***************************************************************************)
EXTENDS Integers, SequencesExt

CONSTANTS
    Pool,       \* threads of libuv's pool that other work leaves to this handle
    Consumer,   \* the loops over the handle, of "stdout", "stderr" and "all"
    Output,     \* the texts a command may write to each stream, in whole or in part
    MaxChunks   \* bound on the chunks of an iterable stdin

\* Letters, newlines and the two bytes of a longer character.
Byte == {"x", "nl", "lead", "trail"}

ASSUME ExecAssumption ==
    /\ Pool \in Nat \ {0} /\ MaxChunks \in Nat \ {0}
    /\ Output \in [{"stdout", "stderr"} -> SUBSET Seq(Byte)]
    /\ Consumer \subseteq {"stdout", "stderr", "all"}

VARIABLES
    request,  \* the form of the command and its options
    pc,       \* where _run is
    pipe,     \* what is in the pipes of stdout and stderr
    writers,  \* who holds their write ends
    written,  \* everything the command wrote (history)
    alive,    \* the command has not ended
    stopped,  \* a process of it is stopped by a signal
    work,     \* the reads and writes submitted to the pool, oldest first
    reader,   \* readStdout and readStderr; cuts are the characters cut (history)
    feed,     \* feedStdinToFd
    records,  \* _records
    done,     \* _done
    iter      \* the loops over the handle

vars == <<request, pc, pipe, writers, written, alive, stopped, work, reader, feed,
          records, done, iter>>
commandVars == <<pipe, writers, written, alive, stopped>>
queueVars == <<records, done, iter>>

Stream == {"stdout", "stderr"}
Form == {"unparsable", "nothing", "compound", "redirected", "pipeline"}

\* The options, where the form looks at them; "merge" is "inherit" with one writer more
\* at the pipe of stdout.
Request ==
    {r \in [form: Form, stdin: {"none", "text", "stream"}, stderr: {"inherit", "pipe"}] :
        /\ r.form # "pipeline" => r.stdin = "none"
        /\ r.form \in {"unparsable", "nothing", "redirected"} => r.stderr = "inherit"}

\* A fold whose step is a function.
Fold(step, base, seq) ==
    LET upTo[n \in 0..Len(seq)] == IF n = 0 THEN base ELSE step[upTo[n - 1]][seq[n]]
    IN  upTo[Len(seq)]

Char == Byte \cup {"bad"}   \* "bad" is U+FFFD
Line == Seq(Char)
Record == [stream : Stream, line : Line]

\* A byte is kept by a decoder that stops after the bytes in cuts if it is a character,
\* or if the other byte of its character is beside it with no cut between them.
Kept(bytes, cuts, i) ==
    \/ bytes[i] \in {"x", "nl"}
    \/ bytes[i] = "lead" /\ i \notin cuts /\ i < Len(bytes) /\ bytes[i + 1] = "trail"
    \/ bytes[i] = "trail" /\ i > 1 /\ (i - 1) \notin cuts /\ bytes[i - 1] = "lead"

\* buf.slice(0, n).toString("utf8"): the two bytes of a character stand for it.
Decode(bytes, cuts) ==
    [i \in 1..Len(bytes) |-> IF Kept(bytes, cuts, i) THEN bytes[i] ELSE "bad"]

\* text.split("\n"): the last element is what follows the last newline.
SplitStep == [lines \in Seq(Line) |-> [c \in Char |->
                  IF c = "nl" THEN Append(lines, <<>>)
                              ELSE Append(Front(lines), Append(Last(lines), c))]]
Split(text) == Fold(SplitStep, << <<>> >>, text)

\* The lines of a text: the piece after the last newline is one if it is not empty.
LinesOf(text) == IF Last(Split(text)) = <<>> THEN Front(Split(text)) ELSE Split(text)
IsEmpty(line) == line = <<>>

\* replace(/\n+$/, ""): no empty lines at the end.
Trimmed(lines) ==
    SubSeq(lines, 1, Max({0} \cup {i \in DOMAIN lines : ~IsEmpty(lines[i])}))

\* lines.filter(l => l.length > 0)
NonEmpty(lines) ==
    Fold([found \in Seq(Line) |-> [l \in Line |-> IF IsEmpty(l) THEN found ELSE Append(found, l)]],
         <<>>, lines)

OfStream(s, recs) ==
    Fold([found \in Seq(Record) |-> [r \in Record |-> IF r.stream = s THEN Append(found, r) ELSE found]],
         <<>>, recs)
Lines(recs) == [i \in DOMAIN recs |-> recs[i].line]

-----------------------------------------------------------------------------
(* The record queue.                                                       *)

\* Both _pushRecord and _finish call every waiter.
Woken == [c \in Consumer |->
              IF iter[c].state = "waiting" THEN [iter[c] EXCEPT !.state = "ready"]
                                           ELSE iter[c]]

PushRecord(s, line) ==
    /\ records' = Append(records, [stream |-> s, line |-> line])
    /\ iter' = Woken

\* Fault: the waiters are not called.
FinishSilent ==
    /\ done' = TRUE
    /\ UNCHANGED iter

Finish ==
    /\ done' = TRUE
    /\ iter' = Woken

\* One turn of a loop over the handle: the next record, the end, or a new waiter.
IterStep(c) ==
    /\ iter[c].state = "ready"
    /\ iter' = [iter EXCEPT ![c] =
                    IF iter[c].i < Len(records) THEN [iter[c] EXCEPT !.i = iter[c].i + 1]
                    ELSE IF done                THEN [iter[c] EXCEPT !.state = "ended"]
                                                ELSE [iter[c] EXCEPT !.state = "waiting"]]
    /\ UNCHANGED <<request, pc, commandVars, work, reader, feed, records, done>>

\* What a loop has been given: the records up to i that it does not skip.
Given(c) ==
    LET seen == SubSeq(records, 1, iter[c].i)
    IN  IF c = "all" THEN seen ELSE OfStream(c, seen)

-----------------------------------------------------------------------------
(* The constructor: _run up to its first await after the pipes are open.   *)

Piped(s) == s = "stdout" \/ request.stderr = "pipe"
ReadTask(s) == [op |-> "read", stream |-> s]
WriteTask == [op |-> "write", stream |-> "stdin"]
ReadTasks == IF request.stderr = "pipe" THEN <<ReadTask("stdout"), ReadTask("stderr")>>
                                        ELSE <<ReadTask("stdout")>>
StartReaders ==
    reader' = [s \in Stream |-> [reader[s] EXCEPT !.state = IF Piped(s) THEN "reading" ELSE "closed"]]

\* parse or an expansion throws: the promise is rejected and nothing else happens.
RunThrows ==
    /\ pc = "new" /\ request.form = "unparsable"
    /\ pc' = "rejected"
    /\ UNCHANGED <<request, commandVars, work, reader, feed, queueVars>>

\* Nothing to run, or a first word that expands to nothing.
RunNothing ==
    /\ pc = "new" /\ request.form = "nothing"
    /\ pc' = "resolved"
    /\ Finish
    /\ UNCHANGED <<request, commandVars, work, reader, feed, records>>

\* With redirections native.captureOutput runs it, unless stdin or stderr is asked for.
Captured == request.form = "redirected" /\ request.stdin = "none" /\ request.stderr # "pipe"

RunCaptured ==
    /\ pc = "new" /\ Captured
    /\ pc' = "capturing"
    /\ writers' = [writers EXCEPT !["stdout"] = {"command"}]
    /\ alive' = TRUE
    /\ UNCHANGED <<request, pipe, written, stopped, work, reader, feed, queueVars>>

\* The fast path: pipes, stages and closing of the ends in one go.
RunStages ==
    /\ pc = "new" /\ request.form \in {"pipeline", "redirected"} /\ ~Captured
    /\ pc' = "running"
    /\ alive' = TRUE
    /\ writers' = [s \in Stream |-> IF Piped(s) THEN {"command"} ELSE {}]
    /\ feed' = CASE request.stdin = "none"   -> [feed EXCEPT !.state = "closed"]
                 [] request.stdin = "text"   -> [state |-> "writing", left |-> 0]
                 [] request.stdin = "stream" -> [state |-> "waiting", left |-> MaxChunks]
    /\ work' = (IF request.stdin = "text" THEN <<WriteTask>> ELSE <<>>) \o ReadTasks
    /\ StartReaders
    /\ UNCHANGED <<request, pipe, written, stopped, queueVars>>

\* _runCompound: this process holds the write ends too; stdin is not fed.
RunCompound ==
    /\ pc = "new" /\ request.form = "compound"
    /\ pc' = "executing"
    /\ alive' = TRUE
    /\ writers' = [s \in Stream |-> IF Piped(s) THEN {"command", "shell"} ELSE {}]
    /\ feed' = [feed EXCEPT !.state = "closed"]
    /\ work' = ReadTasks
    /\ StartReaders
    /\ UNCHANGED <<request, pipe, written, stopped, queueVars>>

-----------------------------------------------------------------------------
(* fdLineReader and the loops around it.                                   *)

\* Fault: another handle keeps a thread.
OneThreadLess(task) == \E i \in 1..Len(work) : i < Pool /\ work[i] = task

Running(task) == \E i \in 1..Len(work) : i <= Pool /\ work[i] = task

\* What a read of n bytes leaves: each read is decoded by itself, and what is left of the
\* one before is put in front of it.
CutAfter(s, n) ==
    IF pipe[s][n] = "lead" THEN {Len(written[s]) - Len(pipe[s]) + n} ELSE {}
AfterRead(r, lines, cut) ==
    [r EXCEPT !.rest = Last(lines), !.lines = Front(lines), !.state = "yielding",
              !.cuts = @ \cup cut]

\* Fault: what was left of the read before is forgotten.
ReadForgets(s) ==
    /\ reader[s].state = "reading" /\ Running(ReadTask(s))
    /\ \E n \in 1..Len(pipe[s]) :
           /\ pipe' = [pipe EXCEPT ![s] = SubSeq(@, n + 1, Len(@))]
           /\ reader' = [reader EXCEPT ![s] =
                  AfterRead(@, Split(Decode(SubSeq(pipe[s], 1, n), {})), CutAfter(s, n))]
    /\ work' = Remove(work, ReadTask(s))
    /\ UNCHANGED <<request, pc, writers, written, alive, stopped, feed, queueVars>>

\* fs.read returns what the pipe has, up to any point.
Read(s) ==
    /\ reader[s].state = "reading" /\ Running(ReadTask(s))
    /\ \E n \in 1..Len(pipe[s]) :
           /\ pipe' = [pipe EXCEPT ![s] = SubSeq(@, n + 1, Len(@))]
           /\ reader' = [reader EXCEPT ![s] =
                  AfterRead(@, Split(@.rest \o Decode(SubSeq(pipe[s], 1, n), {})), CutAfter(s, n))]
    /\ work' = Remove(work, ReadTask(s))
    /\ UNCHANGED <<request, pc, writers, written, alive, stopped, feed, queueVars>>

\* Every write end is closed: what is left without a newline is the last line.
ReadEnd(s) ==
    /\ reader[s].state = "reading" /\ Running(ReadTask(s))
    /\ pipe[s] = <<>> /\ writers[s] = {}
    /\ reader' = [reader EXCEPT ![s] = [@ EXCEPT !.rest = <<>>,
                                                 !.lines = IF IsEmpty(reader[s].rest) THEN <<>> ELSE <<reader[s].rest>>,
                                                 !.state = "ending"]]
    /\ work' = Remove(work, ReadTask(s))
    /\ UNCHANGED <<request, pc, commandVars, feed, queueVars>>

\* The body of for await: one line to the text and to the queue.
TakeLine(s) ==
    /\ reader[s].state \in {"yielding", "ending"} /\ reader[s].lines # <<>>
    /\ reader' = [reader EXCEPT ![s] = [@ EXCEPT !.text = Append(reader[s].text, Head(reader[s].lines)),
                                                 !.lines = Tail(reader[s].lines)]]
    /\ PushRecord(s, Head(reader[s].lines))
    /\ UNCHANGED <<request, pc, commandVars, work, feed, done>>

ReadAgain(s) ==
    /\ reader[s].state = "yielding" /\ reader[s].lines = <<>>
    /\ reader' = [reader EXCEPT ![s].state = "reading"]
    /\ work' = Append(work, ReadTask(s))
    /\ UNCHANGED <<request, pc, commandVars, feed, queueVars>>

\* Only the end of stdout finishes the handle.
ReaderReturns(s) ==
    /\ reader[s].state = "ending" /\ reader[s].lines = <<>>
    /\ reader' = [reader EXCEPT ![s].state = "closed"]
    /\ IF s = "stdout" THEN Finish ELSE UNCHANGED <<done, iter>>
    /\ UNCHANGED <<request, pc, commandVars, work, feed, records>>

-----------------------------------------------------------------------------
(* feedStdinToFd.                                                          *)

\* The iterable has its next chunk, or ends; an iterable that throws rejects.
FeedNext ==
    /\ feed.state = "waiting"
    /\ \/ /\ feed.left > 0
          /\ feed' = [state |-> "writing", left |-> feed.left - 1]
          /\ work' = Append(work, WriteTask)
       \/ /\ feed' = [feed EXCEPT !.state = "closed"]
          /\ UNCHANGED work
       \/ /\ feed' = [feed EXCEPT !.state = "failed"]
          /\ UNCHANGED work
    /\ UNCHANGED <<request, pc, commandVars, reader, queueVars>>

\* The write is done, or fails with EPIPE because nobody reads; finally closes the end.
FeedWritten ==
    /\ feed.state = "writing" /\ Running(WriteTask)
    /\ feed' = [feed EXCEPT !.state = IF ~alive THEN "failed"
                                      ELSE IF request.stdin = "text" THEN "closed" ELSE "waiting"]
    /\ work' = Remove(work, WriteTask)
    /\ UNCHANGED <<request, pc, commandVars, reader, queueVars>>

-----------------------------------------------------------------------------
(* The end of _run and _runCompound.                                       *)

CommandWrites(s) ==
    /\ "command" \in writers[s]
    /\ \E c \in Byte :
           /\ \E text \in Output[s] : IsPrefix(Append(written[s], c), text)
           /\ pipe' = [pipe EXCEPT ![s] = Append(@, c)]
           /\ written' = [written EXCEPT ![s] = Append(@, c)]
    /\ UNCHANGED <<request, pc, writers, alive, stopped, work, reader, feed, queueVars>>

CommandCloses(s) ==
    /\ "command" \in writers[s]
    /\ writers' = [writers EXCEPT ![s] = @ \ {"command"}]
    /\ UNCHANGED <<request, pc, pipe, written, alive, stopped, work, reader, feed, queueVars>>

\* A command that reads its input to the end lives as long as it is fed; others need not.
\* execute goes on from a child that is stopped and leaves it behind.
CommandEnds ==
    /\ alive
    /\ alive' = FALSE
    /\ stopped' \in {FALSE, stopped /\ pc = "executing"}
    /\ UNCHANGED <<request, pc, pipe, writers, written, work, reader, feed, queueVars>>

\* A signal stops a stage; the others go on, and the stage may still be killed.
CommandStops ==
    /\ alive /\ ~stopped
    /\ stopped' = TRUE
    /\ UNCHANGED <<request, pc, pipe, writers, written, alive, work, reader, feed, queueVars>>

\* Fault: only the end of stdout is closed.
CompoundKeepsStderr ==
    /\ pc = "executing" /\ ~alive
    /\ pc' = "draining"
    /\ writers' = [writers EXCEPT !["stdout"] = @ \ {"shell"}]
    /\ UNCHANGED <<request, pipe, written, alive, stopped, work, reader, feed, queueVars>>

\* executeNode returned or threw: finally closes the write ends.
CompoundDone ==
    /\ pc = "executing" /\ ~alive
    /\ pc' = "draining"
    /\ writers' = [s \in Stream |-> writers[s] \ {"shell"}]
    /\ UNCHANGED <<request, pipe, written, alive, stopped, work, reader, feed, queueVars>>

ReadersClosed == \A s \in Stream : reader[s].state = "closed"

\* waitForPids and captureOutput settle when every stage has ended or one is stopped.
Waited == ~alive \/ stopped

\* Promise.all: waitForPids, the readers and the feed.
AllSettled ==
    \/ pc = "running" /\ Waited /\ ReadersClosed /\ feed.state = "closed"
    \/ pc = "draining" /\ ReadersClosed

\* Fault: the result does not wait for the reader of stderr.
ResolveEarly ==
    /\ \/ pc = "running" /\ Waited /\ reader["stdout"].state = "closed" /\ feed.state = "closed"
       \/ pc = "draining" /\ ReadersClosed
    /\ pc' = "resolved"
    /\ UNCHANGED <<request, commandVars, work, reader, feed, queueVars>>

Resolve ==
    /\ AllSettled
    /\ pc' = "resolved"
    /\ UNCHANGED <<request, commandVars, work, reader, feed, queueVars>>

\* A feed that fails rejects at once, whatever the readers still have to do.
Reject ==
    /\ pc = "running" /\ feed.state = "failed"
    /\ pc' = "rejected"
    /\ UNCHANGED <<request, commandVars, work, reader, feed, queueVars>>

\* captureOutput resolves at the end of the output with the whole of it, decoded at once;
\* the queue gets its lines without the empty ones.
CaptureDone ==
    /\ pc = "capturing" /\ Waited /\ writers["stdout"] = {}
    /\ pc' = "resolved"
    /\ reader' = [reader EXCEPT !["stdout"].text = LinesOf(Decode(pipe["stdout"], {}))]
    /\ LET lines == NonEmpty(Split(Decode(pipe["stdout"], {})))
       IN  records' = [i \in DOMAIN lines |-> [stream |-> "stdout", line |-> lines[i]]]
    /\ Finish
    /\ UNCHANGED <<request, commandVars, work, feed>>

-----------------------------------------------------------------------------
Init ==
    /\ request \in Request
    /\ pc = "new"
    /\ pipe = [s \in Stream |-> <<>>]
    /\ writers = [s \in Stream |-> {}]
    /\ written = [s \in Stream |-> <<>>]
    /\ alive = FALSE
    /\ stopped = FALSE
    /\ work = <<>>
    /\ reader = [s \in Stream |-> [state |-> "off", rest |-> <<>>, lines |-> <<>>, text |-> <<>>,
                                cuts |-> {}]]
    /\ feed = [state |-> "off", left |-> 0]
    /\ records = <<>>
    /\ done = FALSE
    /\ iter = [c \in Consumer |-> [i |-> 0, state |-> "ready"]]

StreamStep(s) == Read(s) \/ ReadEnd(s) \/ TakeLine(s) \/ ReadAgain(s) \/ ReaderReturns(s)
RunStep == \/ RunThrows \/ RunNothing \/ RunCaptured \/ RunStages \/ RunCompound
           \/ CompoundDone \/ Resolve \/ Reject \/ CaptureDone
CommandStep == CommandEnds \/ CommandStops \/ \E s \in Stream : CommandWrites(s) \/ CommandCloses(s)

Next ==
    \/ RunStep \/ FeedNext \/ FeedWritten \/ CommandStep
    \/ \E s \in Stream : StreamStep(s)
    \/ \E c \in Consumer : IterStep(c)

\* The event loop and the pool serve what is ready; an iterable goes on.  A command that
\* has been fed ends and closes its ends, unless it is stopped, and so do the processes
\* it left behind; one that waits for its input may do neither.
Fed == feed.state \notin {"writing", "waiting"}

Fairness ==
    /\ WF_vars(RunStep) /\ WF_vars(FeedNext) /\ WF_vars(FeedWritten)
    /\ \A s \in Stream : /\ WF_vars(StreamStep(s))
                        /\ WF_vars(CommandCloses(s) /\ ~stopped /\ (alive => Fed))
    /\ \A c \in Consumer : WF_vars(IterStep(c))
    /\ WF_vars(CommandEnds /\ ~stopped /\ Fed)

Spec == Init /\ [][Next]_vars /\ Fairness

-----------------------------------------------------------------------------
ExecTypeOK ==
    /\ request \in Request
    /\ pc \in {"new", "running", "executing", "draining", "capturing", "resolved", "rejected"}
    /\ \A s \in Stream : writers[s] \subseteq {"command", "shell"}
    /\ feed.state \in {"off", "waiting", "writing", "closed", "failed"} /\ feed.left \in 0..MaxChunks
    /\ Len(work) <= 3 /\ IsInjective(work)
    /\ \A c \in Consumer : iter[c].i \in 0..Len(records)
                        /\ iter[c].state \in {"ready", "waiting", "ended"}

\* What the reads make of the output of s: the bytes as written, but for the characters
\* that a read has cut.
Delivered(s) == Decode(written[s], reader[s].cuts)

\* A promise that resolved comes after the end of the command (or its stop) and of its
\* streams, and carries every line that was written, wherever the reads ended and whichever
\* stream ended first; a character is replaced only if it was cut, and captureOutput cuts
\* none.
ResultComplete ==
    pc = "resolved" =>
        /\ Waited
        /\ \A s \in Stream : Piped(s) =>
               /\ writers[s] = {}
               /\ Trimmed(reader[s].text) = Trimmed(LinesOf(Delivered(s)))
               /\ Captured => reader[s].cuts = {}

\* A loop over the handle that ended has been given every line of stdout, in order, even
\* when it started late or the lines came while it was busy with another.
StdoutIterated ==
    iter["stdout"].state = "ended" =>
        LET lines == LinesOf(Delivered("stdout"))
        IN  Lines(Given("stdout")) =
                IF Captured THEN NonEmpty(lines) ELSE lines

\* A loop never sleeps through the end: once stdout has ended every loop ends.
LoopsEnd == \A c \in Consumer : done ~> (iter[c].state = "ended")

\* The promise settles: no order of reads, writes, deaths and closings leaves a reader on
\* an end that stays open, or the pool without a thread for the write that all wait for.
\* Only a process that is stopped, and stays so, can keep an end open.
Settles == <>(pc \in {"resolved", "rejected"} \/ []stopped)

=============================================================================
