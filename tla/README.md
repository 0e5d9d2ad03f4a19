# jsh: a verification project

TLA+ modules, TLC configurations and machine-checked proofs about jsh, a
JavaScript/TypeScript shell with a native C++ part (`src/`). Paths below are
relative to the repository.

## 1. The system

| Component | Source | State it keeps | Operations |
|---|---|---|---|
| Native process executor | `src/native/executor.cc` | `g_pending`, `g_orphans`, `g_bg_completions`, `g_sigchldRefcount`, one `SpawnCtx` per promise | `spawnPipeline`, `captureOutput`, `forkExec`, `waitForPids`, `reapChildren`, `sendSignal`, `tcsetpgrpFg/Shell`, the callbacks `onSigChld` and `onCaptureReadable` |
| Job table | `src/jobs/index.ts` | `jobs`, `currentJobId`, `previousJobId` | `addJob`, `removeJob`, `markJob*`, lookups, `reapFinishedJobs` |
| AST executor and builtins | `src/executor/index.ts` | per-stage io context, fds of process substitutions, shell functions, options | pipelines (external, mixed, object mode), control flow, redirections, job control and other builtins |
| REPL | `src/repl/index.ts` | continuation buffer, the UI | prompt loop, history expansion, start of the MasterBandit bridge |
| `jsh.exec` | `src/exec/index.ts` | record queue, waiters, done flag | run, iterate, await |
| History writer | `src/native/history-writer.cc` | queue, flags, one thread, the history file and its lock | `load`, `enqueue`, `shutdown`, the writer's loop |
| MasterBandit bridge | `src/mb/*.ts`, `mb-applet/src/applet.ts` | client: socket, pending requests, popups, reconnection; applet: nonces, connections, popups | handshake, connect, requests, popups, reconnect |
| Variables and traps | `src/variables`, `src/trap`, `src/shellopts` | scope stack, snapshots, positional parameters, traps | push/pop, assignment, `local`, `readonly`, traps |
| Structured pipelines | `src/structured`, `src/jsfunctions` | schema cache, function registry | object channels, `@`-operators, schema extraction |
| Lexer, parser, expander | `src/parser`, `src/expander` | none between calls | text to AST, words to arguments |
| Line editor, terminal | `src/native/input-engine.cc`, `src/terminal` | edit buffer, completion menu, widgets, frame | key handling, menu, repaint |
| Completion, colours, API | `src/completion`, `src/colorize`, `src/api` | little or none | text in, text out |

How they interact. Everything except the writer thread of the history runs on
the thread of Node's event loop. The AST executor calls the native executor and
awaits a promise; the promise is resolved by `onSigChld`, by the poll callback
of a capture pipe, or at once. Children run beside the shell and change state
between any two instructions of it. `fg`, `bg`, `wait` and the prompt loop
share the job table. JavaScript stages of a pipeline run concurrently with one
another at every `await`. The history writer shares a queue with the main
thread and a file lock with other shells. The bridge talks over a socket to a
process that may go away.

What is hard: wait statuses that arrive before, during or after the call that
wants them; stages that stop while others die; a context deleted while tables
point to it; stretches of code between two awaits; a terminal handed to and fro;
a blocking call on the event loop; locks with and without a time limit;
reconnection; scopes pushed and popped by stages that interleave. The full list,
each entry at its line with the properties that cover it, is `hazards` in
`PROJECT.json`.

What makes each component correct:

* executor: no pointer to a deleted context; no status lost, or credited to
  another stage; every promise resolved once its processes are gone; the
  reference count exact; the terminal given back;
* job table: ids unique, `%+` and `%-` name jobs of the table;
* job control: no process in two jobs, commands
  return, the prompt owns the terminal;
* AST executor: every way out of a construct undoes what the construct did, and a
  program leaves what POSIX says it leaves; no end of a pipe stays open;
* `jsh.exec`: the result is complete, every line of stdout reaches every loop,
  a read spoils no more than the character it cuts, every loop and every promise
  ends;
* history writer: entries reach the file in order and whole, or are dropped in
  one of the ways the source names; `load` inverts `encode`;
* bridge: a reply goes to its own request, a popup is closed on both sides, a
  nonce is used once;
* variables: a function sees and drops its own scope only.

## 2. Modules

| Module | Models | Notes |
|---|---|---|
| `ChildTracker` | `executor.cc` | the executor, the kernel's side of `waitpid`, and any order of JS calls |
| `ChildTrackerProofs` | | types and the inductive invariant; no status is lost or credited wrongly, no promise is left waiting |
| `JobTable` | `jobs/index.ts` | the table |
| `JobControl` | `executor/index.ts`, `repl/index.ts` | command lines over `ChildTracker` and `JobTable`, which it extends |
| `JobControlProofs` | | all invariants of the table and of the jobs, and that `JobSpec` implies `Spec` |
| `HistoryLog` | `history-writer.h` | abstract: what reaches the history file, and in which order |
| `HistoryLogProofs` | | the order |
| `HistoryWriter` | `history-writer.cc` | the main and the writer thread of several shells, one file, one lock |
| `HistoryWriterProofs` | | types, whole entries, none forgotten, no writes after a failed load, and that `HistoryLog` is implemented |
| `ExecHandle` | `exec/index.ts` | one `ExecHandle`: readers, feed, pool of threads, record queue, loops |
| `MCExec` | | what the commands of the run may write |
| `ExecHandleProofs` | | decoding and splitting what comes in pieces; the result is complete, loops miss nothing |
| `Bridge` | `mb/client.ts`, `mb/handshake.ts`, `mb-applet/src/applet.ts` | shell, terminal and applet, over connections that fail |
| `BridgeProofs` | | types, handles and credentials |
| `Executor` | `executor/index.ts`, `variables/*`, `trap`, `shellopts` | the AST executor: one small step per call, return or exception |
| `ExecutorProofs` | | scopes, snapshots, parameters and descriptors, for every program |
| `MCExecutor` | | the programs, and their meaning after POSIX (`Says`) |
| `Lexer` | `parser/lexer.ts`, `colorize/index.ts` | text to tokens, text to coloured text |
| `Typing` | `repl/index.ts`, `terminal/index.ts` | a command typed key by key, over `Lexer` |
| `Parser` | `parser/parser.ts` | tokens to trees |
| `Reader` | `repl/index.ts` | a command entered line by line, over `Parser` |
| `Editor` | `terminal/*.ts`, `repl/index.ts` | frames, widgets and output on a screen |
| `EditorProofs` | | the renderer, the frame on the screen, the output that stays |
| the other `MC` modules | | symmetry, constraints and inputs for TLC |

What composes what: `JobControl` extends `ChildTracker` and `JobTable` and is
checked and proved to use `ChildTracker` only as its `Spec` allows.
`HistoryWriter` is checked and proved to implement `HistoryLog`. `Typing` and `Reader` put the prompt over the lexer and
the parser. `Executor` starts where `Parser` ends, from a tree.

### ChildTracker

`owner`/`slot` are the two fields of `g_pending`; `Background` is a null `ctx`.
`orphan` is `g_orphans` (`Unreaped` for `reaped == false`), `bg`
`g_bg_completions`, `refs` `g_sigchldRefcount`, `ctxs` the contexts, each
allocated once: a context that was resolved was deleted, and a pointer to it is
what `NoDanglingCtx` forbids. `want`, the pid behind each slot of `pipeStatus`,
is not in the source; it lets properties compare a result with what the process
really did.

`at` says which call the one thread is in. Calls that loop over processes
(`spawnPipeline`, `waitForPids`, `onSigChld`, the blocking waits of a failed
spawn) take one step per turn of the loop, because the children run on
meanwhile; the other calls read no process state more than once and take one
step. JavaScript and callbacks run only when `at = "idle"`, as on Node's loop.

The kernel (`ExitProcess`, `StopProcess`, `ContinueProcess`, `Collect`,
`StatusOf`, `Reportable`) is external: any child may die, stop or be continued
at any time; `SIGCHLD`s are not queued; a stop is reported once, and not after the
process was continued.

### JobControl

`cmd` is the command the shell is executing and `await` the context whose
promise it awaits. A stretch of code without an `await` is one action, or, when
it makes several native calls, several actions in the commands of
`Synchronous`, in which no callback may run. The module extends `ChildTracker`
and `JobTable` and calls their operators. `Spec` of `ChildTracker` is checked as a
property of `JobSpec`, and proved (`ShellUsesExecutor`): the shell calls the
executor only in the ways `ChildTracker` allows, so what is proved of
`ChildTracker` holds under job control.

### HistoryWriter and HistoryLog

`main` and `worker` say where the two threads of a shell are; `queue`, `stop`,
`loadOk` and `hurry` are `g_queue`, `g_shutdown`, `g_load_ok` and
`shutting_down`. `g_mu` is held for short stretches and never across a system
call, so each stretch is one action. An entry is written by one `write` or by
two; `file` is the sequence of the parts, so that it can be seen whether
anything comes between them. A shell may die anywhere (`Kill`), also in the
middle of a write, and ends with its writer still running when shutdown gave up
on it (`ShutdownTimeout`, then `Exit`). The lock may be taken by a third program
(`ForeignLock`), and open, lock and write may fail.

`HistoryLog` knows entries only: those in the file, and those on their way,
which may be lost but neither duplicated nor reordered. `HistoryWriter` maps the
parts that complete an entry to its log, queue and batch to its outbox, and is
checked to implement it (`ImplementsLog`). `Accounted` adds what the abstract
specification leaves open: which entries may be lost.

An entry cut off by the death of its writer stays in the file without its end,
and the next entry, of whichever shell, is appended right to it. `WholeLines` says
nothing of that fragment; how `load` reads it is not modelled.

### ExecHandle

A coroutine gives the thread up at an `await` only, so a stretch between two
awaits is one action. `request` is the form of the command and its options, and
`pc` where `_run` is; the forms differ in who holds the write ends of the pipes
(`writers`), in what feeds stdin and in what the promise waits for (`AllSettled`).
`work` is the queue of libuv's pool: a `fs.read` or `fs.write` occupies a thread
until it returns, so only the first `Pool` of `work` run. `reader` is
`fdLineReader` with the loop around it, `rest` the text after the last newline.
`records`, `done` and `iter` are the record queue, the flag, and the loops
over the handle. The command is external: it writes, closes its ends and dies
when it likes, and a background child of it may hold an end after its death. A
stage may also be stopped by a signal (`CommandStops`): `waitForPids` then
settles although the stage lives (`Waited`), with its ends still open.

Output is bytes: letters, newlines and the two bytes of a longer character. A
read ends anywhere and its bytes are decoded by themselves (`Decode`), as
`toString` does with each chunk of 4096 bytes, so a character that a read cuts
becomes two replacement characters; `captureOutput` decodes the whole at once.
`cuts` notes where characters were cut. It is not in the source; it lets
`ResultComplete` and `StdoutIterated` say that the result is what was written
with those characters replaced (`Delivered`), and no other.

### Bridge

Three parties in one module, because what is hard is between them. `hs` is the
listener of `startHandshake`, `rawQueue` what waits for the next edit session,
`asked` and `answers` what is on the way to and from the terminal over the tty;
`link`, `creds`, `ready`, `attempts` and `api` are the client's `connectOnce`
chain; `conn`, with `toApplet` and `toShell`, is the applet's end of the socket.
`call` is a promise of the API and `handle` what `createPopup` gave. A command
that runs reads what the terminal answers (`AnswerStolen`). Of the timers only
that of the handshake is held back, while an answer is on its way; the others
may fire at any time. `Microtasks` keeps the event loop from serving an event
while a settled promise has still to run on: `createPopup` enters its handle in
the map in such a microtask.

### Executor and MCExecutor

The executor is a tree of `async` functions over a syntax tree. A call is a
frame on the stack of a thread; the control of a thread, `c`, is a node to be
evaluated, a value that returns or an exception that is thrown; a `finally` or a
`catch` is what the frame does when one of these comes back (`Unwind`,
`CatchJump`, `FunctionReturns`, ...). `sh` is the state of the process: store,
scopes, snapshots, parameters, options, directory, functions, aliases, trap,
descriptors. Stages of a pipeline that run in the shell are threads that share
`sh`; a stage that is forked is a thread with three descriptors of its own.
Threads interleave at every step, which includes everything the awaits allow, and
more: properties that hold here hold of the code.

Redirections are applied one a step (`RedirectNext`, `ExecApplies`): each is an
open that may fail, and the frame knows at every moment what its `finally` has to
undo. So are assignments (`Assign`): the code awaits the expansion of each. What a
step takes of descriptors, channels and threads is the lowest that is free; a
step that needs more than the bounds leave is not taken (`Enough`), which the
proofs need and no program of the runs comes near: a program that could not go
on would be a deadlock. `NoCopy` marks a capture that has put descriptor 1 back, or
never replaced it. The stage of a JavaScript function has `js` set in its frame:
its ends are closed in a `.then`, not in a `finally`.

`Balanced` is about scopes and snapshots, `ParamsBalanced` about the stack of
positional parameters. They are two properties because a subshell pops its
snapshot but overwrites the parameters.

The words of a command are taken as parsed and `Expand` looks them up. Text is
abstracted to lines, `chan` holds those a reader has not read yet. Which builtins
there are, and which of them throw, is in `Builtin`.

`Says` is what POSIX says about a tree, by recursion on it, and says "unspecified"
where POSIX leaves it open or where jsh is known to differ (section 4): a command
that fails under `set -e` in a loop, a condition or behind `!`, `PIPESTATUS`
anywhere but right behind its command, a redirection of a process in a mixed
pipeline. `Agrees` compares the two when the program has ended: variables,
parameters, options, `PWD` and `OLDPWD`, status and what was written. `Programs` is the set of trees: loops,
functions, groups, subshells, conditionals and and-or lists two deep around two
commands out of twelve (`Nested`), redirections two deep (`Redirecting`),
pipelines (`Piping`), and one program for each other construct (`Others`).

### Lexer and Typing, Parser and Reader

`Lexer` works on characters, one operator per function of the source. `Typing`
types all sequences over one of six small alphabets, each of the characters that
meet in one part of the lexer (quotes, brackets, substitutions, ...); characters of
different alphabets do not come together. After every key the text is lexed and
coloured (`Redraw`); `Enter` ends the command or takes another line.

`Parser` works on tokens, one operator per function of the source, and its trees
are tuples. Its inputs are whole programs, so `Reader` builds them from a
grammar of its own (`MCReader`), together with the tree each stands for, and lets
the user enter them line by line and give up in between.

### Editor

`term` is the screen as the escape sequences leave it: rows, cursor, and the two
numbers the renderer keeps. A row is one value that says where it came from.
Rows that scroll out stay in `term.rows`, so that anything drawn over them is
seen. `start` awaits the refresh of its zones one by one (`loading`); in between,
and at every other time, the content of a widget may arrive.

A command ends a row with its newline or leaves it `Unfinished` (`CommandWrites`).
An unfinished row is not kept by the code: the next prompt is drawn over it, and
when the command throws `clearFrame` may erase it (section 4). `OutputKept` is
about the rows that were ended. What a background job writes while a line is
edited goes where the cursor is, into the frame, and is not modelled.

### Left out

Command texts, process group ids apart from their leader, signal numbers, the
bytes that go through pipes (but those of `ExecHandle`). The exit code 1 of a spawn that fails before its
first process and 127 of a later one are one value, `SpawnErr`. Several jobs
removed by one `disown` are several `Disown`s. `wait` with operands awaits a
subset of the jobs `wait` alone does. In `Executor`: what a builtin prints
(except `echo` and `read`), field splitting, globs, arithmetic. In `Lexer`: the
inside of arithmetic. In `Bridge`: what is in a popup, and an applet that has a
request and never answers it: the client has no time limit for that, so its call
would never settle. In `ExecHandle`: the carriage return `stripCr` takes off a
line. In `Editor`: columns, colours, frames taller than the screen, and what
background jobs write during editing.

## 3. Runs

| Run | Shows | Bounds |
|---|---|---|
| `child_tracker` | all safety properties of the executor | 2 processes, 2 promises, pipelines of 2, 2 exit codes |
| `pipeline_live` | a pipeline whose processes die is resolved | the same, 1 exit code, no jobs |
| `jobs` | job control, `%+` and `%-`, and `Spec` of `ChildTracker` | 2 processes, 3 promises, 2 jobs |
| `history` | entries whole, in order and accounted for; shutdown returns; `HistoryLog` is implemented | 2 shells, a queue of 2, 3 entries in all, 1 foreign locker |
| `exec` | the result is complete but for characters cut by a read, loops see every line and end, the promise settles | 3 threads, 1 loop, up to 3 bytes of stdout and 1 of stderr, 1 chunk of stdin |
| `bridge` | calls settle, handles belong to their connection, handshakes and nonces are fresh, reconnection ends | 2 calls, 2 faults |
| `shell` | programs do what POSIX says; scopes, snapshots, parameters, descriptors are restored; no end of a pipe is left | 9,600 programs, 4 threads, 12 descriptors |
| `typing` | drawing, tokens and quoting are exact | all texts of 5 (here-documents: 7) characters over 6 alphabets |
| `reading` | the prompt executes what was meant, once | 15 constructs, nested two deep, over lines broken at every place |
| `editor` | the screen is the frame, rows of output that were ended stay | 2 sessions, prompts of 1 and 2 rows, header and footer of none or 1, 2 lines of input, 2 rows of output, 1 update on the way |
| `fg_lost` | violated: `fg` waits for ever | pipelines of 1 |
| `subshells` | violated: two subshells in one pipeline leave their changes behind | 3 programs |

Two processes are enough for one to be the sibling, or the successor, of the
other: every table entry concerns one pid and one context, and what goes wrong
goes wrong between two. Two promises let a second wait take a pid from the
first; three let a job be run, resumed and waited for. What the bounds leave out,
the proofs cover for the executor. The action constraint `ChildrenBetweenCalls`
lets children move only between calls, in `onSigChld` and in a blocking
`waitpid`: the loops it skips read no process state, so a step of a child
commutes with them. Processes and contexts are interchangeable
(`Permutations`); the liveness runs use no symmetry.

Two shells compete for the file in every way two can; a third waits like the
second. Three entries overflow a queue of two, and fill a batch of two with a
third behind it.

`exec`: three threads are what is left of libuv's four when one is busy, and what
a handle with an iterable stdin and a piped stderr needs; with two, the write that
the command waits for is queued behind two reads that wait for the command, and
one of the mutants of `Settles` shows it. So a promise is only known to settle
while other work leaves the handle three threads: two such handles at once may
take all four (section 4). Every cut of the output into reads is tried, and three bytes
have an empty line, a line without a newline, one that is cut, and a character
that is cut or never finished. `bridge`: two faults are
enough for something to go wrong while the client recovers from the first.
`shell`: a construct interacts with the one around it, so nesting of depth two with
two commands inside covers every pair; `break 2` reaches out of both. Four
threads are a main program, two stages and a child of one. `PipeRoom` of one line
makes writers wait. `typing`: five characters hold an opening, something inside,
an escape, a closing and what follows. `editor`: the window changes its size
once, in the last session, and what earlier frames left above or below is not
asserted after that, because the renderer cannot know what the terminal did to
the lines when it folded them. Two sessions have a continuation, or output and a
frame after it, but not one after the other; a third session (a continuation of a
continuation, a command that throws after one) is left to the proofs. A frame of
one row, which `clearFrame` only leaves, comes with a prompt of one row and no
header or footer.

Runs switch deadlock checking off where the system may stop: all contexts are
used up, every process is gone and the user types nothing, a handle is done
with, the bridge has given up, the alphabet's bound is reached, the programs are
entered, the sessions are over. A program of `subshells` and `shell` cannot stop
half way: there deadlock is checked, and a deadlock would be a pipeline that
hangs.

Fairness (`ChildTracker!Fairness`): a call once begun goes on (the thread is
running); the event loop serves the SIGCHLD watcher and the capture pipe again
and again, which is strong fairness because other calls disable a callback
while they run; `waitpid(-1)` does not overlook one child for ever. Children
owe nothing, except that a capture pipe whose writers are all dead reports its
end. `DeadPipelineResolves` also assumes that the loop turns (`[]<>(at =
"idle")`), because the blocking waits of a failed spawn
(section 4) would otherwise refute it.

`HistoryWriter!FairSpec`: both threads run, and a writer that blocks in `flock`
gets the lock if it is free again and again (strong fairness, because other
writers take it in between; the kernel keeps a queue). Nobody must enqueue, shut
down, die or fail. That other programs give the lock back is an assumption
of `Settled` only; `ShutdownReturns` holds without it.

`ExecHandle!Fairness`: the event loop and the pool serve what is ready, and an
iterable that feeds stdin has a next chunk or ends. A command that is not being
fed ends; one that is fed may live until its input ends, which is the case
in which the pool could be exhausted. Children that hold an end let go of it. A
process that is stopped owes nothing of this: while it stays stopped and holds an
end the promise stays open, and `Settles` makes an exception for that alone.

`Bridge!Fairness`: timers fire, frames and answers arrive, settled promises run
on, commands end (`StartEdit`). Nothing says that the terminal has an applet,
that a nonce is still good, or that a connection holds. An applet that has got a
request answers it or loses the connection: that is assumed of it (its handlers
answer in the turn that hears the request), and the client would not notice
otherwise.

Each property of a passing run has a mutation run, or two: a definition is replaced by
the version a plausible mistake would give it (the operators marked `Fault:`),
and the property must then be violated.

## 4. Disagreements with the documentation

Two are kept as runs that must find the violation; `PROJECT.json`, `findings`,
quotes the lines.

* `fg_lost`: a pid that stopped is in no table until it is resumed, so its death
  before `fg` makes `fg` wait for ever.
* `subshells`: two subshells in stages of one pipeline restore a global directory,
  option set and parameter list in the order in which they end, so one leaves the
  changes of the other behind.

Others are in the models, where they can be reached, but have no run of their
own; properties are stated so as not to depend on them.

| Where | What happens |
|---|---|
| `src/native/executor.cc:607` | a spawn that fails after its first stage waits on the main thread, and the event loop with it, for a process that may never end (`DrainStage`; `DESIGN.md:279` says that waits are asynchronous) |
| `src/native/executor.cc:403` | the exit of a background job that came before `wait` is in `g_bg_completions`, where `waitForPids` does not look: `wait` never returns |
| `src/native/executor.cc:1005` | a parked stop outlives the continuation and makes a later `fg` return at once |
| `src/executor/index.ts:1453` | a background spawn that fails leaves a job without a process |
| `src/jobs/index.ts:115` | a background pipeline counts as done at the first exit of a stage |
| `src/executor/index.ts:997` | the ends of a JavaScript stage are closed in a `.then`, not in a `finally`: one that throws before its own handler, as when its arguments cannot be expanded, leaves them open in the shell, and a `cat` behind it waits for ever (`StageThrows`; `executor/index.ts:957` says that the ends close per stage) |
| `src/executor/index.ts:446` | a subshell puts the whole store back, and `$?`, `PIPESTATUS` and `OLDPWD` with it: after `( ... )` `PIPESTATUS` is that of a command before the subshell (`PopSnapshot`, `src/variables/index.ts:43-54`; `DESIGN.md:478` says "the most recent pipeline") |
| `src/executor/index.ts:941` | the processes of a mixed pipeline are forked without their redirections: `{ echo a; } \| cat > f` writes to the terminal (`MixedPipeline`) |
| `src/executor/index.ts:1418` | `set -e` looks at every entry of a list: it also stops at a pipeline behind `!` that fails, and in the list of a condition or left of `&&`; and it ends that list only, so a loop around it goes on (`AfterEntry`; `DESIGN.md:476` speaks of "list context", POSIX exempts the former and ends the shell in the latter) |
| `src/executor/index.ts:1405` | `$?` is set by lists only, so in `false \|\| echo $?` it is that of the command before (POSIX: 1) |
| `src/executor/index.ts:1191` | the error of a broken pipe has no listener while a JavaScript stage runs, and ends the shell as an uncaught exception (`JsBroken`) |
| `src/executor/index.ts:2129` | the buffers of `read` are kept by descriptor number, so a file may begin with the rest of another |
| `src/executor/index.ts:344` | a here-document longer than a pipe holds is written before anybody reads it (not modelled: texts are short) |
| `src/executor/index.ts:531` | the read end of a capture that throws stays open (`CaptureThrows`) |
| `src/exec/index.ts:60` | every chunk a read returns is decoded by itself: a character that lies across two chunks of 4096 bytes reaches the result and the loops as replacement characters (`Read`, `Decode`) |
| `src/exec/index.ts:53` | every reader and feed holds a thread of libuv's pool while it waits: two handles with an iterable stdin and a piped stderr may wait for each other's threads for ever (`Pool`) |
| `src/exec/index.ts:278` | a stage that is stopped settles `waitForPids`, but not the readers while it has its ends: the promise stays open until somebody continues or kills it (`CommandStops`) |
| `src/exec/index.ts:401` | the end of stdout ends a loop over both streams; later lines of stderr are not seen |
| `src/exec/index.ts:149` | a command that does not parse rejects the promise and leaves a loop over the handle asleep (`RunThrows`) |
| `src/mb/client.ts:133` | a handshake that gets no answer in time makes the client give up for good |
| `src/terminal/renderer.ts:59` | the first line of a frame is drawn over the row the cursor is on: what a command has written there without a newline is lost, and `src/terminal/index.ts:341` erases it when the command throws (`CommandWrites`, `Draw`, `ClearFrame`) |
| `src/terminal/index.ts:89` | an update that arrives while `start` refreshes its zones draws the line of the session before, until the first key |

## 5. Proofs

### ChildTracker

For any sets of processes, contexts and codes that satisfy the `ASSUME`s of the
module (names distinct from the constants they are compared with, finitely many
processes, at least one stage):

* `TypeCorrect`: `TypeOK`, inductive by itself; one lemma per action.
* `InductiveInvariant`: `IInv`. `NoDanglingCtx` alone is not inductive: a
  context could be counted down to zero while a sibling is still in `g_pending`.
  `CountCovers` excludes that; it needs to know that a stage is registered once
  (`SpawnUnregistered`, `UnbornUnknown`: a process that does not exist yet is on
  no list) and that no callback resolves the context of a call in progress
  (`CallCtxLive`). `RefsExact` needs the same facts, and `TerminalReturned`
  that a context in the foreground captures nothing (`ForegroundKind`), so that
  it is resolved in the step that takes the terminal back.
* `NoUseAfterFree`, `CountSufficient`, `ReferencesExact`, `TablesDisjoint`,
  `TerminalComesBack`: its parts.

The arithmetic is about cardinalities of the set of entries of a context; the
lemmas at the head of `ChildTrackerProofs` say what adding and removing one
entry, or all of them, does to it.

The second half of the module goes on to what the promises report. `StatusInv` is
`IInv` and four groups, each inductive relative to those before it:

* `ListsInv` (`ListsApart`): whose pids are on which list. A pid is a stage of
  one pipeline, or was started by `forkExec`, never both; `g_pending` has the slot
  it stands for in the result; `fg` and `wait` resume only pipelines whose promise
  is resolved. Without it nobody could say whose status `onSigChld` delivers.
* `KeptInv` (`ParkedStatusKept`): what became of a pid that `forkExec` started is
  in `g_orphans` from its first `SIGCHLD` until `waitForPids` comes to it. This is
  `HeldStatusKept` and its continuation through the turns of `waitForPids`;
  it holds because nobody else registers such a pid (`ForkedApart`).
* `SlotsInv` (`SlotsAccounted`): `StatusFaithful` is about resolved promises; while
  a promise is live, a slot without the code its process exited with has to be
  counted (`OpenCounted`), so that none is left when the count is zero.
* `CountInv` (`PipelinesCounted`): the converse of `CountCovers` for pipelines. The
  count is the number of pids owned and each of these can still be reaped; hence a
  pipeline that waits, waits for something, which is `NeverStuck`. For a
  `resume` the count may be larger than what can come, because two waits may
  share a pid; that is why `fg_lost` (section 4) is possible and `NeverStuck`
  speaks of pipelines only.

`NoStatusLost`, `CodesFaithful` and `NoneStuck` state the properties of the run.

### JobTable and JobControl

`JobTable`: `TableCorrect`, for any sequence of calls.

`JobControl`: `JobInvariant`, for any `Job` bound. It takes `IInv` and `ListsInv`
of the executor as they are. The steps of a command are steps of the executor
(`ShellUsesExecutor`), which needs the shell to know what it calls with:
`AwaitKind` and `LiveAwaited` say that the promise a command awaits is of the
kind it made, and that there is no other live one. `JobOrigin` says that every
job is the pids of one pipeline whose promise is resolved; since pipelines have
no process in common (`PidsApart`), jobs have none (`PidsInOneJob`), and since the
promise is resolved, `fg` and `wait` resume what `ListsInv` wants resumed.
`PromptHasTerminal` follows from `TerminalReturned`, `LiveAwaited` and `LentByFg`;
`ForegroundReturns` from `CountInv`, which `ShellUsesExecutor` carries over.
`Targets` says that what `fg` and `wait` have in hand is in the table, and needs
that `wait` takes up each job once (`OneEach(todo)`): a job taken up twice
could have been removed in between.

`wait` takes the jobs in ascending order; that every finite set of ids can be put
in ascending order is an induction on data, which the provers do not do. It is
proved by a smallest counterexample (`AscendingIds`), found with the least
element of a set of numbers.

### HistoryWriter and HistoryLog

`HistoryWriter`, for any set of shells and any positive `QueueCap`:
`TypeCorrect` (with the bound on queue and batch), `LinesAreWhole`,
`FailedLoadIsReadOnly` and `NothingForgotten`, from `IInv`. `WholeLines` is not
inductive: when the second part of an entry is written its first must be the
last thing in the file (`HalfAtEnd`), and that is kept by the others only because
a writer halfway through an entry has the lock (`WriterHasLock`). `UnloadedIdle`
says that a shell that failed to load has no writer, which is what keeps it from
the file. `Accounted` needs `StopsDrained`: a writer ends with its queue drained,
and a batch is worked on to its end.

`WriterImplementsLog`: every step of `HistoryWriter` is a step of `HistoryLog` or a
stutter. The log of the mapping is the parts in `file` that complete an entry, in
their order. It is defined by rank (the i-th entry is the part with i
completing parts up to it), because what `SelectSeq` computes is an induction on
data; with ranks, that appending to the file appends to the log or leaves it
alone is a fact about cardinalities. The outbox is the batch and then the queue,
which are in order (`InOrder`).

`HistoryLog`: `LogOrdered`. The entries of a shell in the file precede, in its
numbering, all that are on their way (`OutboxIsLater`), and the oldest of these
is the next to arrive. With the refinement it gives `EntriesInOrder`: the same of
the history file.

### ExecHandle

`ExecInvariant`, for any bounds on the output and any number of threads in the
pool. What the command wrote is at any moment in four places: the text a reader
has collected, the lines it has in hand, the rest it carries to the next read,
and the pipe. `Faithful` says that the first three put together are the lines of
what the reads made of their bytes, and that these bytes and the pipe are all that
was written. Two facts are why a read keeps it so. Decoding the chunks one by one is
decoding the whole with the characters spoilt at which a chunk ended (`cuts`), and
no others; and splitting a text that comes in two reads at any point gives the lines
of the whole if the piece after the last newline goes before the second
(`SplitConcat`). `ResultIsComplete` follows when both
readers are closed, since a reader has then seen the end of the file and no
write end is open (`PhaseInv`). `QueueInv` says that the records of stdout are the
text of its reader until `_finish`, and all lines after it; `LoopInv` that a loop
that ended missed none. Together they are `EveryLineIterated`.

`Split`, `OfStream` and `NonEmpty` are folds. A fold over a sequence is a recursive
function, of which the provers know nothing but its definition: that its
partial results exist (`FoldExists`) is proved by a smallest counterexample, and
with it what one more element does (`FoldAppend`), from which the rest follows.

### Bridge

`TypeCorrect`, and `ConnectionInvariant` for any set of calls and any bound on faults.
`HandlesOfThisConnection` alone is not inductive: a reply that creates a handle
must not come from a connection before. The invariant says where frames can be
when the link is not open (nowhere: `ReadyFirst`, `ConnOfLink`), that "ready" is
the first frame of a connection, and that a call that has its answer resumes
before the connection can close (`AnsweredIsReady`, from `Microtasks`).

`CredentialsAreFresh` has an invariant of its own, `HandshakeInv`: no nonce in
use is above that of the last handshake (`NoncesGrow`), a handshake that is open
asks for one above that of the last connection, and what it brings is used for one connection, after
which the next handshake has to begin before the next connection. It is what
`scheduleReconnect` means by "a stale cached nonce would be rejected".

### Editor

`EditorInvariant`, for widgets of any heights, buffers of any number of lines, and
any number of sessions, updates and rows of output. `ScreenIsFrame` says nothing
between two sessions or while a command runs, so it cannot be inductive: what the
next frame is drawn over must be known too. `Sound` says where the renderer's two
numbers put the last frame: from `Top` on, `total` rows, all on the screen.
`OutputAbove` and `NothingLeft` say what may be above `Top` and below the frame, in
every phase; a command has `total = 0`, so its output moves `Top` along with the
cursor, and a row it leaves unfinished is at `Top`, where the next frame begins.

The terminal and the renderer come first. `RenderStep` is the contract of `render`:
drawn over any sound screen it leaves a sound one that shows the frame at the
same place, has changed no row above, and has blanked what a taller frame left.
`ClearFrameStep` is that of `clearFrame`. A frame of one row is not cleared, only
left; that it is a line of the input and not the row of a widget is
`FrameType`, because a prompt is never empty (`EditorAssumption`). With the
two contracts every action is short: those that draw share `DrawnKeeps`, those that
begin a session `BegunKeeps`.

`ScreenShowsFrame` holds after a change of the window's size as well, but for what
is left around the frame, as in the run. `OutputStaysOnScreen` does not depend on
the size.

### Executor

For every set of programs, variables and files, every number of threads and
descriptors and every kind of word and line. The program is a constant and
nothing is known of it: nodes are what the control of a thread holds, whatever
they are. So the proofs are about the frames on the stacks, and the first thing
they do is sort the actions. Most leave the frames that matter and the
descriptors alone (`Quiet`, one lemma per action); `Enters` and `Leaves` are a call,
a sourced file or a subshell that begins or ends; `Drops` is the shell that exits.

* `BalancedHolds`: `Heights` is inductive given `Body`. It says how many marks there
  are on all stacks together, and that there are finitely many. A stack is a
  sequence of which the provers know neither the length nor what it holds, and
  scopes and snapshots are one stack for all threads, so the argument is by
  cardinality: a frame pushed adds one place to a finite set, a frame popped takes
  one (`CountPush`, `CountPop`). `Body` has the shapes of threads and of the shell, and
  `KidsAsleep`: a mixed pipeline that is done knows that the threads of its stages
  are, so that clearing them away drops no mark.
* `ParamsBalancedHolds`: under the assumption that `Apart` always holds, that no
  subshell is under way in one thread while another is in a function or a sourced file.
  `executeSubshell` puts the whole stack of parameters back; the invariant says that
  what it found is what the calls below it on its own stack account for (`Nested`).
  Without `Apart` this is false of the code, for the reason the run `subshells`
  shows for two subshells.
* `EndsOwnedHolds`: under the assumption that `Tame` always holds. `EndsOwned` is far
  from inductive: that the closing of one frame does not close what another holds
  needs the descriptors that frames keep to be open, above 2, and different
  (`Secure`), and within a frame that no two copies are the same and no copy is
  among the opened (`Notes`). `Exchange` is the one argument behind all steps: the
  places that change share out among themselves what they had and what was free.
  `PutBackFacts`, what is left when the copies of a block have been put back in
  reverse order, is an induction over the list of them, done with a set of numbers
  closed under successor (`Induct`). The ends of a mixed pipeline are disjoint
  because the i-th lowest free descriptor is another for each i (`MineDisjoint`).

`Tame` asks three things of a run, and each fails for a reason in the code.
A redirection of a program names a descriptor up to 2 or one that is closed: the
copies and pipe ends of the shell are ordinary descriptors above 2, and `3>&1`
replaces whichever of them is 3. (A redirection of `exec` names one up to 2: what it
opens above is meant to stay.) A JavaScript stage does not throw with its ends
open (section 4). A stage that starts a pipeline of its own still has the ends it
was given: when the outer pipeline was rejected, they are closed under a stage
that goes on. `Apart` holds in every state of the run `shell`, and `Tame` in all of
its states but a few hundred of more than two hundred thousand, all of one
program, which redirects a descriptor 3 that is open; so does the inductive
invariant where `Tame` does.

### Only model-checked

* `FgReturns`, which is violated, and what the `bridge` run checks beyond
  its two invariants.
* `Agrees` of `MCExecutor`: it compares a run with the meaning of its program,
  which is recursive (`Says`), and the descriptors 0 and 1 at its end with
  those at its start. `Apart` and `Tame` are assumed of a run, not proved.
* Liveness under fairness, out of the prover's reach: `DeadPipelineResolves`,
  `ShutdownReturns`, `Settled`, `LoopsEnd`, `Settles`, `CallsSettle`,
  `Reconnects`.
* What is defined by recursion on data with RECURSIVE operators: `Lexer`, `Parser`,
  and with them `Typing` and `Reader`, and the meaning `Says` in `MCExecutor`.

## 6. Plan

1. `ChildTracker`, `JobTable`, `JobControl`, `HistoryWriter`, and proofs about
   the first, the second and the last: done.
2. `ExecHandle`, `Bridge`, `Executor`, `Lexer`, `Parser`, `Reader`, `Typing`,
   `Editor`: modelled and checked.
3. Proofs of every invariant of `ChildTracker`, `JobTable`, `JobControl`,
   `HistoryWriter`, `ExecHandle`, `Bridge` and `Editor`, and of the two
   refinements: done.
4. `Balanced`, `ParamsBalanced` and `EndsOwned` of `Executor`: proved, the second and
   the third for runs without the interference section 5 names.

### Not modelled

* The expander (`src/expander`): field splitting, globs, braces and arithmetic
  turn text into text and keep no state; `Executor` looks words up instead.
* Structured pipelines (`src/structured`, `src/jsfunctions`) and object-mode
  pipelines of the executor: the schema cache is keyed by the path and stamp of a
  binary, and the operators are functions on arrays; a later module.
* `encode` and the parsing in `load` of the history file, and the filters of
  `src/history`.
* The input engine (`src/native/input-engine.cc`): its key handling, menu and
  search. `Editor` takes any state of it.
* Completion (`src/completion`, `share/completions`): text in, text out.
* The entry point, the API and the module loader forward to the rest; `[[ ]]`,
  arithmetic `for` conditions beyond a counter, process substitution and the
  builtins that only print are left out of `Executor`.
