---------------------------- MODULE ChildTracker ----------------------------
(***************************************************************************)
(* The native process executor of jsh (src/src/native/executor.cc): which  *)
(* child processes the shell waits for, what becomes of the wait statuses  *)
(* the kernel reports, and when the promise of a pipeline is resolved.     *)
(*                                                                         *)
(* One thread runs everything: JavaScript calls (spawnPipeline,            *)
(* captureOutput, forkExec, waitForPids, reapChildren), the SIGCHLD        *)
(* callback of libuv and the poll callback of a capture pipe.  Only the    *)
(* children run beside it, so `at' names the call the thread is in and the *)
(* actions of Kernel interleave with every step of every call.             *)
(*                                                                         *)
(* g_pending is split into owner (the SpawnCtx) and slot (its stageIdx).   *)
(* A wait status is an exit code, or Stopped for WIFSTOPPED; the code 128  *)
(* + signal the source derives from a stop is Stopped as well.             *)
(*                                                                         *)
(* The operators whose comment starts with "Fault:" are no part of the     *)
(* model.  Each is the definition that follows it as a plausible mistake   *)
(* would have it, for the mutation runs of PROJECT.json.                   *)
(***************************************************************************)
EXTENDS Integers, Sequences, FiniteSets

CONSTANTS
    Pid,          \* process ids; the kernel does not reuse one
    Ctx,          \* SpawnCtx objects, each allocated once
    ExitCode,     \* what WEXITSTATUS, or 128 + WTERMSIG, can be
    Ok,           \* exit code 0
    SpawnErr,     \* exit code of a pipeline that could not be spawned
    Interactive,  \* g_interactive: standard input is a terminal
    Shell,        \* the process group of the shell
    MaxStages     \* bound on the stages of one pipeline

Background == "background"   \* owner of a pid registered with ctx == nullptr
Untracked  == "untracked"    \* owner of a pid that g_pending does not hold
Stopped    == "stopped"      \* a wait status with WIFSTOPPED
Unreaped   == "unreaped"     \* g_orphans[pid] with reaped == false
NoEntry    == "noentry"      \* a pid that g_orphans does not hold
NoCtx      == "noctx"        \* cur between two calls

WaitStatus == ExitCode \cup {Stopped}

ASSUME CtxAssumption == /\ Background \notin Ctx
                        /\ Untracked \notin Ctx
                        /\ NoCtx \notin Ctx
ASSUME PidAssumption == IsFiniteSet(Pid) /\ Shell \notin Pid
ASSUME CodeAssumption == /\ Ok \in ExitCode /\ SpawnErr \in ExitCode
                         /\ {Stopped, Unreaped, NoEntry} \cap ExitCode = {}
ASSUME ModeAssumption == Interactive \in BOOLEAN
ASSUME StagesAssumption == MaxStages \in Nat \ {0}

VARIABLES
    proc,     \* kernel: the life of each process
    code,     \* kernel: the exit code of a process that has died
    news,     \* kernel: stopped processes whose stop waitpid has not returned
    sigchld,  \* kernel and libuv: a SIGCHLD not yet delivered to onSigChld
    tty,      \* kernel: the foreground process group of the terminal
    lent,     \* the group the fg builtin last gave the terminal to
    owner,    \* g_pending[pid].ctx
    slot,     \* g_pending[pid].stageIdx
    orphan,   \* g_orphans
    bg,       \* g_bg_completions
    refs,     \* g_sigchldRefcount
    ctxs,     \* the SpawnCtx objects
    held,     \* JS: pids a mixed pipeline got from forkExec and has not waited for
    at,       \* the call the main thread is in
    cur,      \* the SpawnCtx of that call
    list,     \* the pids of that call
    pos       \* the index its loop over list has reached

kernelVars == <<proc, code, news, sigchld>>
tableVars  == <<owner, slot, orphan, refs>>
callVars   == <<at, cur, list, pos>>
vars == <<proc, code, news, sigchld, tty, lent, owner, slot, orphan, bg, refs,
          ctxs, held, at, cur, list, pos>>

-----------------------------------------------------------------------------
(* SpawnCtx.  want is not in the source: it is the pid behind each slot of *)
(* pipeStatus.  A resolved context has been deleted; its record is then    *)
(* the result object the promise was resolved with.                        *)

CtxState == {"free", "live", "resolved"}
Mode     == {"foreground", "background", "capture", "mixed", "resume"}

NewCtx(mode, want) ==
    [state |-> "live", mode |-> mode, want |-> want, status |-> [i \in DOMAIN want |-> Ok],
     exit |-> "none", stopped |-> FALSE, left |-> 0, pids |-> <<>>,
     foreground |-> FALSE, capture |-> "none"]

FreeCtx == [NewCtx("foreground", <<>>) EXCEPT !.state = "free"]

\* resolveCtxPromise, then delete ctx.
Resolve(x) == [x EXCEPT !.state = "resolved"]

\* maybeFinalize: not before every sibling has reported and the capture
\* pipe, if there is one, has been drained.
MaybeFinalize(x) == IF x.left > 0 \/ x.capture = "open" THEN x ELSE Resolve(x)

\* Fault: the last stage to die gives the pipeline its exit code.
RecordLatest(x, i, status) ==
    [x EXCEPT !.status = [@ EXCEPT ![i] = status], !.exit = status]

\* The wait status of stage i has arrived.
Record(x, i, status) ==
    [x EXCEPT !.status = [@ EXCEPT ![i] = status],
              !.exit = IF i = Len(x.want) THEN status ELSE @]

-----------------------------------------------------------------------------
(* The tables and the reference that keeps the SIGCHLD watcher alive.      *)

OwnedBy(c) == {p \in Pid : owner[p] = c}
IsCtxBound(p) == owner[p] \in Ctx
BoundPids  == {p \in Pid : IsCtxBound(p)}

\* sigchldRefRelease, k times: the counter never goes below zero.
Released(k) == IF refs >= k THEN refs - k ELSE 0

\* Fault: a bare g_pending.erase.
ErasePendingOnly(p) ==
    /\ owner' = [owner EXCEPT ![p] = Untracked]
    /\ slot'  = [slot EXCEPT ![p] = 1]
    /\ UNCHANGED refs

\* erasePending: the entry goes, and its reference if it had one.
ErasePending(p) ==
    /\ owner' = [owner EXCEPT ![p] = Untracked]
    /\ slot'  = [slot EXCEPT ![p] = 1]
    /\ refs'  = IF IsCtxBound(p) THEN Released(1) ELSE refs

\* The orders in which handleStopped may find the pids of a set in the
\* unordered map g_pending.
Orders(S) == {s \in [1..Cardinality(S) -> S] :
                \A i, j \in 1..Cardinality(S) : i # j => s[i] # s[j]}

\* pgid of a pipeline: the pid of its first stage.
Pgid(x) == x.want[1]

\* Fault: the terminal returns with the last exit, but not with a stop.
TakeTerminalBackAtExit(x) ==
    tty' = IF Interactive /\ x.foreground /\ x.left = 0 THEN Shell ELSE tty

\* tcsetpgrp(STDIN_FILENO, getpgrp()), which the source guards with
\* g_interactive && ctx->foreground && ctx->pgid > 0.
TakeTerminalBack(x) ==
    tty' = IF Interactive /\ x.foreground THEN Shell ELSE tty

-----------------------------------------------------------------------------
(* Kernel: children run, stop, are continued and die at any time.          *)

Reportable(p) == proc[p] = "zombie" \/ (proc[p] = "stopped" /\ p \in news)

ExitProcess(p, c) ==
    /\ proc[p] \in {"running", "stopped"}
    /\ proc' = [proc EXCEPT ![p] = "zombie"]
    /\ code' = [code EXCEPT ![p] = c]
    /\ news' = news \ {p}
    /\ sigchld' = TRUE
    /\ UNCHANGED <<tty, lent, tableVars, bg, ctxs, held, callVars>>

StopProcess(p) ==
    /\ proc[p] = "running"
    /\ proc' = [proc EXCEPT ![p] = "stopped"]
    /\ news' = news \cup {p}
    /\ sigchld' = TRUE
    /\ UNCHANGED <<code, tty, lent, tableVars, bg, ctxs, held, callVars>>

\* A continued process whose stop nobody collected never reports that stop.
ContinueProcess(p) ==
    /\ proc[p] = "stopped"
    /\ proc' = [proc EXCEPT ![p] = "running"]
    /\ news' = news \ {p}
    /\ UNCHANGED <<code, sigchld, tty, lent, tableVars, bg, ctxs, held, callVars>>

Kernel == \E p \in Pid : \/ \E c \in ExitCode : ExitProcess(p, c)
                         \/ StopProcess(p)
                         \/ ContinueProcess(p)

\* waitpid returned p: a zombie is gone for good, a stop is no longer news.
Collect(p) ==
    /\ proc' = IF proc[p] = "zombie" THEN [proc EXCEPT ![p] = "reaped"] ELSE proc
    /\ news' = news \ {p}
    /\ UNCHANGED <<code, sigchld>>

StatusOf(p) == IF proc[p] = "zombie" THEN code[p] ELSE Stopped

-----------------------------------------------------------------------------
Return == at' = "idle" /\ cur' = NoCtx /\ list' = <<>> /\ pos' = 1

(* spawnPipeline and captureOutput.  The loop starts one process per stage; *)
(* how many stages there are is left open until the loop ends.             *)

SpawnBegin(c, mode) ==
    /\ at = "idle"
    /\ ctxs[c].state = "free"
    /\ ctxs' = [ctxs EXCEPT ![c] = NewCtx(mode, <<>>)]
    /\ at' = "spawn" /\ cur' = c /\ list' = <<>> /\ pos' = 1
    /\ UNCHANGED <<kernelVars, tty, lent, tableVars, bg, held>>

SpawnStage(p) ==
    /\ at = "spawn"
    /\ Len(list) < MaxStages
    /\ proc[p] = "unborn"
    /\ proc' = [proc EXCEPT ![p] = "running"]
    /\ list' = Append(list, p)
    /\ UNCHANGED <<code, news, sigchld, tty, lent, tableVars, bg, ctxs, held,
                   at, cur, pos>>

\* Every stage runs: enter the pids in g_pending, then either resolve at
\* once (background), take the terminal, or start to drain the capture pipe.
Stages == {list[i] : i \in DOMAIN list}
StageIdx(p) == CHOOSE i \in DOMAIN list : list[i] = p

SpawnedCtx(mode, pids) ==
    [NewCtx(mode, pids) EXCEPT
        !.pids = pids,
        !.exit = IF mode = "background" THEN Ok ELSE "none",
        !.left = IF mode = "background" THEN 0 ELSE Len(pids),
        !.foreground = mode = "foreground" /\ Interactive,
        !.capture = IF mode = "capture" THEN "open" ELSE "none"]

SpawnEndBackground ==
    /\ at = "spawn"
    /\ list # <<>>
    /\ ctxs[cur].mode = "background"
    /\ owner' = [p \in Pid |-> IF p \in Stages THEN Background ELSE owner[p]]
    /\ ctxs' = [ctxs EXCEPT ![cur] = Resolve(SpawnedCtx("background", list))]
    /\ Return
    /\ UNCHANGED <<kernelVars, tty, lent, slot, orphan, refs, bg, held>>

SpawnEnd ==
    /\ at = "spawn"
    /\ list # <<>>
    /\ ctxs[cur].mode # "background"
    /\ owner' = [p \in Pid |-> IF p \in Stages THEN cur ELSE owner[p]]
    /\ slot' = [p \in Pid |-> IF p \in Stages THEN StageIdx(p) ELSE slot[p]]
    /\ refs' = refs + Len(list)
    /\ ctxs' = [ctxs EXCEPT ![cur] = SpawnedCtx(@.mode, list)]
    /\ tty' = IF ctxs[cur].mode = "foreground" /\ Interactive THEN list[1] ELSE tty
    /\ Return
    /\ UNCHANGED <<kernelVars, lent, orphan, bg, held>>

\* pipe(), posix_spawnp() or fork() failed: the stages started so far are
\* waited for with a blocking waitpid each, on the main thread.
SpawnFail ==
    /\ at = "spawn"
    /\ at' = "drain" /\ pos' = 1
    /\ UNCHANGED <<kernelVars, tty, lent, tableVars, bg, ctxs, held, cur, list>>

DrainStage ==
    /\ at = "drain"
    /\ pos <= Len(list)
    /\ proc[list[pos]] = "zombie"
    /\ Collect(list[pos])
    /\ ErasePending(list[pos])
    /\ pos' = pos + 1
    /\ UNCHANGED <<tty, lent, orphan, bg, ctxs, held, at, cur, list>>

DrainEnd ==
    /\ at = "drain"
    /\ pos > Len(list)
    /\ ctxs' = [ctxs EXCEPT ![cur] = Resolve([@ EXCEPT !.exit = SpawnErr])]
    /\ Return
    /\ UNCHANGED <<kernelVars, tty, lent, tableVars, bg, held>>

-----------------------------------------------------------------------------
(* forkExec and waitForPids.                                               *)

\* Fault: the pid is not entered in g_orphans.
ForkExecUnparked(p, keep) ==
    /\ at = "idle"
    /\ proc[p] = "unborn"
    /\ proc' = [proc EXCEPT ![p] = "running"]
    /\ held' = IF keep THEN Append(held, p) ELSE held
    /\ UNCHANGED <<code, news, sigchld, tty, lent, tableVars, bg, ctxs, callVars>>

\* A mixed pipeline keeps the pid to wait for it; a process substitution
\* drops it.
ForkExec(p, keep) ==
    /\ at = "idle"
    /\ proc[p] = "unborn"
    /\ proc' = [proc EXCEPT ![p] = "running"]
    /\ orphan' = [orphan EXCEPT ![p] = Unreaped]
    /\ held' = IF keep THEN Append(held, p) ELSE held
    /\ UNCHANGED <<code, news, sigchld, tty, lent, owner, slot, refs, bg, ctxs,
                   callVars>>

WaitBegin(c, mode, pids) ==
    /\ at = "idle"
    /\ ctxs[c].state = "free"
    /\ ctxs' = [ctxs EXCEPT ![c] = NewCtx(mode, pids)]
    /\ at' = "wait" /\ cur' = c /\ list' = pids /\ pos' = 1
    /\ UNCHANGED <<kernelVars, tty, lent, tableVars, bg>>

\* executeMixedPipeline waits once for all its external stages.
WaitMixed(c) ==
    /\ held # <<>>
    /\ WaitBegin(c, "mixed", held)
    /\ held' = <<>>

\* What spawnPipeline returned to the job table, for fg and wait.
JobPids == {ctxs[c].pids : c \in {d \in Ctx :
               /\ ctxs[d].state = "resolved"
               /\ \/ ctxs[d].mode = "background"
                  \/ ctxs[d].mode = "foreground" /\ ctxs[d].stopped}}

WaitResume(c, pids) ==
    /\ pids \in JobPids
    /\ WaitBegin(c, "resume", pids)
    /\ UNCHANGED held

\* A pid whose stop, or whose exit, came before the wait: its status is taken
\* from g_orphans.
TakeParkedStop(p) ==
    /\ orphan[p] = Stopped
    /\ orphan' = [orphan EXCEPT ![p] = Unreaped]
    /\ ctxs' = [ctxs EXCEPT ![cur] =
                  [Record(ctxs[cur], pos, Stopped) EXCEPT !.stopped = TRUE]]
    /\ UNCHANGED <<owner, slot, refs>>

TakeParkedExit(p) ==
    /\ orphan[p] \in ExitCode
    /\ orphan' = [orphan EXCEPT ![p] = NoEntry]
    /\ ctxs' = [ctxs EXCEPT ![cur] = Record(ctxs[cur], pos, orphan[p])]
    /\ UNCHANGED <<owner, slot, refs>>

\* Fault: stages counted from 0.
RegisterPidFromZero(p) ==
    /\ orphan[p] \in {Unreaped, NoEntry}
    /\ orphan' = [orphan EXCEPT ![p] = NoEntry]
    /\ owner' = [owner EXCEPT ![p] = cur]
    /\ slot'  = [slot EXCEPT ![p] = pos - 1]
    /\ refs'  = (IF IsCtxBound(p) THEN Released(1) ELSE refs) + 1
    /\ ctxs'  = [ctxs EXCEPT ![cur].left = @ + 1]

\* Any other pid moves to g_pending, whoever had it before.
RegisterPid(p) ==
    /\ orphan[p] \in {Unreaped, NoEntry}
    /\ orphan' = [orphan EXCEPT ![p] = NoEntry]
    /\ owner' = [owner EXCEPT ![p] = cur]
    /\ slot'  = [slot EXCEPT ![p] = pos]
    /\ refs'  = (IF IsCtxBound(p) THEN Released(1) ELSE refs) + 1
    /\ ctxs'  = [ctxs EXCEPT ![cur].left = @ + 1]

\* One turn of the loop of waitForPids, for the pid at pos.
WaitStage ==
    /\ at = "wait"
    /\ pos <= Len(list)
    /\ \/ TakeParkedStop(list[pos])
       \/ TakeParkedExit(list[pos])
       \/ RegisterPid(list[pos])
    /\ pos' = pos + 1
    /\ UNCHANGED <<kernelVars, tty, lent, bg, held, at, cur, list>>

\* Fault: only onSigChld resolves a promise.
WaitEndUnresolved ==
    /\ at = "wait"
    /\ pos > Len(list)
    /\ Return
    /\ UNCHANGED <<kernelVars, tty, lent, tableVars, bg, ctxs, held>>

WaitEnd ==
    /\ at = "wait"
    /\ pos > Len(list)
    /\ ctxs' = [ctxs EXCEPT ![cur] = MaybeFinalize(@)]
    /\ Return
    /\ UNCHANGED <<kernelVars, tty, lent, tableVars, bg, held>>

\* reapChildren hands the buffered background statuses to JS and clears it.
ReapChildren ==
    /\ at = "idle"
    /\ bg # <<>>
    /\ bg' = <<>>
    /\ UNCHANGED <<kernelVars, tty, lent, tableVars, ctxs, held, callVars>>

\* tcsetpgrpFg and tcsetpgrpShell, called by the fg builtin for the group of
\* a job and after it.  The kernel refuses a group with no process left.
TcsetpgrpFg(pids) ==
    /\ at = "idle"
    /\ pids # <<>>
    /\ IF \E i \in DOMAIN pids : proc[pids[i]] # "reaped"
       THEN tty' = pids[1] /\ lent' = pids[1]
       ELSE UNCHANGED <<tty, lent>>
    /\ UNCHANGED <<kernelVars, tableVars, bg, ctxs, held, callVars>>

TcsetpgrpShell ==
    /\ at = "idle"
    /\ lent # Shell
    /\ tty' = Shell /\ lent' = Shell
    /\ UNCHANGED <<kernelVars, tableVars, bg, ctxs, held, callVars>>

\* sendSignal(-pgid, SIGCONT), by fg and bg.
SendCont(pids) ==
    /\ at = "idle"
    /\ LET group == {p \in {pids[i] : i \in DOMAIN pids} : proc[p] = "stopped"}
       IN /\ proc' = [p \in Pid |-> IF p \in group THEN "running" ELSE proc[p]]
          /\ news' = news \ group
    /\ UNCHANGED <<code, sigchld, tty, lent, tableVars, bg, ctxs, held, callVars>>

-----------------------------------------------------------------------------
(* onSigChld: a loop over waitpid(-1, WNOHANG | WUNTRACED).  No JavaScript  *)
(* runs until it ends, but the children go on.                             *)

SigChldBegin ==
    /\ at = "idle"
    /\ sigchld
    /\ sigchld' = FALSE
    /\ at' = "reap"
    /\ UNCHANGED <<proc, code, news, tty, lent, tableVars, bg, ctxs, held,
                   cur, list, pos>>

\* A pid of g_orphans: park the status for the waitForPids to come.  A pid
\* in neither table is forgotten.
ReapUntracked(p) ==
    /\ owner[p] = Untracked
    /\ orphan' = IF orphan[p] # NoEntry THEN [orphan EXCEPT ![p] = StatusOf(p)]
                                        ELSE orphan
    /\ UNCHANGED <<tty, owner, slot, refs, bg, ctxs>>

ReapBackground(p) ==
    /\ owner[p] = Background
    /\ ErasePending(p)
    /\ bg' = Append(bg, [pid |-> p, status |-> StatusOf(p)])
    /\ UNCHANGED <<tty, orphan, ctxs>>

\* Fault: the siblings stay in g_pending.
ReapStoppedAlone(p) ==
    /\ IsCtxBound(p)
    /\ StatusOf(p) = Stopped
    /\ ErasePending(p)
    /\ LET x == ctxs[owner[p]]
       IN /\ ctxs' = [ctxs EXCEPT ![owner[p]] = MaybeFinalize(
                [x EXCEPT !.stopped = TRUE, !.exit = Stopped, !.left = 0])]
          /\ TakeTerminalBack(x)
    /\ UNCHANGED <<orphan, bg>>

\* Fault: the siblings are taken out, and still counted.
ReapStoppedCounted(p) ==
    /\ IsCtxBound(p)
    /\ StatusOf(p) = Stopped
    /\ LET c == owner[p]
           x == ctxs[c]
           siblings == OwnedBy(c) \ {p}
       IN /\ owner' = [q \in Pid |-> IF owner[q] = c THEN Untracked ELSE owner[q]]
          /\ slot'  = [q \in Pid |-> IF owner[q] = c THEN 1 ELSE slot[q]]
          /\ refs'  = Released(1 + Cardinality(siblings))
          /\ orphan' = [q \in Pid |-> IF q \in siblings THEN Unreaped ELSE orphan[q]]
          /\ ctxs' = [ctxs EXCEPT ![c] = MaybeFinalize(
                [x EXCEPT !.stopped = TRUE, !.exit = Stopped, !.left = @ - 1])]
          /\ TakeTerminalBack(x)
    /\ UNCHANGED bg

\* handleStopped: one stage stopped, so its siblings are taken out of
\* g_pending and re-parked, and the promise is resolved as stopped.
ReapStopped(p) ==
    /\ IsCtxBound(p)
    /\ StatusOf(p) = Stopped
    /\ LET c == owner[p]
           x == ctxs[c]
           siblings == OwnedBy(c) \ {p}
       IN /\ owner' = [q \in Pid |-> IF owner[q] = c THEN Untracked ELSE owner[q]]
          /\ slot'  = [q \in Pid |-> IF owner[q] = c THEN 1 ELSE slot[q]]
          /\ refs'  = Released(1 + Cardinality(siblings))
          /\ orphan' = [q \in Pid |-> IF q \in siblings THEN Unreaped ELSE orphan[q]]
          /\ \E order \in Orders(siblings) :
               ctxs' = [ctxs EXCEPT ![c] = MaybeFinalize(
                   [x EXCEPT !.stopped = TRUE, !.exit = Stopped, !.left = 0,
                             !.pids = x.pids \o order])]
          /\ TakeTerminalBack(x)
    /\ UNCHANGED bg

\* One stage died: fill its slot; the last one returns the terminal and
\* resolves the promise.
ReapStage(p) ==
    /\ IsCtxBound(p)
    /\ StatusOf(p) # Stopped
    /\ ErasePending(p)
    /\ LET c == owner[p]
           x == [Record(ctxs[c], slot[p], StatusOf(p)) EXCEPT !.left = @ - 1]
       IN IF x.left = 0
          THEN /\ ctxs' = [ctxs EXCEPT ![c] = MaybeFinalize(x)]
               /\ TakeTerminalBack(x)
          ELSE /\ ctxs' = [ctxs EXCEPT ![c] = x]
               /\ UNCHANGED tty
    /\ UNCHANGED <<orphan, bg>>

Reap(p) ==
    /\ at = "reap"
    /\ Reportable(p)
    /\ Collect(p)
    /\ \/ ReapUntracked(p) \/ ReapBackground(p) \/ ReapStopped(p) \/ ReapStage(p)
    /\ UNCHANGED <<lent, held, callVars>>

SigChldEnd ==
    /\ at = "reap"
    /\ \A p \in Pid : ~Reportable(p)
    /\ at' = "idle"
    /\ UNCHANGED <<kernelVars, tty, lent, tableVars, bg, ctxs, held, cur, list, pos>>

\* Fault: the end of the pipe resolves nothing.
CaptureEofUnresolved(c) ==
    /\ at = "idle"
    /\ ctxs[c].state = "live" /\ ctxs[c].capture = "open"
    /\ ctxs' = [ctxs EXCEPT ![c].capture = "eof"]
    /\ UNCHANGED <<kernelVars, tty, lent, tableVars, bg, held, callVars>>

\* onCaptureReadable meets the end of the capture pipe.  A stage may close
\* its output long before it exits, or leave it to a grandchild.
CaptureEof(c) ==
    /\ at = "idle"
    /\ ctxs[c].state = "live" /\ ctxs[c].capture = "open"
    /\ ctxs' = [ctxs EXCEPT ![c] = MaybeFinalize([@ EXCEPT !.capture = "eof"])]
    /\ UNCHANGED <<kernelVars, tty, lent, tableVars, bg, held, callVars>>

-----------------------------------------------------------------------------
Init ==
    /\ proc = [p \in Pid |-> "unborn"] /\ code = [p \in Pid |-> Ok]
    /\ news = {} /\ sigchld = FALSE
    /\ tty = Shell /\ lent = Shell
    /\ owner = [p \in Pid |-> Untracked] /\ slot = [p \in Pid |-> 1]
    /\ orphan = [p \in Pid |-> NoEntry]
    /\ bg = <<>> /\ refs = 0
    /\ ctxs = [c \in Ctx |-> FreeCtx]
    /\ held = <<>>
    /\ at = "idle" /\ cur = NoCtx /\ list = <<>> /\ pos = 1

JsCall ==
    \/ \E c \in Ctx : \/ \E mode \in {"foreground", "background", "capture"} :
                            SpawnBegin(c, mode)
                      \/ WaitMixed(c)
                      \/ \E pids \in JobPids : WaitResume(c, pids)
    \/ \E p \in Pid, keep \in BOOLEAN : ForkExec(p, keep)
    \/ \E pids \in JobPids : TcsetpgrpFg(pids) \/ SendCont(pids)
    \/ TcsetpgrpShell
    \/ ReapChildren

CallStep == \/ \E p \in Pid : SpawnStage(p)
            \/ SpawnEnd \/ SpawnEndBackground \/ SpawnFail \/ DrainStage \/ DrainEnd
            \/ WaitStage \/ WaitEnd

Callback == \/ SigChldBegin \/ SigChldEnd
            \/ \E p \in Pid : Reap(p)
            \/ \E c \in Ctx : CaptureEof(c)

Next == Kernel \/ JsCall \/ CallStep \/ Callback

Spec == Init /\ [][Next]_vars

\* A call once begun runs to its end, and every turn of the event loop serves
\* all its handles (the SIGCHLD watcher and the capture pipes).  waitpid does
\* not overlook a child for ever.  Nothing is assumed of the children, except
\* that a capture pipe with no writer left reports its end.
AllDead(x) == \A i \in DOMAIN x.want : proc[x.want[i]] \in {"zombie", "reaped"}

Fairness ==
    /\ WF_vars(CallStep)
    /\ SF_vars(SigChldBegin)
    /\ WF_vars(SigChldEnd)
    /\ \A p \in Pid : SF_vars(Reap(p))
    /\ \A c \in Ctx : SF_vars(AllDead(ctxs[c]) /\ CaptureEof(c))

FairSpec == Spec /\ Fairness

-----------------------------------------------------------------------------
(* Properties.                                                             *)

CtxRecord ==
    [state : CtxState, mode : Mode, want : Seq(Pid), status : Seq(WaitStatus),
     exit : WaitStatus \cup {"none"}, stopped : BOOLEAN, left : Int,
     pids : Seq(Pid), foreground : BOOLEAN, capture : {"none", "open", "eof"}]

\* The values every variable ranges over.
TypeOK ==
    /\ proc \in [Pid -> {"unborn", "running", "stopped", "zombie", "reaped"}]
    /\ code \in [Pid -> ExitCode]
    /\ news \subseteq Pid
    /\ sigchld \in BOOLEAN
    /\ tty \in Pid \cup {Shell} /\ lent \in Pid \cup {Shell}
    /\ owner \in [Pid -> Ctx \cup {Background, Untracked}]
    /\ slot \in [Pid -> Nat \ {0}]
    /\ orphan \in [Pid -> WaitStatus \cup {Unreaped, NoEntry}]
    /\ bg \in Seq([pid : Pid, status : WaitStatus])
    /\ refs \in Nat
    /\ ctxs \in [Ctx -> CtxRecord]
    /\ held \in Seq(Pid)
    /\ at \in {"idle", "spawn", "drain", "wait", "reap"}
    /\ cur \in IF at \in {"idle", "reap"} THEN {NoCtx} ELSE Ctx
    /\ list \in Seq(Pid)
    /\ pos \in Nat \ {0}

\* g_pending holds raw SpawnCtx pointers that onSigChld writes through, and a
\* context is deleted as soon as it is resolved: no entry may point to a
\* deleted context, whatever lists of pids JS waits for.
NoDanglingCtx ==
    \A p \in Pid : IsCtxBound(p) => ctxs[owner[p]].state = "live"

\* What makes that so: a context is never counted down to zero while
\* g_pending still holds a pid of it.
CountCovers ==
    \A c \in Ctx : ctxs[c].left >= Cardinality(OwnedBy(c))

\* The SIGCHLD watcher is kept alive by exactly the pids some promise waits
\* for: a reference too many and node never exits, one too few and it exits
\* with the promise pending.
RefsExact == refs = Cardinality(BoundPids)

\* A pid is in g_pending or in g_orphans, never in both: onSigChld would
\* otherwise leave a stale status behind for the next waitForPids.
OneTable == \A p \in Pid : owner[p] # Untracked => orphan[p] = NoEntry

\* When the terminal is not the shell's, a pipeline that is still being
\* waited for has it, or the fg builtin gave it away and has yet to take it
\* back: the prompt is never left without its terminal.
TerminalReturned ==
    tty # Shell => \/ tty = lent
                   \/ \E c \in Ctx : /\ ctxs[c].state = "live"
                                     /\ ctxs[c].foreground
                                     /\ Pgid(ctxs[c]) = tty

(* What the proofs add to these to make them inductive.                    *)

\* A process that does not exist yet is in no table and on no list.
Born(p) == proc[p] # "unborn"

UnbornUnknown ==
    /\ \A p \in Pid : ~Born(p) => owner[p] = Untracked /\ orphan[p] = NoEntry
    /\ \A i \in DOMAIN held : Born(held[i])
    /\ \A i \in DOMAIN list : Born(list[i])
    /\ \A c \in Ctx : \A i \in DOMAIN ctxs[c].pids : Born(ctxs[c].pids[i])

\* The context of a call in progress is not resolved under its feet.
CallCtxLive ==
    at \in {"spawn", "drain", "wait"} =>
        /\ ctxs[cur].state = "live"
        /\ ~ctxs[cur].foreground
        /\ ctxs[cur].capture = "none"

\* While spawnPipeline starts its stages no table knows of them.
SpawnUnregistered ==
    at \in {"spawn", "drain"} =>
        /\ OwnedBy(cur) = {}
        /\ \A i \in DOMAIN list : owner[list[i]] = Untracked /\ orphan[list[i]] = NoEntry
        /\ \A i, j \in DOMAIN list : list[i] = list[j] => i = j

\* Only a pipeline that captures nothing is ever in the foreground.
ForegroundKind ==
    \A c \in Ctx : ctxs[c].foreground => Interactive /\ ctxs[c].capture = "none"

IInv == /\ TypeOK
        /\ NoDanglingCtx /\ CountCovers /\ RefsExact /\ OneTable
        /\ TerminalReturned
        /\ UnbornUnknown /\ CallCtxLive /\ SpawnUnregistered /\ ForegroundKind

\* Between forkExec and waitForPids any number of SIGCHLDs may be handled;
\* none of them loses the status of a pid a mixed pipeline still holds.
HeldStatusKept ==
    \A i \in DOMAIN held :
        /\ proc[held[i]] = "reaped" => orphan[held[i]] = code[held[i]]
        /\ proc[held[i]] = "stopped" /\ held[i] \notin news => orphan[held[i]] = Stopped

\* A promise that does not report a stop reports, in every slot, the code
\* its process really exited with, and the code of the last stage as its own.
StatusFaithful ==
    \A c \in Ctx :
        LET x == ctxs[c]
        IN x.state = "resolved" /\ ~x.stopped /\ x.want # <<>> =>
             /\ x.mode # "background" =>
                  /\ \A i \in DOMAIN x.want : /\ proc[x.want[i]] = "reaped"
                                              /\ x.status[i] = code[x.want[i]]
                  /\ x.exit = code[x.want[Len(x.want)]]

\* A pipeline whose stages have all been reaped is not waited for any more.
\* (A promise of the fg or wait builtin, mode resume, is another matter.)
NeverStuck ==
    \A c \in Ctx :
        LET x == ctxs[c]
        IN x.state = "live" /\ x.want # <<>> /\ x.mode # "resume"
           /\ ~(at = "wait" /\ cur = c) /\ x.capture # "open"
           => \E i \in DOMAIN x.want : proc[x.want[i]] # "reaped"

\* A pipeline all of whose stages die is resolved in the end, whichever of
\* them stop on the way, and whatever else the shell spawns and waits for,
\* as long as the event loop turns: as long as the main thread is not left in
\* the blocking waitpid of a failed spawn, or kept in the loop of onSigChld by
\* a child that is stopped and continued between any two of its turns.
DeadPipelineResolves ==
    []<>(at = "idle") =>
      \A c \in Ctx :
        (ctxs[c].mode # "resume" /\ ctxs[c].state = "live"
           /\ ctxs[c].want # <<>> /\ AllDead(ctxs[c]))
        ~> ctxs[c].state = "resolved"

=============================================================================
