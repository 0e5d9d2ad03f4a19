----------------------------- MODULE JobControl -----------------------------
(***************************************************************************)
(* Job control as the user meets it: the prompt loop                       *)
(* (src/src/repl/index.ts), the foreground and background pipelines and    *)
(* the builtins fg, bg, wait and disown (src/src/executor/index.ts), over  *)
(* the job table and the native executor.                                  *)
(*                                                                         *)
(* The shell runs one command line at a time; cmd says where it is.  A     *)
(* command awaits the promise of one SpawnCtx.  Code between two awaits    *)
(* runs without a callback in between, whatever the children do meanwhile. *)
(*                                                                         *)
(* "Fault:" marks a plausible mistake in the definition that follows it,   *)
(* for the mutation runs; it is no part of the model.                      *)
(***************************************************************************)
EXTENDS ChildTracker, JobTable

ASSUME JobPidAssumption == PidOf = Pid

VARIABLES
    cmd,      \* what the shell is doing
    await,    \* the context whose promise the command awaits
    arg,      \* the job of fg or wait
    todo,     \* the jobs wait has still to wait for
    reaped    \* what reapChildren returned and reapFinishedJobs has yet to read

shVars  == <<cmd, await, arg, todo, reaped>>
jcVars  == <<vars, jobVars, shVars>>

\* Commands in the middle of a stretch of code without an await.
Synchronous == {"report", "fgcont", "fgwait", "waitnext"}

Start(c, name) == cmd = "prompt" /\ cmd' = name /\ await' = c
Finish == cmd' = "loop" /\ await' = NoCtx /\ arg' = 0

\* The promise the command awaits has been resolved, and its continuation runs.
Resolved(name) == cmd = name /\ at = "idle" /\ ctxs[await].state = "resolved"
Result == ctxs[await]

-----------------------------------------------------------------------------
(* Pipelines.                                                              *)

RunPipeline(c) ==
    /\ Start(c, "run")
    /\ HasRoom
    /\ SpawnBegin(c, "foreground")
    /\ UNCHANGED <<jobVars, arg, todo, reaped>>

\* A pipeline that stopped becomes a job.
RunResult ==
    /\ Resolved("run")
    /\ IF Result.stopped THEN AddJob(Result.pids, "stopped") ELSE UNCHANGED jobVars
    /\ Finish
    /\ UNCHANGED <<vars, todo, reaped>>

RunBackground(c) ==
    /\ Start(c, "bgrun")
    /\ HasRoom
    /\ SpawnBegin(c, "background")
    /\ UNCHANGED <<jobVars, arg, todo, reaped>>

\* executeBackground does not look at the exit code: pids is missing, and the
\* pgid -1, when the spawn failed.
BackgroundResult ==
    /\ Resolved("bgrun")
    /\ AddJob(Result.pids, "running")
    /\ Finish
    /\ UNCHANGED <<vars, todo, reaped>>

-----------------------------------------------------------------------------
(* fg, bg, wait, disown.                                                   *)

\* fg marks the job, hands over the terminal, continues the group and waits.
FgBegin(id) ==
    /\ Start(NoCtx, "fgcont")
    /\ at = "idle"
    /\ id \in DOMAIN jobs
    /\ MarkJobRunning(id)
    /\ arg' = id
    /\ IF jobs[id].pids = <<>> THEN UNCHANGED vars ELSE TcsetpgrpFg(jobs[id].pids)
    /\ UNCHANGED <<todo, reaped>>

FgContinue ==
    /\ cmd = "fgcont"
    /\ SendCont(jobs[arg].pids)
    /\ cmd' = "fgwait"
    /\ UNCHANGED <<jobVars, await, arg, todo, reaped>>

\* Fault: fg waits for the leader of the group only.
FgWaitLeader(c) ==
    /\ cmd = "fgwait"
    /\ jobs[arg].pids # <<>>
    /\ WaitBegin(c, "resume", <<Head(jobs[arg].pids)>>)
    /\ cmd' = "fg" /\ await' = c
    /\ UNCHANGED <<held, jobVars, arg, todo, reaped>>

FgWait(c) ==
    /\ cmd = "fgwait"
    /\ WaitResume(c, jobs[arg].pids)
    /\ cmd' = "fg" /\ await' = c
    /\ UNCHANGED <<jobVars, arg, todo, reaped>>

\* Fault: the terminal stays with a job that stopped again.
FgResultLends ==
    /\ Resolved("fg")
    /\ IF lent # Shell /\ ~Result.stopped THEN TcsetpgrpShell ELSE UNCHANGED vars
    /\ IF Result.stopped THEN MarkJobStopped(arg) ELSE RemoveJob(arg)
    /\ Finish
    /\ UNCHANGED <<todo, reaped>>

\* Fault: a job that stopped again is entered again.
FgResultAdds ==
    /\ Resolved("fg")
    /\ IF lent # Shell THEN TcsetpgrpShell ELSE UNCHANGED vars
    /\ IF Result.stopped THEN AddJob(Result.pids, "stopped") ELSE RemoveJob(arg)
    /\ Finish
    /\ UNCHANGED <<todo, reaped>>

FgResult ==
    /\ Resolved("fg")
    /\ IF lent # Shell THEN TcsetpgrpShell ELSE UNCHANGED vars
    /\ IF Result.stopped THEN MarkJobStopped(arg) ELSE RemoveJob(arg)
    /\ Finish
    /\ UNCHANGED <<todo, reaped>>

Bg(id) ==
    /\ cmd = "prompt"
    /\ id \in DOMAIN jobs /\ jobs[id].status = "stopped"
    /\ MarkJobRunning(id)
    /\ SendCont(jobs[id].pids)
    /\ Finish
    /\ UNCHANGED <<todo, reaped>>

\* wait without operands collects the running jobs first, then awaits them
\* one by one in the order of their ids.
Ascending(S) == CHOOSE s \in [1..Cardinality(S) -> S] :
                    \A i, j \in 1..Cardinality(S) : i < j => s[i] < s[j]

WaitAll ==
    /\ Start(NoCtx, "waitnext")
    /\ at = "idle"
    /\ todo' = Ascending({id \in DOMAIN jobs : jobs[id].status = "running"})
    /\ UNCHANGED <<vars, jobVars, arg, reaped>>

\* Fault: the job stays on the list.
WaitNextAgain(c) ==
    /\ cmd = "waitnext"
    /\ todo # <<>>
    /\ WaitResume(c, jobs[Head(todo)].pids)
    /\ cmd' = "wait" /\ await' = c /\ arg' = Head(todo)
    /\ UNCHANGED <<jobVars, todo, reaped>>

WaitNext(c) ==
    /\ cmd = "waitnext"
    /\ todo # <<>>
    /\ WaitResume(c, jobs[Head(todo)].pids)
    /\ cmd' = "wait" /\ await' = c /\ arg' = Head(todo) /\ todo' = Tail(todo)
    /\ UNCHANGED <<jobVars, reaped>>

WaitResult ==
    /\ Resolved("wait")
    /\ IF Result.stopped THEN MarkJobStopped(arg) ELSE RemoveJob(arg)
    /\ cmd' = "waitnext" /\ await' = NoCtx /\ arg' = 0
    /\ UNCHANGED <<vars, todo, reaped>>

WaitDone ==
    /\ cmd = "waitnext"
    /\ todo = <<>>
    /\ Finish
    /\ UNCHANGED <<vars, jobVars, todo, reaped>>

Disown(id) ==
    /\ cmd = "prompt" /\ at = "idle"
    /\ id \in DOMAIN jobs
    /\ RemoveJob(id)
    /\ Finish
    /\ UNCHANGED <<vars, todo, reaped>>

-----------------------------------------------------------------------------
(* The prompt loop.                                                        *)

\* An empty line, Ctrl-C, or a command that starts no process.
OtherLine ==
    /\ cmd = "prompt" /\ at = "idle"
    /\ Finish
    /\ UNCHANGED <<vars, jobVars, todo, reaped>>

PromptLoop ==
    /\ cmd = "loop"
    /\ IF bg # <<>> THEN ReapChildren ELSE UNCHANGED vars
    /\ reaped' = bg
    /\ cmd' = "report"
    /\ UNCHANGED <<jobVars, await, arg, todo>>

\* reapFinishedJobs: a stop marks the job, an exit of any of its processes
\* reports it done and removes it.
ReportOne ==
    /\ cmd = "report"
    /\ reaped # <<>>
    /\ LET r == Head(reaped)
       IN IF JobsWith(r.pid) = {}
          THEN UNCHANGED jobVars
          ELSE \E id \in JobsWith(r.pid) :
                  IF r.status = Stopped THEN MarkJobStopped(id) ELSE RemoveJob(id)
    /\ reaped' = Tail(reaped)
    /\ UNCHANGED <<vars, cmd, await, arg, todo>>

Prompt ==
    /\ cmd = "report"
    /\ reaped = <<>>
    /\ cmd' = "prompt"
    /\ UNCHANGED <<vars, jobVars, await, arg, todo, reaped>>

-----------------------------------------------------------------------------
JobInit == /\ Init
           /\ TableInit
           /\ cmd = "loop" /\ await = NoCtx /\ arg = 0 /\ todo = <<>> /\ reaped = <<>>

CommandLine ==
    \/ \E c \in Ctx : RunPipeline(c) \/ RunBackground(c)
    \/ \E id \in DOMAIN jobs : FgBegin(id) \/ Bg(id) \/ Disown(id)
    \/ WaitAll
    \/ OtherLine

ShellStep ==
    \/ RunResult \/ BackgroundResult
    \/ FgContinue \/ FgResult
    \/ WaitResult \/ WaitDone
    \/ \E c \in Ctx : FgWait(c) \/ WaitNext(c)
    \/ PromptLoop \/ ReportOne \/ Prompt

\* The children, the calls in progress, and the callbacks, which wait for
\* the end of a synchronous stretch.
Below ==
    /\ Kernel \/ CallStep \/ (cmd \notin Synchronous /\ Callback)
    /\ UNCHANGED <<jobVars, shVars>>

JobNext == CommandLine \/ ShellStep \/ Below

JobSpec == JobInit /\ [][JobNext]_jcVars

-----------------------------------------------------------------------------
(* Properties.                                                             *)

\* Whatever ran, stopped, failed to start or was resumed, the prompt comes
\* back with the terminal in the hands of the shell.
PromptOwnsTerminal == cmd \in {"loop", "report", "prompt"} => tty = Shell

\* kill, fg and the reports of the prompt find the job of a process, or a
\* process group, by searching the table: no process is in two jobs.
PidInOneJob ==
    \A p \in Pid : Cardinality(JobsWith(p)) <= 1

\* wait and fg only touch jobs that are still in the table.
TargetsInTable ==
    /\ arg # 0 => arg \in DOMAIN jobs
    /\ \A i \in DOMAIN todo : todo[i] \in DOMAIN jobs

\* The promise a command awaits can no longer be resolved: its processes are
\* gone, their statuses collected, and no SIGCHLD is on its way.
Stuck ==
    /\ at = "idle" /\ await # NoCtx /\ ctxs[await].state = "live"
    /\ \A p \in Pid : p \in {ctxs[await].want[i] : i \in DOMAIN ctxs[await].want}
                        => proc[p] = "reaped"

\* An external pipeline in the foreground is never waited for in vain.
RunReturns == ~(cmd = "run" /\ Stuck)

\* TODO.md: handleStopped re-parks evicted pids, so that fg of a stopped job
\* whose process has meanwhile gone does not wait for ever.
FgReturns == ~(cmd = "fg" /\ Stuck)

=============================================================================
