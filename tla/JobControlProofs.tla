-------------------------- MODULE JobControlProofs --------------------------
(***************************************************************************)
(* Job control, for any number of processes, promises, stages and jobs: it *)
(* makes no call the native executor is not made for, no process is in two *)
(* jobs, fg and wait never touch a job that has left the table, and the    *)
(* prompt comes back with the terminal, whatever has become of a pipeline. *)
(***************************************************************************)
EXTENDS JobControl, ChildTrackerProofs, WellFoundedInduction

-----------------------------------------------------------------------------
(* The job table: %+ and %- never name a job that is not there.            *)

\* A set of numbers that is not empty has a smallest one.
LEMMA Smallest ==
    ASSUME NEW S \in SUBSET Nat, S # {}
    PROVE  \E n \in S : \A m \in S : n <= m
<1>1. \E n \in S : \A m \in S : <<m, n>> \notin OpToRel(<, Nat)
  BY WFMin, NatLessThanWellFounded
<1>2. PICK n \in S : \A m \in S : <<m, n>> \notin OpToRel(<, Nat)
  BY <1>1
<1>3. \A m \in S : <<m, n>> \in Nat \X Nat
  OBVIOUS
<1>4. \A m \in S : ~(m < n)
  BY <1>2, <1>3 DEF OpToRel
<1> QED
  BY <1>4

\* nextId returns an id that is not in use, when there is one.
LEMMA NextIdIsFree ==
    ASSUME HasRoom
    PROVE  NextId \in JobId \ DOMAIN jobs
<1>1. JobId \ DOMAIN jobs \in SUBSET Nat /\ JobId \ DOMAIN jobs # {}
  BY MaxJobsAssumption DEF HasRoom, JobId
<1>2. \E id \in JobId \ DOMAIN jobs : \A other \in JobId \ DOMAIN jobs : id <= other
  BY <1>1, Smallest
<1> QED
  BY <1>2 DEF NextId

TableInv == TableTypeOK /\ CurrentNamesAJob

LEMMA AddJobKeeps ==
    ASSUME TableInv, NEW pids \in Seq(PidOf), NEW status \in Status, AddJob(pids, status)
    PROVE  TableInv'
<1>1. NextId \in JobId \ DOMAIN jobs /\ NextId \in Nat /\ NextId # 0
  BY NextIdIsFree, MaxJobsAssumption DEF AddJob, JobId
<1> DEFINE new == NextId
           entry == [pids |-> pids, status |-> status]
<1>2. /\ jobs' = [id \in DOMAIN jobs \cup {new} |-> IF id = new THEN entry ELSE jobs[id]]
      /\ previous' = current /\ current' = new
  BY DEF AddJob
<1>3. entry \in Job
  BY DEF Job
<1> HIDE DEF new, entry
<1>4. new \in JobId \ DOMAIN jobs /\ new \in Nat /\ new # 0
  BY <1>1 DEF new
<1>5. DOMAIN jobs' = DOMAIN jobs \cup {new}
  BY <1>2
<1>6. TableTypeOK'
  BY <1>2, <1>3, <1>4, <1>5 DEF TableInv, TableTypeOK
<1>7. CurrentNamesAJob'
  BY <1>2, <1>4, <1>5 DEF TableInv, CurrentNamesAJob, TableTypeOK
<1> QED
  BY <1>6, <1>7 DEF TableInv

LEMMA RemoveJobKeeps ==
    ASSUME TableInv, NEW id \in JobId, RemoveJob(id)
    PROVE  TableInv'
<1>1. DOMAIN jobs' = DOMAIN jobs \ {id} /\ \A j \in DOMAIN jobs' : jobs'[j] = jobs[j]
  BY DEF RemoveJob, Without
<1>2. jobs' \in [DOMAIN jobs' -> Job] /\ DOMAIN jobs' \subseteq JobId
  BY <1>1 DEF TableInv, TableTypeOK, RemoveJob, Without
<1>3. TableTypeOK'
  BY <1>2 DEF TableInv, TableTypeOK, RemoveJob
<1>4. id # 0
  BY MaxJobsAssumption DEF JobId
<1>5. CurrentNamesAJob'
  BY <1>1, <1>4 DEF TableInv, CurrentNamesAJob, RemoveJob
<1> QED
  BY <1>3, <1>5 DEF TableInv

LEMMA MarkKeeps ==
    ASSUME TableInv, NEW id \in JobId, NEW status \in Status, Mark(id, status)
    PROVE  TableInv'
<1>1. DOMAIN jobs' = DOMAIN jobs /\ current' = current /\ previous' = previous
  BY DEF Mark, TableInv, TableTypeOK
<1>2. jobs' \in [DOMAIN jobs' -> Job]
  BY <1>1 DEF Mark, TableInv, TableTypeOK, Job
<1>3. TableTypeOK'
  BY <1>1, <1>2 DEF TableInv, TableTypeOK
<1>4. CurrentNamesAJob'
  BY <1>1 DEF TableInv, CurrentNamesAJob
<1> QED
  BY <1>3, <1>4 DEF TableInv

\* The table is well formed, and the current and the previous job are two
\* different jobs in it.
THEOREM TableCorrect == TableSpec => [](TableTypeOK /\ CurrentNamesAJob)
<1>1. TableInit => TableInv
  BY DEF TableInit, TableInv, TableTypeOK, CurrentNamesAJob
<1>2. TableInv /\ [TableNext]_jobVars => TableInv'
  <2> SUFFICES ASSUME TableInv, [TableNext]_jobVars PROVE TableInv'
    OBVIOUS
  <2>1. CASE UNCHANGED jobVars
    BY <2>1 DEF jobVars, TableInv, TableTypeOK, CurrentNamesAJob
  <2>2. ASSUME NEW pid \in PidOf, NEW status \in {"running", "stopped"},
               AddJob(<<pid>>, status)
        PROVE  TableInv'
    <3>1. <<pid>> \in Seq(PidOf) /\ status \in Status
      BY DEF Status
    <3> QED
      BY <2>2, <3>1, AddJobKeeps
  <2>3. ASSUME NEW id \in JobId, RemoveJob(id) PROVE TableInv'
    BY <2>3, RemoveJobKeeps
  <2>4. ASSUME NEW id \in JobId, MarkJobStopped(id) \/ MarkJobRunning(id)
        PROVE  TableInv'
    BY <2>4, MarkKeeps DEF MarkJobStopped, MarkJobRunning, Status
  <2> QED
    BY <2>1, <2>2, <2>3, <2>4 DEF TableNext
<1>3. TableInv => TableTypeOK /\ CurrentNamesAJob
  BY DEF TableInv
<1> QED
  BY <1>1, <1>2, <1>3, PTL DEF TableSpec

-----------------------------------------------------------------------------
(* The inductive invariant: IInv and ListsInv of the native executor,      *)
(* TableInv of the job table, and the conjuncts below.                     *)

Commands == {"loop", "report", "prompt", "run", "bgrun",
             "fgcont", "fgwait", "fg", "waitnext", "wait"}
Awaiting == {"run", "bgrun", "fg", "wait"}
Targeting == {"fgcont", "fgwait", "fg", "wait"}

\* The values the variables of the shell range over.
ShellTypeOK ==
    /\ cmd \in Commands
    /\ await \in Ctx \cup {NoCtx}
    /\ arg \in Nat
    /\ todo \in Seq(Nat)
    /\ reaped \in Seq([pid : Pid, status : WaitStatus])

\* A command awaits a promise of its own kind.
AwaitKind ==
    /\ cmd \notin Awaiting => await = NoCtx
    /\ cmd \in Awaiting => await \in Ctx /\ ctxs[await].state # "free"
    /\ cmd = "run" => ctxs[await].mode = "foreground" /\ ctxs[await].capture = "none"
    /\ cmd = "bgrun" => ctxs[await].mode = "background"
    /\ cmd \in {"fg", "wait"} => ctxs[await].mode = "resume"

\* There is no other promise.
LiveAwaited == \A c \in Ctx : ctxs[c].state = "live" => c = await

\* What spawnPipeline returns for the job table.
GivesJob(c) ==
    /\ ctxs[c].state = "resolved"
    /\ ctxs[c].mode = "background" \/ (ctxs[c].mode = "foreground" /\ ctxs[c].stopped)

\* A job is one pipeline, whose promise has been resolved and read.
JobOrigin ==
    \A id \in DOMAIN jobs :
        \E c \in Ctx : c # await /\ GivesJob(c) /\ jobs[id].pids = ctxs[c].pids

JobsDisjoint ==
    \A id, other \in DOMAIN jobs : id # other =>
        \A p \in PidsIn(jobs[id].pids) : p \notin PidsIn(jobs[other].pids)

\* The jobs of fg and wait are in the table, and wait takes up each once.
Targets ==
    /\ cmd \in Targeting => arg \in DOMAIN jobs
    /\ cmd \notin Targeting => arg = 0
    /\ cmd \notin {"waitnext", "wait"} => todo = <<>>
    /\ \A i \in DOMAIN todo : todo[i] \in DOMAIN jobs /\ todo[i] # arg
    /\ OneEach(todo)

\* Only fg lends the terminal, and takes it back before it ends.
LentByFg == lent # Shell => cmd \in {"fgcont", "fgwait", "fg"}

ShellInv == /\ ShellTypeOK /\ AwaitKind /\ LiveAwaited /\ JobOrigin
            /\ JobsDisjoint /\ Targets /\ LentByFg

JobInv == IInv /\ ListsInv /\ TableInv /\ ShellInv

-----------------------------------------------------------------------------
(* What the native executor does to the promises below a command.          *)

\* Promises are resolved, and nothing else: none is begun, none changes once
\* it is resolved, and only captureOutput opens a capture pipe.
Stays ==
    \A c \in Ctx :
        /\ ctxs'[c].mode = ctxs[c].mode
        /\ ctxs'[c].state = "free" <=> ctxs[c].state = "free"
        /\ ctxs[c].state = "resolved" => ctxs'[c] = ctxs[c]
        /\ ctxs[c].mode # "capture" /\ ctxs[c].capture = "none" => ctxs'[c].capture = "none"

LEMMA OneWritten ==
    ASSUME TypeOK, NEW c \in Ctx, NEW y \in CtxRecord,
           ctxs' = [ctxs EXCEPT ![c] = y], ctxs[c].state = "live",
           y.mode = ctxs[c].mode, y.state \in {"live", "resolved"},
           ctxs[c].mode # "capture" /\ ctxs[c].capture = "none" => y.capture = "none"
    PROVE  Stays
<1>1. ctxs'[c] = y /\ \A d \in Ctx : d # c => ctxs'[d] = ctxs[d]
  BY DEF TypeOK
<1> QED
  BY <1>1 DEF Stays

LEMMA NoneWritten == ASSUME ctxs' = ctxs PROVE Stays
BY DEF Stays

\* The pipeline whose stages have all been started captures nothing, unless
\* it is that of captureOutput.
LEMMA SpawnEndStays == ASSUME IInv, ListsInv, SpawnEnd \/ SpawnEndBackground PROVE Stays
<1>1. PICK c \in Ctx, mode \in Mode, y \in CtxRecord : Entered(c, mode, y)
  BY SpawnEndEffect
<1>2. /\ ctxs' = [ctxs EXCEPT ![c] = y] /\ ctxs[c].state = "live"
      /\ y.mode = ctxs[c].mode /\ y.state \in {"live", "resolved"} /\ c = cur
      /\ ctxs'[c] = y
  BY <1>1 DEF Entered, IInv, TypeOK
<1>3. ctxs[c].mode # "capture" => y.capture = "none"
  <2>1. CASE SpawnEnd
    <3>1. y = SpawnedCtx(ctxs[c].mode, list)
      BY <1>2, <2>1 DEF SpawnEnd, IInv, TypeOK
    <3> QED
      BY <3>1 DEF SpawnedCtx, NewCtx
  <2>2. CASE SpawnEndBackground
    <3>1. y = Resolve(SpawnedCtx("background", list))
      BY <1>2, <2>2 DEF SpawnEndBackground, IInv, TypeOK
    <3> QED
      BY <3>1 DEF SpawnedCtx, NewCtx, Resolve
  <2> QED
    BY <2>1, <2>2
<1> QED
  BY <1>2, <1>3, OneWritten DEF IInv

LEMMA WaitStageStays == ASSUME IInv, WaitStage PROVE Stays
<1>1. PICK c \in Ctx, p \in Pid, x \in CtxRecord, y \in CtxRecord : Turn(c, p, x, y)
  BY WaitStageEffect
<1> QED
  BY <1>1, OneWritten DEF Turn, Kin, IInv

LEMMA WaitEndStays == ASSUME IInv, WaitEnd PROVE Stays
<1> DEFINE x == ctxs[cur]
           y == MaybeFinalize(x)
<1>1. cur \in Ctx /\ x \in CtxRecord /\ x.state = "live" /\ x.capture = "none"
  BY CallCtx DEF WaitEnd, IInv, CallCtxLive
<1>2. ctxs' = [ctxs EXCEPT ![cur] = y]
  BY DEF WaitEnd
<1>3. /\ y \in CtxRecord /\ Kin(x, y)
      /\ y.state = IF x.left > 0 \/ x.capture = "open" THEN x.state ELSE "resolved"
  BY <1>1, FinalizeEffect
<1> HIDE DEF y
<1> QED
  BY <1>1, <1>2, <1>3, OneWritten DEF Kin, IInv

LEMMA CaptureEofStays == ASSUME IInv, NEW c \in Ctx, CaptureEof(c) PROVE Stays
<1>1. PICK x \in CtxRecord, y \in CtxRecord : Ended(c, x, y)
  BY CaptureEofEffect
<1>2. ctxs[c].capture = "open"
  BY DEF CaptureEof
<1> QED
  BY <1>1, <1>2, OneWritten DEF Ended, IInv

LEMMA DrainEndStays == ASSUME IInv, DrainEnd PROVE Stays
<1>1. cur \in Ctx
  BY DrainEndEffect
<1>2. PICK y \in CtxRecord :
         /\ ctxs' = [ctxs EXCEPT ![cur] = y] /\ ctxs[cur].state = "live"
         /\ Kin(ctxs[cur], y) /\ y.state = "resolved"
  BY DrainEndEffect
<1> QED
  BY <1>1, <1>2, OneWritten DEF Kin, IInv

LEMMA ReapStays == ASSUME IInv, NEW p \in Pid, Reap(p) PROVE Stays
<1>1. CASE ReapUntracked(p) \/ ReapBackground(p)
  BY <1>1, NoneWritten DEF ReapUntracked, ReapBackground
<1>2. CASE ReapStage(p)
  <2>1. PICK c \in Ctx, x \in CtxRecord, y \in CtxRecord : ReapedOne(c, p, x, y)
    BY <1>2, ReapStageEffect
  <2> QED
    BY <2>1, OneWritten DEF ReapedOne, Kin, IInv
<1>3. CASE ReapStopped(p)
  <2>1. PICK c \in Ctx, x \in CtxRecord, y \in CtxRecord : ReapedStop(c, p, x, y)
    BY <1>3, ReapStoppedEffect
  <2> QED
    BY <2>1, OneWritten DEF ReapedStop, Kin, IInv
<1> QED
  BY <1>1, <1>2, <1>3 DEF Reap

\* The children, the calls in progress and the callbacks.
LEMMA BelowStays ==
    ASSUME IInv, ListsInv, Kernel \/ CallStep \/ Callback
    PROVE  Stays /\ lent' = lent
<1>1. CASE Kernel
  <2>1. UNCHANGED <<ctxs, lent>>
    BY <1>1 DEF Kernel, ExitProcess, StopProcess, ContinueProcess
  <2> QED
    BY <2>1, NoneWritten
<1>2. ASSUME NEW p \in Pid, SpawnStage(p) PROVE Stays /\ lent' = lent
  BY <1>2, NoneWritten DEF SpawnStage
<1>3. CASE SpawnFail \/ DrainStage \/ SigChldBegin \/ SigChldEnd
  BY <1>3, NoneWritten DEF SpawnFail, DrainStage, SigChldBegin, SigChldEnd
<1>4. CASE SpawnEnd \/ SpawnEndBackground \/ DrainEnd \/ WaitStage \/ WaitEnd
  BY <1>4, SpawnEndStays, DrainEndStays, WaitStageStays, WaitEndStays
     DEF SpawnEnd, SpawnEndBackground, DrainEnd, WaitStage, WaitEnd
<1>5. ASSUME NEW p \in Pid, Reap(p) PROVE Stays /\ lent' = lent
  BY <1>5, ReapStays DEF Reap
<1>6. ASSUME NEW c \in Ctx, CaptureEof(c) PROVE Stays /\ lent' = lent
  BY <1>6, CaptureEofStays DEF CaptureEof
<1> QED
  BY <1>1, <1>2, <1>3, <1>4, <1>5, <1>6 DEF CallStep, Callback

-----------------------------------------------------------------------------
(* Every step of the shell is a step of the native executor.               *)

LEMMA JobIsPids ==
    ASSUME JobOrigin, NEW id \in DOMAIN jobs
    PROVE  jobs[id].pids \in JobPids
<1>1. PICK c \in Ctx : GivesJob(c) /\ jobs[id].pids = ctxs[c].pids
  BY DEF JobOrigin
<1> QED
  BY <1>1 DEF GivesJob, JobPids

LEMMA BelowIsStep == ASSUME Below PROVE Next
BY DEF Below, Next

LEMMA CommandIsStep == ASSUME ShellInv, CommandLine PROVE [Next]_vars
<1>1. ASSUME NEW c \in Ctx, RunPipeline(c) \/ RunBackground(c) PROVE [Next]_vars
  <2>1. \E mode \in {"foreground", "background", "capture"} : SpawnBegin(c, mode)
    BY <1>1 DEF RunPipeline, RunBackground
  <2> QED
    BY <2>1 DEF Next, JsCall
<1>2. ASSUME NEW id \in DOMAIN jobs, FgBegin(id) PROVE [Next]_vars
  <2>1. UNCHANGED vars \/ TcsetpgrpFg(jobs[id].pids)
    BY <1>2 DEF FgBegin
  <2>2. jobs[id].pids \in JobPids
    BY JobIsPids DEF ShellInv
  <2> QED
    BY <2>1, <2>2 DEF Next, JsCall
<1>3. ASSUME NEW id \in DOMAIN jobs, Bg(id) PROVE [Next]_vars
  <2>1. SendCont(jobs[id].pids) /\ jobs[id].pids \in JobPids
    BY <1>3, JobIsPids DEF Bg, ShellInv
  <2> QED
    BY <2>1 DEF Next, JsCall
<1>4. ASSUME \/ \E id \in DOMAIN jobs : Disown(id)
             \/ WaitAll \/ OtherLine
      PROVE  UNCHANGED vars
  BY <1>4 DEF Disown, WaitAll, OtherLine
<1> QED
  BY <1>1, <1>2, <1>3, <1>4 DEF CommandLine

LEMMA ShellStepIsStep == ASSUME ShellInv, ShellStep PROVE [Next]_vars
<1>1. CASE RunResult \/ BackgroundResult \/ WaitResult \/ WaitDone \/ ReportOne \/ Prompt
  BY <1>1 DEF RunResult, BackgroundResult, WaitResult, WaitDone, ReportOne, Prompt
<1>2. CASE FgContinue
  <2>1. SendCont(jobs[arg].pids) /\ arg \in DOMAIN jobs
    BY <1>2 DEF FgContinue, ShellInv, Targets, Targeting
  <2>2. jobs[arg].pids \in JobPids
    BY <2>1, JobIsPids DEF ShellInv
  <2> QED
    BY <2>1, <2>2 DEF Next, JsCall
<1>3. CASE FgResult
  <2>1. UNCHANGED vars \/ TcsetpgrpShell
    BY <1>3 DEF FgResult
  <2> QED
    BY <2>1 DEF Next, JsCall
<1>4. ASSUME NEW c \in Ctx, FgWait(c) \/ WaitNext(c) PROVE [Next]_vars
  <2>1. \E pids \in JobPids : WaitResume(c, pids)
    BY <1>4 DEF FgWait, WaitNext, WaitResume
  <2> QED
    BY <2>1 DEF Next, JsCall
<1>5. CASE PromptLoop
  <2>1. UNCHANGED vars \/ ReapChildren
    BY <1>5 DEF PromptLoop
  <2> QED
    BY <2>1 DEF Next, JsCall
<1> QED
  BY <1>1, <1>2, <1>3, <1>4, <1>5 DEF ShellStep

LEMMA JobStepIsStep == ShellInv /\ [JobNext]_jcVars => [Next]_vars
<1>1. UNCHANGED jcVars => UNCHANGED vars
  BY DEF jcVars
<1>2. Below => Next
  BY BelowIsStep
<1> QED
  BY <1>1, <1>2, CommandIsStep, ShellStepIsStep DEF JobNext

-----------------------------------------------------------------------------
(* What the calls of the job table do to the jobs.                         *)

\* The table loses no job but those of gone, and gains none.
Keeps(gone) ==
    /\ DOMAIN jobs' = DOMAIN jobs \ gone
    /\ \A id \in DOMAIN jobs' : jobs'[id].pids = jobs[id].pids

LEMMA KeepsAll == ASSUME jobs' = jobs PROVE Keeps({})
BY DEF Keeps

LEMMA MarkEffect ==
    ASSUME TableInv, NEW id, NEW status, Mark(id, status)
    PROVE  Keeps({})
BY DEF Mark, Keeps, TableInv, TableTypeOK, Job

LEMMA RemoveEffect == ASSUME NEW id, RemoveJob(id) PROVE Keeps({id})
BY DEF RemoveJob, Without, Keeps

\* The table gains one job.
Gains(id, pids) ==
    /\ id \notin DOMAIN jobs /\ DOMAIN jobs' = DOMAIN jobs \cup {id}
    /\ jobs'[id].pids = pids
    /\ \A other \in DOMAIN jobs : jobs'[other].pids = jobs[other].pids

LEMMA AddEffect ==
    ASSUME NEW pids, NEW status, AddJob(pids, status)
    PROVE  \E id \in JobId : Gains(id, pids)
<1> DEFINE new == NextId
           entry == [pids |-> pids, status |-> status]
<1>1. new \in JobId \ DOMAIN jobs
  BY NextIdIsFree DEF AddJob
<1>2. jobs' = [id \in DOMAIN jobs \cup {new} |-> IF id = new THEN entry ELSE jobs[id]]
  BY DEF AddJob
<1>3. entry.pids = pids
  OBVIOUS
<1> HIDE DEF new, entry
<1>4. Gains(new, pids)
  BY <1>1, <1>2, <1>3 DEF Gains
<1> QED
  BY <1>1, <1>4

\* A set of ids can be listed in ascending order.
LEMMA AscendingIds ==
    ASSUME NEW S \in SUBSET JobId
    PROVE  /\ Ascending(S) \in [1..Cardinality(S) -> S]
           /\ \A i, j \in 1..Cardinality(S) : i < j => Ascending(S)[i] < Ascending(S)[j]
<1> DEFINE Listed(T) == \E s \in [1..Cardinality(T) -> T] :
                            \A i, j \in 1..Cardinality(T) : i < j => s[i] < s[j]
           Bad == {n \in Nat : \E T \in SUBSET JobId : Cardinality(T) = n /\ ~Listed(T)}
<1>0. /\ JobId \subseteq Nat
      /\ \A T \in SUBSET JobId : IsFiniteSet(T) /\ Cardinality(T) \in Nat
  <2>1. IsFiniteSet(JobId)
    BY MaxJobsAssumption, FS_Interval DEF JobId
  <2>2. JobId \subseteq Nat
    BY MaxJobsAssumption DEF JobId
  <2>3. ASSUME NEW T \in SUBSET JobId PROVE IsFiniteSet(T) /\ Cardinality(T) \in Nat
    BY <2>1, FS_Subset, FS_CardinalityType
  <2> QED
    BY <2>2, <2>3
<1>1. Bad = {}
  <2> SUFFICES ASSUME Bad # {} PROVE FALSE
    OBVIOUS
  <2>1. PICK n \in Bad : \A m \in Bad : n <= m
    BY Smallest
  <2>2. PICK T \in SUBSET JobId : Cardinality(T) = n /\ ~Listed(T)
    OBVIOUS
  <2>3. T # {}
    <3> SUFFICES ASSUME T = {} PROVE FALSE
      OBVIOUS
    <3>1. Cardinality(T) = 0
      BY FS_EmptySet
    <3>2. [i \in 1..0 |-> 0] \in [1..Cardinality(T) -> T]
      BY <3>1
    <3> QED
      BY <2>2, <3>1, <3>2
  <2>4. PICK a \in T : \A b \in T : a <= b
    BY <1>0, <2>3, Smallest
  <2> DEFINE R == T \ {a}
  <2>5. R \in SUBSET JobId /\ Cardinality(R) = n - 1 /\ n \in Nat /\ n > 0
    <3>1. Cardinality(R) = Cardinality(T) - 1
      BY <1>0, FS_RemoveElement
    <3> QED
      BY <1>0, <2>2, <3>1
  <2>6. PICK s \in [1..(n - 1) -> R] : \A i, j \in 1..(n - 1) : i < j => s[i] < s[j]
    <3>1. n - 1 \notin Bad /\ n - 1 \in Nat
      BY <2>1, <2>5
    <3>2. Listed(R)
      BY <2>5, <3>1
    <3> QED
      BY <2>5, <3>2
  <2> DEFINE t == [i \in 1..n |-> IF i = 1 THEN a ELSE s[i - 1]]
  <2>7. t \in [1..n -> T]
    BY <2>5, <2>6
  <2>8. \A i, j \in 1..n : i < j => t[i] < t[j]
    <3> SUFFICES ASSUME NEW i \in 1..n, NEW j \in 1..n, i < j PROVE t[i] < t[j]
      OBVIOUS
    <3>1. j - 1 \in 1..(n - 1) /\ t[j] = s[j - 1] /\ t[j] \in R
      BY <2>5, <2>6
    <3>2. CASE i = 1
      <4>1. a \in Nat /\ t[j] \in Nat /\ a <= t[j] /\ a # t[j] /\ t[i] = a
        BY <1>0, <2>4, <2>5, <3>1, <3>2
      <4> HIDE DEF t
      <4> QED
        BY <4>1
    <3>3. CASE i # 1
      BY <2>5, <2>6, <3>1, <3>3
    <3> QED
      BY <3>2, <3>3
  <2> QED
    BY <2>2, <2>7, <2>8
<1>2. Listed(S)
  BY <1>0, <1>1
<1> QED
  BY <1>2 DEF Ascending

-----------------------------------------------------------------------------
(* The table stays well formed.                                            *)

LEMMA JobPidsAreLists ==
    ASSUME TypeOK, ShellTypeOK, AwaitKind, cmd \in {"run", "bgrun"}
    PROVE  Result.pids \in Seq(PidOf)
<1>1. await \in Ctx
  BY DEF AwaitKind, Awaiting
<1> QED
  BY <1>1, JobPidAssumption DEF Result, TypeOK, CtxRecord

LEMMA TableStep ==
    ASSUME TypeOK, TableInv, ShellInv, [JobNext]_jcVars
    PROVE  TableInv'
<1>0. DOMAIN jobs \subseteq JobId /\ {"running", "stopped"} \subseteq Status
  BY DEF TableInv, TableTypeOK, Status
<1>1. ASSUME UNCHANGED jobVars PROVE TableInv'
  BY <1>1 DEF jobVars, TableInv, TableTypeOK, CurrentNamesAJob
<1>2. ASSUME NEW id \in DOMAIN jobs, MarkJobStopped(id) \/ MarkJobRunning(id) \/ RemoveJob(id)
      PROVE  TableInv'
  BY <1>0, <1>2, MarkKeeps, RemoveJobKeeps DEF MarkJobStopped, MarkJobRunning
<1>3. ASSUME cmd \in {"run", "bgrun"}, NEW status \in {"running", "stopped"},
             AddJob(Result.pids, status)
      PROVE  TableInv'
  BY <1>0, <1>3, JobPidsAreLists, AddJobKeeps DEF ShellInv
<1>4. ASSUME NEW id \in DOMAIN jobs, FgBegin(id) \/ Bg(id) \/ Disown(id) PROVE TableInv'
  BY <1>2, <1>4 DEF FgBegin, Bg, Disown
<1>5. ASSUME FgResult \/ WaitResult PROVE TableInv'
  <2>1. arg \in DOMAIN jobs
    BY <1>5 DEF FgResult, WaitResult, Resolved, ShellInv, Targets, Targeting
  <2> QED
    BY <1>2, <1>5, <2>1 DEF FgResult, WaitResult
<1>6. CASE RunResult
  BY <1>1, <1>3, <1>6 DEF RunResult, Resolved
<1>7. CASE BackgroundResult
  BY <1>3, <1>7 DEF BackgroundResult, Resolved
<1>8. CASE ReportOne
  <2>1. \A pid : JobsWith(pid) \subseteq DOMAIN jobs
    BY DEF JobsWith
  <2>2. \/ UNCHANGED jobVars
        \/ \E id \in DOMAIN jobs : MarkJobStopped(id) \/ RemoveJob(id)
    BY <1>8, <2>1 DEF ReportOne
  <2> QED
    BY <1>1, <1>2, <2>2
<1>9. ASSUME \/ \E c \in Ctx : RunPipeline(c) \/ RunBackground(c) \/ FgWait(c) \/ WaitNext(c)
             \/ WaitAll \/ OtherLine \/ FgContinue \/ WaitDone \/ PromptLoop \/ Prompt
             \/ Below \/ UNCHANGED jcVars
      PROVE  TableInv'
  BY <1>1, <1>9 DEF RunPipeline, RunBackground, FgWait, WaitNext, WaitAll, OtherLine, FgContinue,
         WaitDone, PromptLoop, Prompt, Below, jcVars
<1>10. CASE CommandLine
  BY <1>1, <1>4, <1>9, <1>10 DEF CommandLine
<1>11. CASE ShellStep
  BY <1>1, <1>5, <1>6, <1>7, <1>8, <1>9, <1>11 DEF ShellStep
<1> QED
  BY <1>1, <1>9, <1>10, <1>11 DEF JobNext

-----------------------------------------------------------------------------
(* The jobs keep their origin, and stay apart.                             *)

\* As long as the promises the jobs come from are left alone.
LEMMA JobsKept ==
    ASSUME JobOrigin, JobsDisjoint, NEW gone, Keeps(gone),
           \A c \in Ctx : c # await /\ GivesJob(c) => c # await' /\ ctxs'[c] = ctxs[c]
    PROVE  JobOrigin' /\ JobsDisjoint'
<1>1. JobOrigin'
  <2> SUFFICES ASSUME NEW id \in DOMAIN jobs'
               PROVE  \E c \in Ctx : /\ c # await' /\ GivesJob(c)'
                                     /\ jobs'[id].pids = ctxs'[c].pids
    BY DEF JobOrigin
  <2>1. id \in DOMAIN jobs /\ jobs'[id].pids = jobs[id].pids
    BY DEF Keeps
  <2>2. PICK c \in Ctx : c # await /\ GivesJob(c) /\ jobs[id].pids = ctxs[c].pids
    BY <2>1 DEF JobOrigin
  <2>3. ctxs'[c] = ctxs[c] /\ c # await'
    BY <2>2
  <2>4. GivesJob(c)'
    BY <2>2, <2>3 DEF GivesJob
  <2> QED
    BY <2>1, <2>2, <2>3, <2>4
<1>2. JobsDisjoint'
  BY DEF JobsDisjoint, Keeps
<1> QED
  BY <1>1, <1>2

\* A pipeline becomes a job: no other job has a process of it.
LEMMA JobGained ==
    ASSUME ListsInv, JobOrigin, JobsDisjoint, await \in Ctx, GivesJob(await),
           NEW new \in JobId, Gains(new, ctxs[await].pids),
           ctxs' = ctxs, await' = NoCtx
    PROVE  JobOrigin' /\ JobsDisjoint'
<1>1. /\ new \notin DOMAIN jobs /\ DOMAIN jobs' = DOMAIN jobs \cup {new}
      /\ jobs'[new].pids = ctxs[await].pids
      /\ \A other \in DOMAIN jobs : jobs'[other].pids = jobs[other].pids
  BY DEF Gains
<1>2. \A c \in Ctx : (GivesJob(c)' <=> GivesJob(c)) /\ (GivesJob(c) => Spawning(c))
  BY DEF GivesJob, Spawning
<1>3. JobOrigin'
  <2> SUFFICES ASSUME NEW id \in DOMAIN jobs'
               PROVE  \E c \in Ctx : /\ c # await' /\ GivesJob(c)'
                                     /\ jobs'[id].pids = ctxs'[c].pids
    BY DEF JobOrigin
  <2>1. CASE id = new
    BY <1>1, <1>2, <2>1, CtxAssumption
  <2>2. CASE id # new
    BY <1>1, <1>2, <2>2, CtxAssumption DEF JobOrigin
  <2> QED
    BY <2>1, <2>2
<1>4. ASSUME NEW id \in DOMAIN jobs
      PROVE  \A p \in PidsIn(jobs[id].pids) : p \notin PidsIn(ctxs[await].pids)
  <2>1. PICK c \in Ctx : c # await /\ GivesJob(c) /\ jobs[id].pids = ctxs[c].pids
    BY DEF JobOrigin
  <2> QED
    BY <1>2, <2>1 DEF ListsInv, PidsApart
<1>5. JobsDisjoint'
  <2> SUFFICES ASSUME NEW id \in DOMAIN jobs', NEW other \in DOMAIN jobs', id # other,
                      NEW p \in PidsIn(jobs'[id].pids)
               PROVE  p \notin PidsIn(jobs'[other].pids)
    BY DEF JobsDisjoint
  <2>1. CASE id = new
    BY <1>1, <1>4, <2>1
  <2>2. CASE other = new
    BY <1>1, <1>4, <2>2
  <2>3. CASE id # new /\ other # new
    BY <1>1, <2>3 DEF JobsDisjoint
  <2> QED
    BY <2>1, <2>2, <2>3
<1> QED
  BY <1>3, <1>5

-----------------------------------------------------------------------------
(* ShellInv, step by step.                                                 *)

LEMMA BelowKeeps == ASSUME IInv, ListsInv, ShellInv, Below PROVE ShellInv'
<1>1. Stays /\ UNCHANGED <<jobs, cmd, await, arg, todo, reaped, lent>>
  BY BelowStays DEF Below, jobVars, shVars
<1>2. ShellTypeOK' /\ Targets' /\ LentByFg'
  BY <1>1 DEF ShellInv, ShellTypeOK, Targets, LentByFg, OneEach
<1>3. AwaitKind'
  BY <1>1 DEF ShellInv, AwaitKind, Awaiting, Stays
<1>4. LiveAwaited'
  <2> SUFFICES ASSUME NEW c \in Ctx, ctxs'[c].state = "live" PROVE c = await'
    BY DEF LiveAwaited
  <2>1. ctxs[c].state # "free" /\ ctxs[c].state # "resolved"
    BY <1>1 DEF Stays
  <2>2. ctxs[c].state = "live"
    BY <2>1 DEF IInv, TypeOK, CtxRecord, CtxState
  <2> QED
    BY <1>1, <2>2 DEF ShellInv, LiveAwaited
<1>5. JobOrigin' /\ JobsDisjoint'
  BY <1>1, KeepsAll, JobsKept DEF ShellInv, Stays, GivesJob
<1> QED
  BY <1>2, <1>3, <1>4, <1>5 DEF ShellInv

\* A command begins to await a promise.
Opens(c, mode, want) ==
    /\ ctxs[c].state = "free" /\ await' = c
    /\ ctxs' = [ctxs EXCEPT ![c] = NewCtx(mode, want)]
    /\ jobs' = jobs /\ lent' = lent

LEMMA OpensKeeps ==
    ASSUME IInv, ShellInv, await = NoCtx, NEW c \in Ctx, NEW mode, NEW want, Opens(c, mode, want)
    PROVE  /\ JobOrigin' /\ JobsDisjoint' /\ LiveAwaited'
           /\ await' \in Ctx /\ ctxs'[await'].state # "free"
           /\ ctxs'[await'].mode = mode /\ ctxs'[await'].capture = "none"
<1>1. /\ ctxs'[c] = NewCtx(mode, want) /\ \A d \in Ctx : d # c => ctxs'[d] = ctxs[d]
      /\ await' = c /\ ctxs[c].state = "free" /\ jobs' = jobs
  BY DEF Opens, IInv, TypeOK
<1>2. JobOrigin' /\ JobsDisjoint'
  BY <1>1, KeepsAll, JobsKept DEF ShellInv, GivesJob
<1>3. LiveAwaited'
  BY <1>1, CtxAssumption DEF ShellInv, LiveAwaited
<1>4. NewCtx(mode, want).state = "live" /\ NewCtx(mode, want).mode = mode
      /\ NewCtx(mode, want).capture = "none"
  BY DEF NewCtx
<1> QED
  BY <1>1, <1>2, <1>3, <1>4

LEMMA RunKeeps ==
    ASSUME IInv, ShellInv, NEW c \in Ctx, RunPipeline(c) \/ RunBackground(c)
    PROVE  ShellInv'
<1>1. /\ cmd = "prompt" /\ UNCHANGED <<jobs, arg, todo, reaped, lent>>
      /\ \/ cmd' = "run" /\ Opens(c, "foreground", <<>>)
         \/ cmd' = "bgrun" /\ Opens(c, "background", <<>>)
  BY DEF RunPipeline, RunBackground, Start, SpawnBegin, Opens, jobVars
<1>2. await = NoCtx
  BY <1>1 DEF ShellInv, AwaitKind, Awaiting
<1>3. /\ JobOrigin' /\ JobsDisjoint' /\ LiveAwaited'
      /\ await' \in Ctx /\ ctxs'[await'].state # "free" /\ ctxs'[await'].capture = "none"
      /\ cmd' = "run" => ctxs'[await'].mode = "foreground"
      /\ cmd' = "bgrun" => ctxs'[await'].mode = "background"
  BY <1>1, <1>2, OpensKeeps
<1>4. AwaitKind'
  BY <1>1, <1>3 DEF AwaitKind, Awaiting
<1>5. ShellTypeOK'
  BY <1>1, <1>3 DEF ShellInv, ShellTypeOK, Commands
<1>6. Targets' /\ LentByFg'
  BY <1>1 DEF ShellInv, Targets, Targeting, LentByFg, OneEach
<1> QED
  BY <1>3, <1>4, <1>5, <1>6 DEF ShellInv

LEMMA FgWaitKeeps == ASSUME IInv, ShellInv, NEW c \in Ctx, FgWait(c) PROVE ShellInv'
<1>1. /\ cmd = "fgwait" /\ cmd' = "fg" /\ UNCHANGED <<jobs, arg, todo, reaped, lent>>
      /\ Opens(c, "resume", jobs[arg].pids)
  BY DEF FgWait, WaitResume, WaitBegin, Opens, jobVars
<1>2. await = NoCtx
  BY <1>1 DEF ShellInv, AwaitKind, Awaiting
<1>3. /\ JobOrigin' /\ JobsDisjoint' /\ LiveAwaited'
      /\ await' \in Ctx /\ ctxs'[await'].state # "free" /\ ctxs'[await'].mode = "resume"
  BY <1>1, <1>2, OpensKeeps
<1>4. AwaitKind'
  BY <1>1, <1>3 DEF AwaitKind, Awaiting
<1>5. ShellTypeOK'
  BY <1>1, <1>3 DEF ShellInv, ShellTypeOK, Commands
<1>6. Targets' /\ LentByFg'
  BY <1>1 DEF ShellInv, Targets, Targeting, LentByFg, OneEach
<1> QED
  BY <1>3, <1>4, <1>5, <1>6 DEF ShellInv

LEMMA WaitNextKeeps ==
    ASSUME IInv, TableInv, ShellInv, NEW c \in Ctx, WaitNext(c)
    PROVE  ShellInv'
<1>1. /\ cmd = "waitnext" /\ cmd' = "wait" /\ UNCHANGED <<jobs, reaped, lent>>
      /\ todo # <<>> /\ arg' = Head(todo) /\ todo' = Tail(todo)
      /\ Opens(c, "resume", jobs[Head(todo)].pids)
  BY DEF WaitNext, WaitResume, WaitBegin, Opens, jobVars
<1>2. await = NoCtx
  BY <1>1 DEF ShellInv, AwaitKind, Awaiting
<1>3. /\ JobOrigin' /\ JobsDisjoint' /\ LiveAwaited'
      /\ await' \in Ctx /\ ctxs'[await'].state # "free" /\ ctxs'[await'].mode = "resume"
  BY <1>1, <1>2, OpensKeeps
<1>4. AwaitKind'
  BY <1>1, <1>3 DEF AwaitKind, Awaiting
<1>5. /\ todo \in Seq(Nat) /\ Head(todo) \in Nat /\ Tail(todo) \in Seq(Nat)
      /\ 1 \in DOMAIN todo /\ Head(todo) = todo[1]
      /\ \A i \in DOMAIN Tail(todo) :
            i + 1 \in DOMAIN todo /\ i + 1 # 1 /\ Tail(todo)[i] = todo[i + 1] /\ i \in Nat
  BY <1>1 DEF ShellInv, ShellTypeOK
<1>6. ShellTypeOK'
  BY <1>1, <1>3, <1>5 DEF ShellInv, ShellTypeOK, Commands
<1>7. /\ \A i \in DOMAIN todo : todo[i] \in DOMAIN jobs
      /\ \A i, j \in DOMAIN todo : todo[i] = todo[j] => i = j
  BY DEF ShellInv, Targets, OneEach
<1>8. OneEach(todo)'
  <2> SUFFICES ASSUME NEW i \in DOMAIN todo', NEW j \in DOMAIN todo', todo'[i] = todo'[j]
               PROVE  i = j
    BY DEF OneEach
  <2>1. i + 1 = j + 1 /\ i \in Nat /\ j \in Nat
    BY <1>1, <1>5, <1>7
  <2> QED
    BY <2>1
<1>9. Targets' /\ LentByFg'
  BY <1>1, <1>5, <1>7, <1>8 DEF ShellInv, Targets, Targeting, LentByFg
<1> QED
  BY <1>3, <1>4, <1>6, <1>9 DEF ShellInv

\* A command ends, or runs on without a promise.
LEMMA RestsKeeps ==
    ASSUME ShellInv, NEW gone, Keeps(gone), ctxs' = ctxs,
           await' = NoCtx, cmd' \notin Awaiting,
           await = NoCtx \/ ctxs[await].state = "resolved"
    PROVE  JobOrigin' /\ JobsDisjoint' /\ LiveAwaited' /\ AwaitKind'
<1>1. JobOrigin' /\ JobsDisjoint'
  BY JobsKept, CtxAssumption DEF ShellInv
<1>2. LiveAwaited'
  BY CtxAssumption DEF ShellInv, LiveAwaited
<1>3. AwaitKind'
  BY DEF AwaitKind, Awaiting
<1> QED
  BY <1>1, <1>2, <1>3

\* A pipeline becomes a job, and the prompt returns.
LEMMA BecomesJob ==
    ASSUME ListsInv, ShellInv, cmd \in {"run", "bgrun"}, GivesJob(await),
           NEW status, AddJob(ctxs[await].pids, status),
           cmd' = "loop", await' = NoCtx, arg' = 0, UNCHANGED <<ctxs, lent, todo, reaped>>
    PROVE  ShellInv'
<1>1. await \in Ctx
  BY DEF ShellInv, AwaitKind, Awaiting
<1>2. JobOrigin' /\ JobsDisjoint'
  BY <1>1, AddEffect, JobGained DEF ShellInv
<1>3. LiveAwaited' /\ AwaitKind'
  BY <1>1, CtxAssumption DEF ShellInv, LiveAwaited, AwaitKind, Awaiting, GivesJob
<1>4. ShellTypeOK' /\ LentByFg'
  BY DEF ShellInv, ShellTypeOK, Commands, LentByFg
<1>5. todo' = <<>>
  BY DEF ShellInv, Targets
<1>6. Targets'
  BY <1>5 DEF Targets, Targeting, OneEach
<1> QED
  BY <1>2, <1>3, <1>4, <1>6 DEF ShellInv

LEMMA RunResultKeeps == ASSUME ListsInv, ShellInv, RunResult PROVE ShellInv'
<1>1. /\ cmd = "run" /\ ctxs[await].state = "resolved" /\ ctxs[await].mode = "foreground"
      /\ cmd' = "loop" /\ await' = NoCtx /\ arg' = 0 /\ UNCHANGED <<ctxs, lent, todo, reaped>>
  BY DEF RunResult, Resolved, Finish, vars, ShellInv, AwaitKind
<1>2. CASE ctxs[await].stopped
  <2>1. AddJob(ctxs[await].pids, "stopped") /\ GivesJob(await)
    BY <1>1, <1>2 DEF RunResult, Result, GivesJob
  <2> QED
    BY <1>1, <2>1, BecomesJob
<1>3. CASE ~ctxs[await].stopped
  <2>1. jobs' = jobs
    BY <1>3 DEF RunResult, Result, jobVars
  <2>2. JobOrigin' /\ JobsDisjoint' /\ LiveAwaited' /\ AwaitKind'
    BY <1>1, <2>1, KeepsAll, RestsKeeps DEF Awaiting
  <2>3. ShellTypeOK' /\ LentByFg' /\ Targets'
    BY <1>1, <2>1 DEF ShellInv, ShellTypeOK, Commands, LentByFg, Targets, Targeting, OneEach
  <2> QED
    BY <2>2, <2>3 DEF ShellInv
<1> QED
  BY <1>2, <1>3

LEMMA BackgroundResultKeeps == ASSUME ListsInv, ShellInv, BackgroundResult PROVE ShellInv'
<1>1. /\ cmd = "bgrun" /\ ctxs[await].state = "resolved" /\ ctxs[await].mode = "background"
      /\ cmd' = "loop" /\ await' = NoCtx /\ arg' = 0 /\ UNCHANGED <<ctxs, lent, todo, reaped>>
      /\ AddJob(ctxs[await].pids, "running")
  BY DEF BackgroundResult, Resolved, Finish, vars, Result, ShellInv, AwaitKind
<1> QED
  BY <1>1, BecomesJob DEF GivesJob

\* Steps that change no promise and no target but arg, on the way from await
\* to no promise at all.
LEMMA PlainKeeps ==
    ASSUME TableInv, ShellInv, NEW gone, Keeps(gone), ctxs' = ctxs,
           await' = NoCtx, await = NoCtx \/ ctxs[await].state = "resolved",
           cmd' \in Commands \ Awaiting,
           cmd' \in {"fgcont", "fgwait"} => arg' \in DOMAIN jobs \ gone,
           cmd' \notin {"fgcont", "fgwait"} => arg' = 0,
           \/ todo = <<>> \/ (gone \subseteq {arg} /\ cmd' = "waitnext"),
           todo' = todo, reaped' \in Seq([pid : Pid, status : WaitStatus]),
           lent' # Shell => cmd' \in {"fgcont", "fgwait"}
    PROVE  ShellInv'
<1>1. JobOrigin' /\ JobsDisjoint' /\ LiveAwaited' /\ AwaitKind'
  BY RestsKeeps
<1>2. DOMAIN jobs \subseteq Nat /\ 0 \notin DOMAIN jobs /\ DOMAIN jobs' = DOMAIN jobs \ gone
  BY MaxJobsAssumption DEF TableInv, TableTypeOK, JobId, Keeps
<1>3. ShellTypeOK'
  BY <1>2 DEF ShellInv, ShellTypeOK
<1>4. Targets'
  <2>1. /\ cmd' \in Targeting => arg' \in DOMAIN jobs'
        /\ cmd' \notin Targeting => arg' = 0
    BY <1>2 DEF Targeting, Awaiting
  <2>2. cmd' \notin {"waitnext", "wait"} => todo' = <<>>
    BY DEF Awaiting
  <2>3. \A i \in DOMAIN todo' : todo'[i] \in DOMAIN jobs' /\ todo'[i] # arg'
    <3>1. CASE todo = <<>>
      BY <3>1
    <3>2. CASE gone \subseteq {arg} /\ cmd' = "waitnext"
      BY <1>2, <3>2 DEF ShellInv, Targets
    <3> QED
      BY <3>1, <3>2
  <2>4. OneEach(todo)'
    BY DEF ShellInv, Targets, OneEach
  <2> QED
    BY <2>1, <2>2, <2>3, <2>4 DEF Targets
<1>5. LentByFg'
  BY DEF LentByFg
<1> QED
  BY <1>1, <1>3, <1>4, <1>5 DEF ShellInv

LEMMA FgBeginKeeps ==
    ASSUME TableInv, ShellInv, NEW id \in DOMAIN jobs, FgBegin(id)
    PROVE  ShellInv'
<1>1. /\ cmd = "prompt" /\ cmd' = "fgcont" /\ await' = NoCtx /\ arg' = id
      /\ UNCHANGED <<ctxs, todo, reaped>> /\ Keeps({})
  <2>1. Keeps({})
    BY MarkEffect DEF FgBegin, MarkJobRunning
  <2> QED
    BY <2>1 DEF FgBegin, Start, TcsetpgrpFg, vars
<1>2. await = NoCtx /\ todo = <<>>
  BY <1>1 DEF ShellInv, AwaitKind, Awaiting, Targets
<1> QED
  BY <1>1, <1>2, PlainKeeps DEF Commands, Awaiting, ShellInv, ShellTypeOK

LEMMA FgContinueKeeps == ASSUME TableInv, ShellInv, FgContinue PROVE ShellInv'
<1>1. /\ cmd = "fgcont" /\ cmd' = "fgwait"
      /\ UNCHANGED <<ctxs, jobs, await, arg, todo, reaped>>
  BY DEF FgContinue, SendCont, jobVars
<1>2. await = NoCtx /\ todo = <<>> /\ arg \in DOMAIN jobs
  BY <1>1 DEF ShellInv, AwaitKind, Awaiting, Targets, Targeting
<1> QED
  BY <1>1, <1>2, KeepsAll, PlainKeeps DEF Commands, Awaiting, ShellInv, ShellTypeOK

\* fg ends with the terminal back in the hands of the shell.
LEMMA FgResultKeeps == ASSUME TableInv, ShellInv, FgResult PROVE ShellInv'
<1>1. /\ cmd = "fg" /\ cmd' = "loop" /\ await' = NoCtx /\ arg' = 0
      /\ ctxs[await].state = "resolved" /\ UNCHANGED <<ctxs, todo, reaped>>
      /\ lent' = Shell
  BY DEF FgResult, Resolved, Finish, TcsetpgrpShell, vars
<1>2. todo = <<>>
  BY <1>1 DEF ShellInv, Targets
<1>3. \E gone : Keeps(gone)
  BY MarkEffect, RemoveEffect DEF FgResult, MarkJobStopped
<1> QED
  BY <1>1, <1>2, <1>3, PlainKeeps DEF Commands, Awaiting, ShellInv, ShellTypeOK

\* The job wait was at has left the table, or is marked; the others it has
\* still to wait for are others.
LEMMA WaitResultKeeps == ASSUME TableInv, ShellInv, WaitResult PROVE ShellInv'
<1>1. /\ cmd = "wait" /\ cmd' = "waitnext" /\ await' = NoCtx /\ arg' = 0
      /\ ctxs[await].state = "resolved" /\ UNCHANGED <<ctxs, todo, reaped, lent>>
  BY DEF WaitResult, Resolved, vars
<1>2. \E gone \in {{}, {arg}} : Keeps(gone)
  BY MarkEffect, RemoveEffect DEF WaitResult, MarkJobStopped
<1>3. lent = Shell
  BY <1>1 DEF ShellInv, LentByFg
<1> QED
  BY <1>1, <1>2, <1>3, PlainKeeps DEF Commands, Awaiting, ShellInv, ShellTypeOK

\* What the prompt loop and the commands that await nothing have in common.
LEMMA AtPromptKeeps ==
    ASSUME TableInv, ShellInv, cmd \in {"loop", "report", "prompt"} \/ (cmd = "waitnext" /\ todo = <<>>),
           cmd' \in {"loop", "report", "prompt"},
           NEW gone, Keeps(gone), ctxs' = ctxs, lent' = lent,
           await' = await \/ await' = NoCtx, arg' = arg \/ arg' = 0, todo' = todo,
           reaped' \in Seq([pid : Pid, status : WaitStatus])
    PROVE  ShellInv'
<1>1. await = NoCtx /\ arg = 0 /\ todo = <<>> /\ lent = Shell
  BY DEF ShellInv, AwaitKind, Awaiting, Targets, Targeting, LentByFg
<1> QED
  BY <1>1, PlainKeeps DEF Commands, Awaiting

LEMMA PromptStepsKeep ==
    ASSUME TypeOK, TableInv, ShellInv,
           \/ \E id \in DOMAIN jobs : Bg(id) \/ Disown(id)
           \/ OtherLine \/ WaitDone \/ PromptLoop \/ ReportOne \/ Prompt
    PROVE  ShellInv'
<1>0. reaped \in Seq([pid : Pid, status : WaitStatus]) /\ bg \in Seq([pid : Pid, status : WaitStatus])
  BY DEF ShellInv, ShellTypeOK, TypeOK
<1>1. ASSUME NEW id \in DOMAIN jobs, Bg(id) PROVE ShellInv'
  <2>1. Keeps({})
    BY <1>1, MarkEffect DEF Bg, MarkJobRunning
  <2>2. /\ cmd = "prompt" /\ cmd' = "loop" /\ await' = NoCtx /\ arg' = 0
        /\ UNCHANGED <<ctxs, lent, todo, reaped>>
    BY <1>1 DEF Bg, SendCont, Finish
  <2> QED
    BY <1>0, <2>1, <2>2, AtPromptKeeps
<1>2. ASSUME NEW id \in DOMAIN jobs, Disown(id) PROVE ShellInv'
  <2>1. Keeps({id})
    BY <1>2, RemoveEffect DEF Disown
  <2>2. /\ cmd = "prompt" /\ cmd' = "loop" /\ await' = NoCtx /\ arg' = 0
        /\ UNCHANGED <<ctxs, lent, todo, reaped>>
    BY <1>2 DEF Disown, Finish, vars
  <2> QED
    BY <1>0, <2>1, <2>2, AtPromptKeeps
<1>3. CASE OtherLine \/ WaitDone \/ Prompt
  <2>1. /\ cmd \in {"prompt", "report"} \/ (cmd = "waitnext" /\ todo = <<>>)
        /\ cmd' \in {"loop", "prompt"} /\ await' \in {await, NoCtx} /\ arg' \in {arg, 0}
        /\ UNCHANGED <<jobs, ctxs, lent, todo, reaped>>
    BY <1>3 DEF OtherLine, WaitDone, Prompt, Finish, vars, jobVars
  <2> QED
    BY <1>0, <2>1, KeepsAll, AtPromptKeeps
<1>4. CASE PromptLoop
  <2>1. /\ cmd = "loop" /\ cmd' = "report" /\ UNCHANGED <<jobs, ctxs, lent, await, arg, todo>>
        /\ reaped' = bg
    BY <1>4 DEF PromptLoop, ReapChildren, vars, jobVars
  <2> QED
    BY <1>0, <2>1, KeepsAll, AtPromptKeeps
<1>5. CASE ReportOne
  <2>1. /\ cmd = "report" /\ UNCHANGED <<cmd, ctxs, lent, await, arg, todo>>
        /\ reaped # <<>> /\ reaped' = Tail(reaped)
    BY <1>5 DEF ReportOne, vars
  <2>2. reaped' \in Seq([pid : Pid, status : WaitStatus])
    BY <1>0, <2>1
  <2>3. \E gone : Keeps(gone)
    BY <1>5, KeepsAll, MarkEffect, RemoveEffect DEF ReportOne, MarkJobStopped, jobVars
  <2> QED
    BY <2>1, <2>2, <2>3, AtPromptKeeps
<1> QED
  BY <1>1, <1>2, <1>3, <1>4, <1>5

\* wait lists the running jobs, each of them once.
LEMMA WaitAllKeeps == ASSUME TableInv, ShellInv, WaitAll PROVE ShellInv'
<1> DEFINE S == {id \in DOMAIN jobs : jobs[id].status = "running"}
<1>1. /\ cmd = "prompt" /\ cmd' = "waitnext" /\ await' = NoCtx
      /\ UNCHANGED <<ctxs, jobs, lent, arg, reaped>> /\ todo' = Ascending(S)
  BY DEF WaitAll, Start, vars, jobVars
<1>2. S \in SUBSET JobId /\ S \in SUBSET Nat /\ 0 \notin S /\ S \subseteq DOMAIN jobs
  BY MaxJobsAssumption DEF TableInv, TableTypeOK, JobId
<1>3. Cardinality(S) \in Nat
  <2>1. IsFiniteSet(JobId)
    BY MaxJobsAssumption, FS_Interval DEF JobId
  <2> QED
    BY <1>2, <2>1, FS_Subset, FS_CardinalityType
<1> HIDE DEF S
<1> DEFINE n == Cardinality(S)
           s == Ascending(S)
<1>4. s \in [1..n -> S] /\ \A i, j \in 1..n : i < j => s[i] < s[j]
  BY <1>2, AscendingIds
<1>5. n \in Nat
  BY <1>3
<1> HIDE DEF n, s
<1>6. todo' = s
  BY <1>1 DEF s
<1>7. todo' \in Seq(Nat) /\ DOMAIN todo' = 1..n /\ \A i \in 1..n : s[i] \in S
  <2>1. DOMAIN s = 1..n /\ \A i \in 1..n : s[i] \in S
    BY <1>4
  <2>2. s \in [1..n -> Nat]
    BY <1>2, <1>4
  <2> QED
    BY <1>5, <1>6, <2>1, <2>2
<1>8. OneEach(todo)'
  <2> SUFFICES ASSUME NEW i \in 1..n, NEW j \in 1..n, s[i] = s[j] PROVE i = j
    BY <1>6, <1>7 DEF OneEach
  <2>1. s[i] \in Nat /\ s[j] \in Nat
    BY <1>2, <1>7
  <2>2. ~(i < j) /\ ~(j < i)
    BY <1>4, <2>1
  <2> QED
    BY <1>5, <2>2
<1>9. arg = 0 /\ await = NoCtx /\ lent = Shell
  BY <1>1 DEF ShellInv, AwaitKind, Awaiting, Targets, Targeting, LentByFg
<1>10. Targets'
  BY <1>1, <1>2, <1>6, <1>7, <1>8, <1>9 DEF Targets, Targeting
<1>11. JobOrigin' /\ JobsDisjoint' /\ LiveAwaited' /\ AwaitKind'
  BY <1>1, <1>9, KeepsAll, RestsKeeps DEF Awaiting
<1>12. ShellTypeOK' /\ LentByFg'
  BY <1>1, <1>7, <1>9 DEF ShellInv, ShellTypeOK, Commands, LentByFg
<1> QED
  BY <1>10, <1>11, <1>12 DEF ShellInv

LEMMA ShellInvStep ==
    ASSUME IInv, ListsInv, TableInv, ShellInv, [JobNext]_jcVars
    PROVE  ShellInv'
<1>0. TypeOK
  BY DEF IInv
<1>1. CASE UNCHANGED jcVars
  <2>1. UNCHANGED <<jobs, ctxs, lent, cmd, await, arg, todo, reaped>>
    BY <1>1 DEF jcVars, vars, jobVars, shVars
  <2>2. JobOrigin' /\ JobsDisjoint' /\ AwaitKind' /\ LiveAwaited'
    BY <2>1, KeepsAll, JobsKept DEF ShellInv, AwaitKind, LiveAwaited
  <2> QED
    BY <2>1, <2>2 DEF ShellInv, ShellTypeOK, Targets, OneEach, LentByFg
<1>2. CASE Below
  BY <1>2, BelowKeeps
<1>3. CASE CommandLine
  BY <1>0, <1>3, RunKeeps, FgBeginKeeps, PromptStepsKeep, WaitAllKeeps DEF CommandLine
<1>4. CASE ShellStep
  <2>1. CASE RunResult \/ BackgroundResult \/ FgContinue \/ FgResult \/ WaitResult
    BY <2>1, RunResultKeeps, BackgroundResultKeeps, FgContinueKeeps, FgResultKeeps,
       WaitResultKeeps
  <2>2. CASE WaitDone \/ PromptLoop \/ ReportOne \/ Prompt
    BY <1>0, <2>2, PromptStepsKeep
  <2>3. ASSUME NEW c \in Ctx, FgWait(c) \/ WaitNext(c) PROVE ShellInv'
    BY <2>3, FgWaitKeeps, WaitNextKeeps
  <2> QED
    BY <1>4, <2>1, <2>2, <2>3 DEF ShellStep
<1> QED
  BY <1>1, <1>2, <1>3, <1>4 DEF JobNext

LEMMA InitShellInv == ASSUME JobInit PROVE TableInv /\ ShellInv
<1>1. /\ jobs = [id \in {} |-> {}] /\ current = 0 /\ previous = 0
      /\ cmd = "loop" /\ await = NoCtx /\ arg = 0 /\ todo = <<>> /\ reaped = <<>>
      /\ lent = Shell /\ \A c \in Ctx : ctxs[c].state = "free"
  BY DEF JobInit, Init, TableInit, FreeCtx, NewCtx
<1>2. TableInv
  BY <1>1 DEF TableInv, TableTypeOK, CurrentNamesAJob
<1>3. ShellTypeOK
  BY <1>1 DEF ShellTypeOK, Commands
<1>4. AwaitKind /\ LiveAwaited /\ Targets /\ LentByFg
  BY <1>1 DEF AwaitKind, Awaiting, LiveAwaited, Targets, Targeting, OneEach, LentByFg
<1>5. JobOrigin /\ JobsDisjoint
  BY <1>1 DEF JobOrigin, JobsDisjoint
<1> QED
  BY <1>2, <1>3, <1>4, <1>5 DEF ShellInv

LEMMA JobInvInit == JobInit => JobInv
<1> SUFFICES ASSUME JobInit PROVE JobInv
  OBVIOUS
<1>1. Init
  BY DEF JobInit
<1>2. TypeOK /\ IInv
  BY <1>1, TypeInit, InitIInv
<1> QED
  BY <1>1, <1>2, InitLists, InitShellInv DEF JobInv

LEMMA JobInvStep == JobInv /\ [JobNext]_jcVars => JobInv'
<1> SUFFICES ASSUME JobInv, [JobNext]_jcVars PROVE JobInv'
  OBVIOUS
<1>1. TypeOK /\ IInv /\ ListsInv /\ TableInv /\ ShellInv
  BY DEF JobInv, IInv
<1>2. [Next]_vars
  BY <1>1, JobStepIsStep
<1>3. TypeOK'
  BY <1>1, <1>2, TypeStep
<1>4. IInv'
  BY <1>1, <1>2, <1>3, IInvStep
<1>5. ListsInv'
  BY <1>1, <1>2, <1>3, StepLists
<1> QED
  BY <1>1, <1>4, <1>5, TableStep, ShellInvStep DEF JobInv

-----------------------------------------------------------------------------
(* The theorems.                                                           *)

\* The whole invariant holds in every reachable state of the shell.
THEOREM JobInvariant == JobSpec => []JobInv
BY JobInvInit, JobInvStep, PTL DEF JobSpec

\* The shell uses the native executor as its model allows: every state it
\* can bring the executor to is one the executor's own properties are about.
THEOREM ShellUsesExecutor == JobSpec => Spec
<1>1. JobInit => Init
  BY DEF JobInit
<1>2. JobInv /\ [JobNext]_jcVars => [Next]_vars
  BY JobStepIsStep DEF JobInv
<1> QED
  BY <1>1, <1>2, JobInvariant, PTL DEF JobSpec, Spec

\* Under job control too, %+ and %- name two different jobs of the table.
THEOREM CurrentJobs == JobSpec => []CurrentNamesAJob
<1>1. JobInv => CurrentNamesAJob
  BY DEF JobInv, TableInv
<1> QED
  BY <1>1, JobInvariant, PTL

\* fg and wait only touch jobs that are in the table.
THEOREM TargetsStay == JobSpec => []TargetsInTable
<1>1. JobInv => TargetsInTable
  BY DEF JobInv, ShellInv, Targets, TargetsInTable
<1> QED
  BY <1>1, JobInvariant, PTL

\* No process is in two jobs.
THEOREM PidsInOneJob == JobSpec => []PidInOneJob
<1>1. JobInv => PidInOneJob
  <2> SUFFICES ASSUME JobInv, NEW p \in Pid PROVE Cardinality(JobsWith(p)) <= 1
    BY DEF PidInOneJob
  <2>1. \A id, other \in JobsWith(p) : id = other
    BY DEF JobInv, ShellInv, JobsDisjoint, JobsWith, PidsIn
  <2>2. CASE JobsWith(p) = {}
    BY <2>2, FS_EmptySet
  <2>3. CASE JobsWith(p) # {}
    <3>1. PICK id \in JobsWith(p) : JobsWith(p) = {id}
      BY <2>1, <2>3
    <3>2. Cardinality(JobsWith(p)) = 1
      BY <3>1, FS_Singleton
    <3> QED
      BY <3>2
  <2> QED
    BY <2>2, <2>3
<1> QED
  BY <1>1, JobInvariant, PTL

\* The prompt comes back with the terminal in the hands of the shell: at the
\* prompt nothing is awaited, so no promise is live, and fg has taken back
\* what it lent.
THEOREM PromptHasTerminal == JobSpec => []PromptOwnsTerminal
<1>1. JobInv => PromptOwnsTerminal
  <2> SUFFICES ASSUME JobInv, cmd \in {"loop", "report", "prompt"}, tty # Shell
               PROVE  FALSE
    BY DEF PromptOwnsTerminal
  <2>1. await = NoCtx /\ lent = Shell
    BY DEF JobInv, ShellInv, AwaitKind, Awaiting, LentByFg
  <2>2. \A c \in Ctx : ctxs[c].state # "live"
    BY <2>1, CtxAssumption DEF JobInv, ShellInv, LiveAwaited
  <2> QED
    BY <2>1, <2>2 DEF JobInv, IInv, TerminalReturned
<1> QED
  BY <1>1, JobInvariant, PTL

\* The shell never waits for a pipeline in the foreground whose processes
\* have all been reaped: what is still awaited counts a process g_pending
\* holds for it, and that process can still be reaped.
THEOREM ForegroundReturns == JobSpec => []RunReturns
<1>1. JobInv /\ CountInv => RunReturns
  <2> SUFFICES ASSUME JobInv, CountInv, cmd = "run", Stuck PROVE FALSE
    BY DEF RunReturns
  <2>1. /\ await \in Ctx /\ ctxs[await].mode = "foreground" /\ ctxs[await].capture = "none"
        /\ ctxs[await].state = "live" /\ at = "idle"
    BY DEF Stuck, JobInv, ShellInv, AwaitKind, Awaiting
  <2>2. ctxs[await].left > 0 /\ ctxs[await].left = Cardinality(OwnedBy(await))
    BY <2>1 DEF CountInv, LiveCounted, CountExact, InCall
  <2>3. OwnedBy(await) # {}
    <3> SUFFICES ASSUME OwnedBy(await) = {} PROVE FALSE
      OBVIOUS
    <3>1. Cardinality(OwnedBy(await)) = 0
      BY FS_EmptySet
    <3> QED
      BY <2>2, <3>1
  <2>4. PICK p \in Pid : owner[p] = await
    BY <2>3 DEF OwnedBy
  <2>5. slot[p] \in DOMAIN ctxs[await].want /\ ctxs[await].want[slot[p]] = p
    BY <2>1, <2>4 DEF JobInv, ListsInv, SlotOfPid, IsCtxBound
  <2>6. proc[p] # "reaped"
    BY <2>1, <2>4 DEF CountInv, OwnedAlive, IsCtxBound
  <2> QED
    BY <2>5, <2>6 DEF Stuck
<1> QED
  BY <1>1, JobInvariant, ShellUsesExecutor, PipelinesCounted, PTL

=============================================================================
