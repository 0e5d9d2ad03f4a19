------------------------- MODULE ChildTrackerProofs -------------------------
(***************************************************************************)
(* First, the tables of the executor stay consistent: the inductive        *)
(* invariant IInv of ChildTracker, and the safety properties it implies,   *)
(* for any number of processes, promises and stages, whatever lists of     *)
(* pids JavaScript waits for.                                              *)
(*                                                                         *)
(* Then what becomes of the wait statuses: no status is lost between       *)
(* forkExec and waitForPids, a promise reports the codes its processes     *)
(* really exited with, and no pipeline is left waiting for processes that  *)
(* are gone. These invariants come in four groups, each inductive relative *)
(* to IInv and to the groups before it: whose pids are on which list       *)
(* (ListsInv), what is parked for the pids a mixed pipeline holds          *)
(* (KeptInv), which slots of a context are filled (SlotsInv), and how many *)
(* pids it still waits for (CountInv).                                     *)
(***************************************************************************)
EXTENDS ChildTracker, TLAPS, FiniteSetTheorems, SequenceTheorems

-----------------------------------------------------------------------------
(* Type correctness.                                                       *)

\* Writing one slot of a sequence keeps its type, also when there is no such
\* slot (onSigChld tests idx < pipeStatus.size()).
LEMMA ExceptType ==
    ASSUME NEW S, NEW s \in Seq(S), NEW i, NEW e \in S
    PROVE  [s EXCEPT ![i] = e] \in Seq(S)
<1> DEFINE t == [s EXCEPT ![i] = e]
<1>1. Len(s) \in Nat /\ s \in [1..Len(s) -> S] /\ DOMAIN s = 1..Len(s)
  BY LenProperties
<1>2. t = [j \in 1..Len(s) |-> IF j = i THEN e ELSE s[j]]
  BY <1>1
<1>3. t \in [1..Len(s) -> S]
  BY <1>1, <1>2
<1> QED
  BY <1>1, <1>3

\* A fresh SpawnCtx is well formed.
LEMMA NewCtxType ==
    ASSUME NEW mode \in Mode, NEW want \in Seq(Pid)
    PROVE  /\ NewCtx(mode, want) \in CtxRecord
           /\ NewCtx(mode, want).want = want
           /\ NewCtx(mode, want).state = "live"
           /\ NewCtx(mode, want).pids = <<>>
           /\ NewCtx(mode, want).left = 0
           /\ NewCtx(mode, want).foreground = FALSE
           /\ NewCtx(mode, want).capture = "none"
<1>1. DOMAIN want = 1..Len(want) /\ Len(want) \in Nat
  BY LenProperties
<1>2. [i \in DOMAIN want |-> Ok] \in [1..Len(want) -> WaitStatus]
  BY <1>1, CodeAssumption DEF WaitStatus
<1>3. [i \in DOMAIN want |-> Ok] \in Seq(WaitStatus)
  BY <1>1, <1>2
<1>4. <<>> \in Seq(Pid)
  BY EmptySeq
<1> QED
  BY <1>3, <1>4 DEF NewCtx, CtxRecord, CtxState

\* The fields a started pipeline sets keep a context well formed.
LEMMA UpdateType ==
    ASSUME NEW y \in CtxRecord, NEW p \in Seq(Pid), NEW e \in WaitStatus \cup {"none"},
           NEW l \in Int, NEW f \in BOOLEAN, NEW k \in {"none", "open", "eof"},
           NEW x, x = [y EXCEPT !.pids = p, !.exit = e, !.left = l,
                                !.foreground = f, !.capture = k]
    PROVE  /\ x \in CtxRecord
           /\ x.state = y.state /\ x.want = y.want /\ x.pids = p
           /\ x.left = l /\ x.foreground = f /\ x.capture = k
BY DEF CtxRecord

\* So do the fields handleStopped sets.
LEMMA StopType ==
    ASSUME NEW y \in CtxRecord, NEW more \in Seq(Pid),
           NEW t \in BOOLEAN, NEW s \in WaitStatus, NEW l \in Int,
           NEW x, x = [y EXCEPT !.stopped = t, !.exit = s, !.left = l, !.pids = more]
    PROVE  /\ x \in CtxRecord
           /\ x.state = y.state /\ x.want = y.want /\ x.pids = more
           /\ x.left = l /\ x.foreground = y.foreground /\ x.capture = y.capture
BY DEF CtxRecord

\* So is the context of a pipeline that has been started.
LEMMA SpawnedCtxType ==
    ASSUME NEW mode \in Mode, NEW pids \in Seq(Pid)
    PROVE  /\ SpawnedCtx(mode, pids) \in CtxRecord
           /\ Resolve(SpawnedCtx(mode, pids)) \in CtxRecord
           /\ SpawnedCtx(mode, pids).state = "live"
           /\ SpawnedCtx(mode, pids).want = pids
           /\ SpawnedCtx(mode, pids).pids = pids
           /\ SpawnedCtx(mode, pids).left =
                IF mode = "background" THEN 0 ELSE Len(pids)
           /\ SpawnedCtx(mode, pids).foreground = (mode = "foreground" /\ Interactive)
           /\ SpawnedCtx(mode, pids).capture =
                IF mode = "capture" THEN "open" ELSE "none"
<1> DEFINE y == NewCtx(mode, pids)
           x == SpawnedCtx(mode, pids)
<1>1. y \in CtxRecord /\ y.want = pids /\ y.state = "live" /\ Len(pids) \in Nat
  BY NewCtxType, LenProperties
<1>2. PICK e \in WaitStatus \cup {"none"} : e = IF mode = "background" THEN Ok ELSE "none"
  BY CodeAssumption DEF WaitStatus
<1>3. PICK l \in Int : l = IF mode = "background" THEN 0 ELSE Len(pids)
  BY <1>1
<1>4. PICK f \in BOOLEAN : f = (mode = "foreground" /\ Interactive)
  BY ModeAssumption
<1>5. PICK k \in {"none", "open", "eof"} : k = IF mode = "capture" THEN "open" ELSE "none"
  OBVIOUS
<1>6. x = [y EXCEPT !.pids = pids, !.exit = e, !.left = l,
                    !.foreground = f, !.capture = k]
  BY <1>2, <1>3, <1>4, <1>5 DEF SpawnedCtx
<1> HIDE DEF y, x
<1>7. /\ x \in CtxRecord /\ x.state = y.state /\ x.want = y.want /\ x.pids = pids
      /\ x.left = l /\ x.foreground = f /\ x.capture = k
  BY <1>1, <1>6 DEF CtxRecord
<1>8. Resolve(x) \in CtxRecord
  BY <1>7 DEF Resolve, CtxRecord, CtxState
<1> QED
  BY <1>1, <1>3, <1>4, <1>5, <1>7, <1>8 DEF x

\* Recording a wait status touches neither the pids nor the count.
LEMMA RecordType ==
    ASSUME NEW x \in CtxRecord, NEW i, NEW s \in WaitStatus
    PROVE  /\ Record(x, i, s) \in CtxRecord
           /\ Record(x, i, s).state = x.state
           /\ Record(x, i, s).want = x.want
           /\ Record(x, i, s).pids = x.pids
           /\ Record(x, i, s).left = x.left
           /\ Record(x, i, s).foreground = x.foreground
           /\ Record(x, i, s).capture = x.capture
<1>1. x.status \in Seq(WaitStatus)
  BY DEF CtxRecord
<1>2. [x.status EXCEPT ![i] = s] \in Seq(WaitStatus)
  BY <1>1, ExceptType
<1> QED
  BY <1>2 DEF Record, CtxRecord

\* maybeFinalize changes nothing but the state, and that only when no pid is
\* counted any more.
LEMMA FinalizeType ==
    ASSUME NEW x \in CtxRecord
    PROVE  /\ MaybeFinalize(x) \in CtxRecord
           /\ MaybeFinalize(x).want = x.want
           /\ MaybeFinalize(x).pids = x.pids
           /\ MaybeFinalize(x).left = x.left
           /\ MaybeFinalize(x).foreground = x.foreground
           /\ MaybeFinalize(x).capture = x.capture
           /\ x.left > 0 => MaybeFinalize(x).state = x.state
           /\ MaybeFinalize(x).state \in {x.state, "resolved"}
BY DEF MaybeFinalize, Resolve, CtxRecord, CtxState

\* The pids handleStopped appends are a sequence of pids, and all of them
\* come from the set.
LEMMA OrdersType ==
    ASSUME NEW S \in SUBSET Pid, NEW order \in Orders(S)
    PROVE  order \in Seq(Pid) /\ \A i \in DOMAIN order : order[i] \in S
<1>1. Cardinality(S) \in Nat
  BY PidAssumption, FS_Subset, FS_CardinalityType
<1>2. order \in [1..Cardinality(S) -> S]
  BY DEF Orders
<1>3. order \in [1..Cardinality(S) -> Pid]
  BY <1>2
<1> QED
  BY <1>1, <1>2, <1>3

-----------------------------------------------------------------------------
(* Type correctness.                                                       *)

\* What JavaScript can wait for are lists of pids.
LEMMA JobPidsType == ASSUME TypeOK PROVE JobPids \subseteq Seq(Pid)
BY DEF TypeOK, JobPids, CtxRecord

\* Only the kernel and ErasePending touch the tables of a single pid: both
\* keep their types.
LEMMA EraseType ==
    ASSUME TypeOK, NEW p \in Pid, ErasePending(p)
    PROVE  /\ owner' \in [Pid -> Ctx \cup {Background, Untracked}]
           /\ slot' \in [Pid -> Nat \ {0}]
           /\ refs' \in Nat
BY DEF TypeOK, ErasePending, Released

LEMMA CollectType ==
    ASSUME TypeOK, NEW p \in Pid, Collect(p)
    PROVE  /\ proc' \in [Pid -> {"unborn", "running", "stopped", "zombie", "reaped"}]
           /\ code' \in [Pid -> ExitCode]
           /\ news' \subseteq Pid
           /\ sigchld' \in BOOLEAN
           /\ StatusOf(p) \in WaitStatus
BY DEF TypeOK, Collect, StatusOf, WaitStatus

\* No step takes a variable out of its type.
LEMMA TypeStep == TypeOK /\ [Next]_vars => TypeOK'
<1> SUFFICES ASSUME TypeOK, [Next]_vars PROVE TypeOK'
  OBVIOUS
<1>1. CASE UNCHANGED vars
  BY <1>1 DEF TypeOK, vars
<1>2. CASE Kernel
  <2>1. PICK p \in Pid : \/ \E c \in ExitCode : ExitProcess(p, c)
                         \/ StopProcess(p)
                         \/ ContinueProcess(p)
    BY <1>2 DEF Kernel
  <2>2. ASSUME NEW c \in ExitCode, ExitProcess(p, c) PROVE TypeOK'
    BY <2>2 DEF TypeOK, ExitProcess, tableVars, callVars
  <2>3. CASE StopProcess(p)
    BY <2>3 DEF TypeOK, StopProcess, tableVars, callVars
  <2>4. CASE ContinueProcess(p)
    BY <2>4 DEF TypeOK, ContinueProcess, tableVars, callVars
  <2> QED
    BY <2>1, <2>2, <2>3, <2>4
<1>3. ASSUME NEW c \in Ctx, NEW mode \in {"foreground", "background", "capture"},
             SpawnBegin(c, mode)
      PROVE TypeOK'
  <2>1. NewCtx(mode, <<>>) \in CtxRecord
    BY NewCtxType, EmptySeq DEF Mode
  <2> QED
    BY <1>3, <2>1, EmptySeq DEF TypeOK, SpawnBegin, kernelVars, tableVars
<1>4. ASSUME NEW c \in Ctx, NEW mode \in Mode, NEW pids \in Seq(Pid),
             WaitBegin(c, mode, pids), held' \in Seq(Pid)
      PROVE TypeOK'
  <2>1. NewCtx(mode, pids) \in CtxRecord
    BY NewCtxType
  <2> QED
    BY <1>4, <2>1 DEF TypeOK, WaitBegin, kernelVars, tableVars
<1>5. ASSUME NEW c \in Ctx, WaitMixed(c) PROVE TypeOK'
  BY <1>5, <1>4, EmptySeq DEF TypeOK, WaitMixed, Mode
<1>6. ASSUME NEW c \in Ctx, NEW pids \in JobPids, WaitResume(c, pids) PROVE TypeOK'
  BY <1>6, <1>4, JobPidsType DEF TypeOK, WaitResume, Mode
<1>7. ASSUME NEW p \in Pid, NEW keep \in BOOLEAN, ForkExec(p, keep) PROVE TypeOK'
  <2>1. held' \in Seq(Pid)
    BY <1>7, AppendProperties DEF TypeOK, ForkExec
  <2> QED
    BY <1>7, <2>1 DEF TypeOK, ForkExec, callVars
<1>8. ASSUME NEW pids \in JobPids, TcsetpgrpFg(pids) \/ SendCont(pids) PROVE TypeOK'
  <2>1. pids \in Seq(Pid)
    BY JobPidsType
  <2>2. CASE TcsetpgrpFg(pids)
    <3>1. pids[1] \in Pid
      BY <2>1, <2>2, EmptySeq, ElementOfSeq DEF TcsetpgrpFg
    <3> QED
      BY <2>2, <3>1 DEF TypeOK, TcsetpgrpFg, kernelVars, tableVars, callVars
  <2>3. CASE SendCont(pids)
    BY <2>3 DEF TypeOK, SendCont, tableVars, callVars
  <2> QED
    BY <1>8, <2>2, <2>3
<1>9. CASE TcsetpgrpShell
  BY <1>9 DEF TypeOK, TcsetpgrpShell, kernelVars, tableVars, callVars
<1>10. CASE ReapChildren
  BY <1>10, EmptySeq DEF TypeOK, ReapChildren, kernelVars, tableVars, callVars
<1>11. ASSUME NEW p \in Pid, SpawnStage(p) PROVE TypeOK'
  <2>1. list' \in Seq(Pid)
    BY <1>11, AppendProperties DEF TypeOK, SpawnStage
  <2> QED
    BY <1>11, <2>1 DEF TypeOK, SpawnStage, tableVars
<1>12. ASSUME at = "spawn", list # <<>>
       PROVE  /\ cur \in Ctx /\ ctxs[cur].mode \in Mode
              /\ SpawnedCtx(ctxs[cur].mode, list) \in CtxRecord
              /\ Resolve(SpawnedCtx(ctxs[cur].mode, list)) \in CtxRecord
              /\ list[1] \in Pid
              /\ \A p \in Stages : p \in Pid /\ StageIdx(p) \in Nat \ {0}
  <2>1. cur \in Ctx /\ ctxs[cur].mode \in Mode /\ list \in Seq(Pid)
    BY <1>12 DEF TypeOK, CtxRecord
  <2>2. /\ Len(list) \in Nat \ {0} /\ DOMAIN list = 1..Len(list)
        /\ \A i \in DOMAIN list : list[i] \in Pid
    BY <1>12, <2>1, EmptySeq, LenProperties, ElementOfSeq
  <2>3. \A p \in Stages : p \in Pid /\ StageIdx(p) \in Nat \ {0}
    BY <2>2 DEF Stages, StageIdx
  <2> QED
    BY <2>1, <2>2, <2>3, SpawnedCtxType
<1>20. CASE SpawnEnd
  <2>1. owner' \in [Pid -> Ctx \cup {Background, Untracked}] /\ slot' \in [Pid -> Nat \ {0}]
    BY <1>20, <1>12 DEF TypeOK, SpawnEnd
  <2>2. ctxs' \in [Ctx -> CtxRecord]
    BY <1>20, <1>12 DEF TypeOK, SpawnEnd
  <2>3. refs' \in Nat /\ tty' \in Pid \cup {Shell}
    BY <1>20, <1>12 DEF TypeOK, SpawnEnd
  <2> QED
    BY <1>20, <2>1, <2>2, <2>3, EmptySeq DEF TypeOK, SpawnEnd, Return, kernelVars
<1>21. CASE SpawnEndBackground
  <2>1. owner' \in [Pid -> Ctx \cup {Background, Untracked}]
    BY <1>21, <1>12 DEF TypeOK, SpawnEndBackground
  <2>2. ctxs' \in [Ctx -> CtxRecord]
    BY <1>21, <1>12 DEF TypeOK, SpawnEndBackground
  <2> QED
    BY <1>21, <2>1, <2>2, EmptySeq DEF TypeOK, SpawnEndBackground, Return, kernelVars
<1>13. CASE SpawnFail
  BY <1>13 DEF TypeOK, SpawnFail, kernelVars, tableVars
<1>14. CASE DrainStage
  <2>1. list[pos] \in Pid
    BY <1>14 DEF TypeOK, DrainStage
  <2> QED
    BY SMTT(30), <1>14, <2>1, EraseType, CollectType DEF TypeOK, DrainStage
<1>15. CASE DrainEnd
  <2> DEFINE x == ctxs[cur]
  <2>1. cur \in Ctx /\ x \in CtxRecord
    BY <1>15 DEF TypeOK, DrainEnd
  <2>2. Resolve([x EXCEPT !.exit = SpawnErr]) \in CtxRecord
    <3> HIDE DEF x
    <3>1. [x EXCEPT !.exit = SpawnErr] \in CtxRecord
      BY <2>1, CodeAssumption DEF CtxRecord, WaitStatus
    <3> QED
      BY <3>1 DEF Resolve, CtxRecord, CtxState
  <2>3. ctxs' \in [Ctx -> CtxRecord]
    BY <1>15, <2>1, <2>2 DEF TypeOK, DrainEnd
  <2> QED
    BY <1>15, <2>3, EmptySeq DEF TypeOK, DrainEnd, Return, kernelVars, tableVars
<1>16. CASE WaitStage
  <2> DEFINE p == list[pos]
             x == ctxs[cur]
  <2>1. p \in Pid /\ cur \in Ctx /\ x \in CtxRecord
    BY <1>16 DEF TypeOK, WaitStage
  <2>2. CASE TakeParkedStop(p)
    <3> DEFINE y == Record(x, pos, Stopped)
    <3>1. y \in CtxRecord
      BY <2>1, RecordType DEF WaitStatus
    <3> HIDE DEF y
    <3>2. [y EXCEPT !.stopped = TRUE] \in CtxRecord
      BY <3>1 DEF CtxRecord
    <3>3. ctxs' \in [Ctx -> CtxRecord]
      BY <2>1, <2>2, <3>2 DEF TypeOK, TakeParkedStop, y
    <3> QED
      BY <1>16, <2>1, <2>2, <3>3 DEF TypeOK, WaitStage, TakeParkedStop, kernelVars
  <2>3. CASE TakeParkedExit(p)
    <3>1. Record(x, pos, orphan[p]) \in CtxRecord
      BY <2>1, <2>3, RecordType DEF TakeParkedExit, WaitStatus
    <3>2. ctxs' \in [Ctx -> CtxRecord]
      BY <2>1, <2>3, <3>1 DEF TypeOK, TakeParkedExit
    <3> QED
      BY <1>16, <2>1, <2>3, <3>2 DEF TypeOK, WaitStage, TakeParkedExit, kernelVars
  <2>4. CASE RegisterPid(p)
    <3>1. ctxs' \in [Ctx -> CtxRecord]
      <4>1. ctxs' = [ctxs EXCEPT ![cur] = [x EXCEPT !.left = x.left + 1]]
        BY <2>1, <2>4 DEF TypeOK, RegisterPid
      <4> HIDE DEF x
      <4>2. [x EXCEPT !.left = x.left + 1] \in CtxRecord
        BY SMTT(30), <2>1 DEF CtxRecord
      <4> QED
        BY <2>1, <4>1, <4>2 DEF TypeOK
    <3>2. refs' \in Nat
      BY <2>4 DEF TypeOK, RegisterPid, Released
    <3> QED
      BY SMTT(30), <1>16, <2>1, <2>4, <3>1, <3>2 DEF TypeOK, WaitStage, RegisterPid, kernelVars
  <2> QED
    BY <1>16, <2>2, <2>3, <2>4 DEF WaitStage
<1>17. CASE WaitEnd
  <2>1. cur \in Ctx /\ ctxs[cur] \in CtxRecord
    BY <1>17 DEF TypeOK, WaitEnd
  <2>2. ctxs' \in [Ctx -> CtxRecord]
    BY <1>17, <2>1, FinalizeType DEF TypeOK, WaitEnd
  <2> QED
    BY <1>17, <2>2, EmptySeq DEF TypeOK, WaitEnd, Return, kernelVars, tableVars
<1>18. CASE SigChldBegin
  BY <1>18 DEF TypeOK, SigChldBegin, tableVars
<1>19. CASE SigChldEnd
  BY <1>19 DEF TypeOK, SigChldEnd, kernelVars, tableVars
<1>22. ASSUME NEW c \in Ctx, CaptureEof(c) PROVE TypeOK'
  <2> DEFINE x == ctxs[c]
             y == [x EXCEPT !.capture = "eof"]
  <2>1. x \in CtxRecord
    BY DEF TypeOK
  <2> HIDE DEF x
  <2>2. y \in CtxRecord
    BY <2>1 DEF CtxRecord
  <2> HIDE DEF y
  <2>3. MaybeFinalize(y) \in CtxRecord
    BY <2>2, FinalizeType
  <2>4. ctxs' \in [Ctx -> CtxRecord]
    BY <1>22, <2>3 DEF TypeOK, CaptureEof, x, y
  <2> QED
    BY <1>22, <2>4 DEF TypeOK, CaptureEof, kernelVars, tableVars, callVars
<1>23. ASSUME NEW p \in Pid, Reap(p) PROVE TypeOK'
  <2>1. /\ Collect(p)
        /\ at' = at /\ cur' = cur /\ list' = list /\ pos' = pos
        /\ lent' = lent /\ held' = held
    BY <1>23 DEF Reap, callVars
  <2>2. /\ StatusOf(p) \in WaitStatus
        /\ proc' \in [Pid -> {"unborn", "running", "stopped", "zombie", "reaped"}]
        /\ code' \in [Pid -> ExitCode] /\ news' \subseteq Pid /\ sigchld' \in BOOLEAN
    BY <2>1, CollectType
  <2>3. CASE ReapUntracked(p)
    BY <2>1, <2>2, <2>3 DEF TypeOK, ReapUntracked
  <2>4. CASE ReapBackground(p)
    <3>1. bg' \in Seq([pid : Pid, status : WaitStatus])
      BY <2>2, <2>4, AppendProperties DEF TypeOK, ReapBackground
    <3> QED
      BY <2>1, <2>2, <2>4, <3>1, EraseType DEF TypeOK, ReapBackground
  <2>5. CASE ReapStopped(p)
    <3> DEFINE c == owner[p]
               siblings == OwnedBy(c) \ {p}
               x == ctxs[c]
    <3>1. c \in Ctx /\ x \in CtxRecord /\ siblings \subseteq Pid
      BY <2>5 DEF TypeOK, ReapStopped, IsCtxBound, OwnedBy
    <3>2. Cardinality(siblings) \in Nat
      BY <3>1, PidAssumption, FS_Subset, FS_CardinalityType
    <3>3. /\ owner' \in [Pid -> Ctx \cup {Background, Untracked}]
          /\ slot' \in [Pid -> Nat \ {0}]
          /\ orphan' \in [Pid -> WaitStatus \cup {Unreaped, NoEntry}]
      BY <2>5 DEF TypeOK, ReapStopped
    <3>4. refs' \in Nat
      BY <2>5, <3>2 DEF TypeOK, ReapStopped, Released
    <3>5. tty' \in Pid \cup {Shell} /\ bg' = bg
      BY <2>5 DEF TypeOK, ReapStopped, TakeTerminalBack
    <3>6. PICK order \in Orders(siblings) :
             ctxs' = [ctxs EXCEPT ![c] = MaybeFinalize(
                 [x EXCEPT !.stopped = TRUE, !.exit = Stopped, !.left = 0,
                           !.pids = x.pids \o order])]
      BY <2>5 DEF ReapStopped
    <3> DEFINE more == x.pids \o order
               y == [x EXCEPT !.stopped = TRUE, !.exit = Stopped, !.left = 0, !.pids = more]
    <3>7. more \in Seq(Pid)
      BY <3>1, OrdersType, ConcatProperties DEF CtxRecord
    <3>9. ctxs' = [ctxs EXCEPT ![c] = MaybeFinalize(y)]
      BY <3>1, <3>6 DEF TypeOK
    <3> HIDE DEF more, y, x
    <3>8. y \in CtxRecord
      <4>1. y = [x EXCEPT !.stopped = TRUE, !.exit = Stopped, !.left = 0, !.pids = more]
        BY DEF y
      <4>2. TRUE \in BOOLEAN /\ Stopped \in WaitStatus /\ 0 \in Int
        BY DEF WaitStatus
      <4> QED
        BY <3>1, <3>7, <4>1, <4>2, StopType
    <3>10. ctxs' \in [Ctx -> CtxRecord]
      BY <3>8, <3>9, <3>1, FinalizeType DEF TypeOK
    <3> QED
      BY <2>1, <2>2, <3>3, <3>4, <3>5, <3>10 DEF TypeOK
  <2>6. CASE ReapStage(p)
    <3> DEFINE c == owner[p]
               r == Record(ctxs[c], slot[p], StatusOf(p))
               x == [r EXCEPT !.left = @ - 1]
    <3>1. c \in Ctx /\ ctxs[c] \in CtxRecord
      BY <2>6 DEF TypeOK, ReapStage, IsCtxBound
    <3>2. r \in CtxRecord
      BY <2>2, <3>1, RecordType
    <3>3. /\ ctxs' = [ctxs EXCEPT ![c] = x] \/ ctxs' = [ctxs EXCEPT ![c] = MaybeFinalize(x)]
          /\ tty' \in {tty, Shell}
      BY <2>6 DEF ReapStage, TakeTerminalBack
    <3> HIDE DEF r
    <3>4. x \in CtxRecord
      BY <3>2 DEF CtxRecord
    <3> HIDE DEF x
    <3>5. ctxs' \in [Ctx -> CtxRecord]
      BY <3>1, <3>3, <3>4, FinalizeType DEF TypeOK
    <3>6. orphan' = orphan /\ bg' = bg /\ ErasePending(p)
      BY <2>6 DEF ReapStage
    <3> QED
      BY <2>1, <2>2, <3>3, <3>5, <3>6, EraseType DEF TypeOK
  <2> QED
    BY <1>23, <2>3, <2>4, <2>5, <2>6 DEF Reap
<1>24. CASE JsCall
  BY <1>24, <1>3, <1>5, <1>6, <1>7, <1>8, <1>9, <1>10 DEF JsCall
<1>25. CASE CallStep
  BY <1>25, <1>11, <1>13, <1>14, <1>15, <1>16, <1>17, <1>20, <1>21 DEF CallStep
<1>26. CASE Callback
  BY <1>26, <1>18, <1>19, <1>22, <1>23 DEF Callback
<1> QED
  BY <1>1, <1>2, <1>24, <1>25, <1>26 DEF Next

LEMMA TypeInit == Init => TypeOK
<1> SUFFICES ASSUME Init PROVE TypeOK
  OBVIOUS
<1>1. FreeCtx \in CtxRecord
  <2> DEFINE x == NewCtx("foreground", <<>>)
  <2>1. x \in CtxRecord
    BY NewCtxType, EmptySeq DEF Mode
  <2> HIDE DEF x
  <2>2. [x EXCEPT !.state = "free"] \in CtxRecord
    BY <2>1 DEF CtxRecord, CtxState
  <2> QED
    BY <2>2 DEF FreeCtx, x
<1>2. ctxs \in [Ctx -> CtxRecord]
  BY <1>1 DEF Init
<1>3. <<>> \in Seq(Pid) /\ <<>> \in Seq([pid : Pid, status : WaitStatus])
  BY EmptySeq
<1>4. /\ code \in [Pid -> ExitCode]
      /\ owner \in [Pid -> Ctx \cup {Background, Untracked}]
      /\ orphan \in [Pid -> WaitStatus \cup {Unreaped, NoEntry}]
      /\ slot \in [Pid -> Nat \ {0}]
  BY CodeAssumption DEF Init
<1>5. cur \in IF at \in {"idle", "reap"} THEN {NoCtx} ELSE Ctx
  BY DEF Init
<1>6. proc \in [Pid -> {"unborn", "running", "stopped", "zombie", "reaped"}]
  BY DEF Init
<1>8. news \subseteq Pid /\ sigchld \in BOOLEAN
  BY DEF Init
<1>9. tty \in Pid \cup {Shell} /\ lent \in Pid \cup {Shell}
  BY DEF Init
<1>10. refs \in Nat /\ pos \in Nat \ {0}
  BY DEF Init
<1>11. at \in {"idle", "spawn", "drain", "wait", "reap"}
  BY DEF Init
<1>7. bg \in Seq([pid : Pid, status : WaitStatus]) /\ held \in Seq(Pid) /\ list \in Seq(Pid)
  BY <1>3 DEF Init
<1> QED
  BY <1>2, <1>4, <1>5, <1>6, <1>7, <1>8, <1>9, <1>10, <1>11 DEF TypeOK

\* Every variable keeps its type.
THEOREM TypeCorrect == Spec => []TypeOK
BY TypeInit, TypeStep, PTL DEF Spec

-----------------------------------------------------------------------------
(* Counting the pids of a context.                                         *)

LEMMA FiniteSets ==
    /\ IsFiniteSet(BoundPids) /\ Cardinality(BoundPids) \in Nat
    /\ \A c : IsFiniteSet(OwnedBy(c)) /\ Cardinality(OwnedBy(c)) \in Nat
BY PidAssumption, FS_Subset, FS_CardinalityType DEF BoundPids, OwnedBy

LEMMA NextFiniteSets ==
    /\ IsFiniteSet(BoundPids') /\ Cardinality(BoundPids') \in Nat
    /\ \A c : IsFiniteSet(OwnedBy(c)') /\ Cardinality(OwnedBy(c)') \in Nat
BY PidAssumption, FS_Subset, FS_CardinalityType DEF BoundPids, OwnedBy

\* Every list of pids the shell keeps holds pids.
LEMMA ListsOfPids ==
    ASSUME TypeOK
    PROVE  /\ \A i \in DOMAIN held : held[i] \in Pid
           /\ \A i \in DOMAIN list : list[i] \in Pid
           /\ \A c \in Ctx : \A i \in DOMAIN ctxs[c].pids : ctxs[c].pids[i] \in Pid
<1>1. \A s \in Seq(Pid) : \A i \in DOMAIN s : s[i] \in Pid
  BY ElementOfSeq, LenProperties
<1>2. held \in Seq(Pid) /\ list \in Seq(Pid) /\ \A c \in Ctx : ctxs[c].pids \in Seq(Pid)
  BY DEF TypeOK, CtxRecord
<1> QED
  BY <1>1, <1>2

\* A context that counts no pid owns none.
LEMMA NothingCounted ==
    ASSUME CountCovers, NEW c \in Ctx, ctxs[c].left \in Int, ~(ctxs[c].left > 0)
    PROVE  OwnedBy(c) = {}
BY FiniteSets, FS_EmptySet DEF CountCovers

-----------------------------------------------------------------------------
(* Steps that leave the tables and the contexts alone.                     *)

\* If only the processes, the wait statuses in transit, the terminal and the
\* position of the main thread change, the invariant is kept, provided no
\* process is unborn again and no call begins.
LEMMA Frame ==
    ASSUME IInv, TypeOK', TerminalReturned',
           UNCHANGED <<owner, orphan, refs, ctxs, held, list, cur>>,
           \A p \in Pid : Born(p) => Born(p)',
           \/ at' = at
           \/ at = "spawn" /\ at' = "drain"
           \/ at' \in {"idle", "reap"}
    PROVE  IInv'
<1>1. TypeOK
  BY DEF IInv
<1>2. NoDanglingCtx'
  BY DEF IInv, NoDanglingCtx, IsCtxBound
<1>3. CountCovers'
  BY DEF IInv, CountCovers, OwnedBy
<1>4. RefsExact'
  BY DEF IInv, RefsExact, BoundPids, IsCtxBound
<1>5. OneTable'
  BY DEF IInv, OneTable
<1>6. UnbornUnknown'
  BY <1>1, ListsOfPids DEF IInv, UnbornUnknown
<1>7. CallCtxLive'
  BY DEF IInv, CallCtxLive
<1>8. SpawnUnregistered'
  BY DEF IInv, SpawnUnregistered, OwnedBy
<1>9. ForegroundKind'
  BY DEF IInv, ForegroundKind
<1> QED
  BY <1>2, <1>3, <1>4, <1>5, <1>6, <1>7, <1>8, <1>9 DEF IInv

-----------------------------------------------------------------------------
(* A call begins: spawnPipeline, captureOutput or waitForPids.             *)

LEMMA CallBegins ==
    ASSUME IInv, TypeOK', NEW c \in Ctx, NEW mode \in Mode, NEW want \in Seq(Pid),
           ctxs[c].state = "free",
           ctxs' = [ctxs EXCEPT ![c] = NewCtx(mode, want)],
           UNCHANGED <<proc, owner, orphan, refs, tty, lent>>,
           at' \in {"spawn", "wait"}, cur' = c,
           at' = "spawn" => list' = <<>>,
           \A i \in DOMAIN list' : Born(list'[i]),
           \A i \in DOMAIN held' : Born(held'[i])
    PROVE  IInv'
<1> DEFINE y == NewCtx(mode, want)
<1>1. /\ y.state = "live" /\ y.pids = <<>> /\ y.left = 0
      /\ y.foreground = FALSE /\ y.capture = "none"
  BY NewCtxType
<1> HIDE DEF y
<1>2. /\ ctxs'[c] = y
      /\ \A d \in Ctx : d # c => ctxs'[d] = ctxs[d]
  BY DEF IInv, TypeOK, y
<1>3. OwnedBy(c) = {}
  BY DEF IInv, NoDanglingCtx, OwnedBy, IsCtxBound
<1>4. NoDanglingCtx'
  BY <1>1, <1>2 DEF IInv, NoDanglingCtx, IsCtxBound
<1>5. CountCovers'
  <2>1. \A d \in Ctx : OwnedBy(d)' = OwnedBy(d)
    BY DEF OwnedBy
  <2>2. ctxs'[c].left >= Cardinality(OwnedBy(c))
    BY <1>1, <1>2, <1>3, FS_EmptySet
  <2> QED
    BY <1>2, <2>1, <2>2 DEF IInv, CountCovers
<1>6. RefsExact'
  BY DEF IInv, RefsExact, BoundPids, IsCtxBound
<1>7. OneTable'
  BY DEF IInv, OneTable
<1>8. TerminalReturned'
  BY <1>2 DEF IInv, TerminalReturned, Pgid
<1>9. UnbornUnknown'
  BY <1>1, <1>2 DEF IInv, UnbornUnknown, Born
<1>10. CallCtxLive'
  BY <1>1, <1>2 DEF CallCtxLive
<1>11. SpawnUnregistered'
  <2>1. OwnedBy(cur)' = {}
    BY <1>3 DEF OwnedBy
  <2> QED
    BY <2>1 DEF SpawnUnregistered
<1>12. ForegroundKind'
  BY <1>1, <1>2 DEF IInv, ForegroundKind
<1> QED
  BY <1>4, <1>5, <1>6, <1>7, <1>8, <1>9, <1>10, <1>11, <1>12 DEF IInv

LEMMA SpawnBeginKeeps ==
    ASSUME IInv, TypeOK', NEW c \in Ctx,
           NEW mode \in {"foreground", "background", "capture"}, SpawnBegin(c, mode)
    PROVE  IInv'
<1>1. mode \in Mode /\ <<>> \in Seq(Pid)
  BY EmptySeq DEF Mode
<1>2. \A i \in DOMAIN held : Born(held[i])
  BY DEF IInv, UnbornUnknown
<1>3. /\ ctxs[c].state = "free"
      /\ ctxs' = [ctxs EXCEPT ![c] = NewCtx(mode, <<>>)]
      /\ UNCHANGED <<proc, owner, orphan, refs, tty, lent>>
      /\ at' = "spawn" /\ cur' = c /\ list' = <<>> /\ held' = held
  BY DEF SpawnBegin, kernelVars, tableVars
<1>4. \A i \in DOMAIN list' : Born(list'[i])
  BY <1>3
<1> QED
  BY <1>1, <1>2, <1>3, <1>4, CallBegins

LEMMA WaitBeginKeeps ==
    ASSUME IInv, TypeOK', NEW c \in Ctx, NEW mode \in Mode, NEW pids \in Seq(Pid),
           WaitBegin(c, mode, pids),
           \A i \in DOMAIN pids : Born(pids[i]),
           held' = held \/ held' = <<>>
    PROVE  IInv'
<1>1. \A i \in DOMAIN held' : Born(held'[i])
  BY DEF IInv, UnbornUnknown
<1>2. /\ ctxs[c].state = "free"
      /\ ctxs' = [ctxs EXCEPT ![c] = NewCtx(mode, pids)]
      /\ UNCHANGED <<proc, owner, orphan, refs, tty, lent>>
      /\ at' = "wait" /\ cur' = c /\ list' = pids
  BY DEF WaitBegin, kernelVars, tableVars
<1> QED
  BY <1>1, <1>2, CallBegins

LEMMA WaitMixedKeeps ==
    ASSUME IInv, TypeOK', NEW c \in Ctx, WaitMixed(c) PROVE IInv'
BY WaitBeginKeeps DEF WaitMixed, IInv, TypeOK, UnbornUnknown, Mode

LEMMA WaitResumeKeeps ==
    ASSUME IInv, TypeOK', NEW c \in Ctx, NEW pids \in JobPids, WaitResume(c, pids)
    PROVE  IInv'
<1>1. PICK d \in Ctx : pids = ctxs[d].pids
  BY DEF JobPids
<1>2. pids \in Seq(Pid) /\ \A i \in DOMAIN pids : Born(pids[i])
  BY <1>1, JobPidsType DEF IInv, UnbornUnknown
<1> QED
  BY <1>2, WaitBeginKeeps DEF WaitResume, Mode

\* A process substitution, or a stage of a mixed pipeline.
LEMMA ForkExecKeeps ==
    ASSUME IInv, TypeOK', NEW p \in Pid, NEW keep \in BOOLEAN, ForkExec(p, keep)
    PROVE  IInv'
<1>1. /\ at = "idle" /\ proc[p] = "unborn" /\ proc' = [proc EXCEPT ![p] = "running"]
      /\ orphan' = [orphan EXCEPT ![p] = Unreaped]
      /\ held' = IF keep THEN Append(held, p) ELSE held
      /\ UNCHANGED <<tty, lent, owner, refs, ctxs, at, cur, list>>
  BY DEF ForkExec, callVars
<1>2. owner[p] = Untracked
  BY <1>1 DEF IInv, UnbornUnknown, Born
<1>3. NoDanglingCtx' /\ RefsExact' /\ TerminalReturned' /\ ForegroundKind'
  BY <1>1 DEF IInv, NoDanglingCtx, RefsExact, BoundPids, IsCtxBound, TerminalReturned,
             Pgid, ForegroundKind
<1>4. CountCovers'
  BY <1>1 DEF IInv, CountCovers, OwnedBy
<1>5. OneTable'
  BY <1>1, <1>2 DEF IInv, OneTable, TypeOK
<1>6. UnbornUnknown'
  <2>1. \A q \in Pid : (Born(q) \/ q = p) <=> Born(q)'
    BY <1>1 DEF IInv, TypeOK, Born
  <2>2. \A q \in Pid : ~Born(q)' => owner'[q] = Untracked /\ orphan'[q] = NoEntry
    BY <1>1, <2>1 DEF IInv, TypeOK, UnbornUnknown
  <2>3. \A i \in DOMAIN held' : held'[i] \in Pid /\ (held'[i] = p \/ Born(held'[i]))
    BY <1>1, ListsOfPids, AppendProperties DEF IInv, TypeOK, UnbornUnknown
  <2> QED
    BY <1>1, <2>1, <2>2, <2>3, ListsOfPids DEF IInv, UnbornUnknown
<1>7. CallCtxLive' /\ SpawnUnregistered'
  BY <1>1 DEF CallCtxLive, SpawnUnregistered
<1> QED
  BY <1>3, <1>4, <1>5, <1>6, <1>7 DEF IInv

-----------------------------------------------------------------------------
(* spawnPipeline.                                                          *)

LEMMA SpawnStageKeeps ==
    ASSUME IInv, TypeOK', NEW p \in Pid, SpawnStage(p)
    PROVE  IInv'
<1>1. /\ at = "spawn" /\ proc[p] = "unborn" /\ proc' = [proc EXCEPT ![p] = "running"]
      /\ list' = Append(list, p)
      /\ UNCHANGED <<tty, lent, owner, orphan, refs, ctxs, held, at, cur>>
  BY DEF SpawnStage, tableVars
<1>2. owner[p] = Untracked /\ orphan[p] = NoEntry /\ \A i \in DOMAIN list : list[i] # p
  BY <1>1 DEF IInv, UnbornUnknown, Born
<1>3. /\ DOMAIN list = 1..Len(list) /\ DOMAIN list' = 1..(Len(list) + 1)
      /\ Len(list) \in Nat
      /\ \A i \in DOMAIN list : list'[i] = list[i]
      /\ list'[Len(list) + 1] = p
  <2>1. list \in Seq(Pid) /\ Append(list, p) \in Seq(Pid)
    BY AppendProperties DEF IInv, TypeOK
  <2>2. /\ DOMAIN list = 1..Len(list) /\ Len(list) \in Nat
        /\ DOMAIN list' = 1..Len(list')
    BY <1>1, <2>1, LenProperties
  <2>3. /\ Len(list') = Len(list) + 1
        /\ \A i \in 1..Len(list) : list'[i] = list[i]
        /\ list'[Len(list) + 1] = p
    BY <1>1, <2>1, AppendProperties
  <2> QED
    BY <2>2, <2>3
<1>4. NoDanglingCtx' /\ RefsExact' /\ TerminalReturned' /\ ForegroundKind'
  BY <1>1 DEF IInv, NoDanglingCtx, RefsExact, BoundPids, IsCtxBound, TerminalReturned,
             Pgid, ForegroundKind
<1>5. CountCovers'
  BY <1>1 DEF IInv, CountCovers, OwnedBy
<1>6. OneTable'
  BY <1>1 DEF IInv, OneTable
<1>7. UnbornUnknown'
  <2>1. \A q \in Pid : (Born(q) \/ q = p) <=> Born(q)'
    BY <1>1 DEF IInv, TypeOK, Born
  <2>2. \A i \in DOMAIN list' : list'[i] \in Pid /\ (list'[i] = p \/ Born(list'[i]))
    BY <1>3, ListsOfPids DEF IInv, UnbornUnknown
  <2> QED
    BY <1>1, <2>1, <2>2, ListsOfPids DEF IInv, UnbornUnknown
<1>8. CallCtxLive'
  BY <1>1 DEF IInv, CallCtxLive
<1>9. SpawnUnregistered'
  <2>1. OwnedBy(cur)' = {}
    BY <1>1 DEF IInv, SpawnUnregistered, OwnedBy
  <2>2. \A i \in DOMAIN list' : owner[list'[i]] = Untracked /\ orphan[list'[i]] = NoEntry
    BY <1>1, <1>2, <1>3 DEF IInv, SpawnUnregistered
  <2>3. \A i, j \in DOMAIN list' : list'[i] = list'[j] => i = j
    BY <1>1, <1>2, <1>3 DEF IInv, SpawnUnregistered
  <2> QED
    BY <1>1, <2>1, <2>2, <2>3 DEF SpawnUnregistered
<1> QED
  BY <1>4, <1>5, <1>6, <1>7, <1>8, <1>9 DEF IInv

-----------------------------------------------------------------------------
(* Steps that write one context and the owners of its pids.                *)

\* Writing a context keeps what concerns the contexts, if no pid is given to
\* another one, the context written is live while it owns a pid and counts at
\* least what it owns, and one that loses the foreground returns the terminal.
LEMMA CtxChanges ==
    ASSUME IInv, TypeOK', NEW c \in Ctx, NEW y \in CtxRecord,
           ctxs' = [ctxs EXCEPT ![c] = y], lent' = lent,
           \A p \in Pid : owner'[p] \in Ctx => owner'[p] = c \/ owner'[p] = owner[p],
           OwnedBy(c)' # {} => y.state = "live",
           y.left >= Cardinality(OwnedBy(c)'),
           y.foreground => Interactive /\ y.capture = "none",
           \/ tty' = Shell
           \/ y.foreground /\ y.state = "live" /\ Pgid(y) = tty'
           \/ /\ tty' = tty
              /\ ctxs[c].foreground /\ ctxs[c].state = "live" =>
                   y.state = "live" /\ y.foreground /\ y.want = ctxs[c].want
    PROVE  NoDanglingCtx' /\ CountCovers' /\ TerminalReturned' /\ ForegroundKind'
<1>1. /\ ctxs'[c] = y
      /\ \A d \in Ctx : d # c => ctxs'[d] = ctxs[d]
  BY DEF IInv, TypeOK
<1>2. NoDanglingCtx'
  <2> SUFFICES ASSUME NEW p \in Pid, owner'[p] \in Ctx
               PROVE  ctxs'[owner'[p]].state = "live"
    BY DEF NoDanglingCtx, IsCtxBound
  <2>1. CASE owner'[p] = c
    BY <1>1, <2>1 DEF OwnedBy
  <2>2. CASE owner'[p] # c
    BY <1>1, <2>2 DEF IInv, NoDanglingCtx, IsCtxBound
  <2> QED
    BY <2>1, <2>2
<1>3. CountCovers'
  <2> SUFFICES ASSUME NEW d \in Ctx PROVE ctxs'[d].left >= Cardinality(OwnedBy(d)')
    BY DEF CountCovers
  <2>1. CASE d = c
    BY <1>1, <2>1
  <2>2. CASE d # c
    <3>1. OwnedBy(d)' \subseteq OwnedBy(d)
      BY <2>2 DEF OwnedBy
    <3>2. Cardinality(OwnedBy(d)') <= Cardinality(OwnedBy(d))
      BY <3>1, FiniteSets, FS_Subset
    <3>3. ctxs[d].left >= Cardinality(OwnedBy(d)) /\ ctxs[d].left \in Int
      BY DEF IInv, CountCovers, TypeOK, CtxRecord
    <3> QED
      BY <1>1, <2>2, <3>2, <3>3, FiniteSets, NextFiniteSets
  <2> QED
    BY <2>1, <2>2
<1>4. TerminalReturned'
  <2>1. CASE y.foreground /\ y.state = "live" /\ Pgid(y) = tty'
    BY <1>1, <2>1 DEF TerminalReturned, Pgid
  <2>2. CASE /\ tty' = tty
             /\ ctxs[c].foreground /\ ctxs[c].state = "live" =>
                  y.state = "live" /\ y.foreground /\ y.want = ctxs[c].want
    BY <1>1, <2>2 DEF IInv, TerminalReturned, Pgid
  <2> QED
    BY <2>1, <2>2 DEF TerminalReturned
<1>5. ForegroundKind'
  BY <1>1 DEF IInv, ForegroundKind
<1> QED
  BY <1>2, <1>3, <1>4, <1>5

\* No process is unborn again, and the lists and tables gain only pids of
\* processes that live or have lived.
LEMMA BornStays ==
    ASSUME IInv, TypeOK', NEW c \in Ctx, NEW y \in CtxRecord,
           ctxs' = [ctxs EXCEPT ![c] = y],
           \A i \in DOMAIN y.pids : Born(y.pids[i]),
           \A p \in Pid : Born(p)' <=> Born(p),
           \A p \in Pid : ~Born(p) => owner'[p] = owner[p] /\ orphan'[p] = orphan[p],
           held' = held, list' = list \/ list' = <<>>
    PROVE  UnbornUnknown'
<1>1. /\ ctxs'[c] = y
      /\ \A d \in Ctx : d # c => ctxs'[d] = ctxs[d]
  BY DEF IInv, TypeOK
<1>2. \A p \in Pid : ~Born(p)' => owner'[p] = Untracked /\ orphan'[p] = NoEntry
  BY DEF IInv, UnbornUnknown
<1>6. TypeOK
  BY DEF IInv
<1>3. \A i \in DOMAIN held' : proc'[held'[i]] # "unborn"
  BY <1>6, ListsOfPids DEF IInv, UnbornUnknown, Born
<1>4. \A i \in DOMAIN list' : proc'[list'[i]] # "unborn"
  BY <1>6, ListsOfPids DEF IInv, UnbornUnknown, Born
<1>5. \A d \in Ctx : \A i \in DOMAIN ctxs'[d].pids : proc'[ctxs'[d].pids[i]] # "unborn"
  <2> SUFFICES ASSUME NEW d \in Ctx, NEW i \in DOMAIN ctxs'[d].pids
               PROVE  proc'[ctxs'[d].pids[i]] # "unborn"
    OBVIOUS
  <2>1. CASE d # c
    BY <1>1, <1>6, <2>1, ListsOfPids DEF IInv, UnbornUnknown, Born
  <2>2. CASE d = c
    <3>1. y.pids[i] \in Pid
      <4>1. y.pids \in Seq(Pid)
        BY DEF CtxRecord
      <4> QED
        BY <1>1, <2>2, <4>1, ElementOfSeq, LenProperties
    <3> QED
      BY <1>1, <2>2, <3>1 DEF Born
  <2> QED
    BY <2>1, <2>2
<1> QED
  BY <1>2, <1>3, <1>4, <1>5 DEF UnbornUnknown, Born

\* Steps after which no call is in progress: what concerns the call holds.
LEMMA NoCall ==
    ASSUME at' \in {"idle", "reap"}
    PROVE  CallCtxLive' /\ SpawnUnregistered'
BY DEF CallCtxLive, SpawnUnregistered

LEMMA CaptureEofKeeps ==
    ASSUME IInv, TypeOK', NEW c \in Ctx, CaptureEof(c)
    PROVE  IInv'
<1> DEFINE x == ctxs[c]
           e == [x EXCEPT !.capture = "eof"]
           y == MaybeFinalize(e)
<1>1. /\ at = "idle" /\ x.state = "live" /\ x.capture = "open"
      /\ ctxs' = [ctxs EXCEPT ![c] = y]
      /\ UNCHANGED <<proc, tty, lent, owner, orphan, refs, held, at, cur, list>>
  BY DEF CaptureEof, kernelVars, tableVars, callVars, IInv, TypeOK
<1>2. x \in CtxRecord /\ ~x.foreground /\ x.left >= Cardinality(OwnedBy(c))
  BY <1>1 DEF IInv, TypeOK, ForegroundKind, CountCovers
<1> HIDE DEF x
<1>3. /\ e \in CtxRecord /\ e.pids = x.pids /\ e.left = x.left /\ e.state = x.state
      /\ e.foreground = x.foreground
  BY <1>2 DEF CtxRecord
<1> HIDE DEF e
<1>4. /\ y \in CtxRecord /\ y.pids = x.pids /\ y.left = x.left
      /\ ~y.foreground
      /\ x.left > 0 => y.state = "live"
  BY <1>1, <1>2, <1>3, FinalizeType
<1> HIDE DEF y
<1>5. OwnedBy(c)' = OwnedBy(c)
  BY <1>1 DEF OwnedBy
<1>6. OwnedBy(c) # {} => y.state = "live"
  BY <1>4, NothingCounted DEF IInv, x, TypeOK, CtxRecord
<1>7. NoDanglingCtx' /\ CountCovers' /\ TerminalReturned' /\ ForegroundKind'
  BY <1>1, <1>2, <1>4, <1>5, <1>6, CtxChanges DEF x
<1>8. UnbornUnknown'
  <2>1. \A i \in DOMAIN y.pids : Born(y.pids[i])
    BY <1>4 DEF IInv, UnbornUnknown, x
  <2>2. \A p \in Pid : Born(p)' <=> Born(p)
    BY <1>1 DEF Born
  <2> QED
    BY <1>1, <1>4, <2>1, <2>2, BornStays
<1>9. RefsExact' /\ OneTable'
  BY <1>1 DEF IInv, RefsExact, BoundPids, IsCtxBound, OneTable
<1> QED
  BY <1>1, <1>7, <1>8, <1>9, NoCall DEF IInv

LEMMA WaitEndKeeps ==
    ASSUME IInv, TypeOK', WaitEnd
    PROVE  IInv'
<1>0. PICK c \in Ctx : c = cur
  BY DEF WaitEnd, IInv, TypeOK
<1> DEFINE x == ctxs[c]
           y == MaybeFinalize(x)
<1>1. /\ at = "wait" /\ at' = "idle" /\ list' = <<>>
      /\ ctxs' = [ctxs EXCEPT ![c] = y]
      /\ UNCHANGED <<proc, tty, lent, owner, orphan, refs, held>>
  BY <1>0 DEF WaitEnd, Return, kernelVars, tableVars
<1>2. /\ c \in Ctx /\ x \in CtxRecord /\ x.state = "live" /\ ~x.foreground
      /\ x.left >= Cardinality(OwnedBy(c))
  BY <1>0, <1>1 DEF IInv, TypeOK, CallCtxLive, CountCovers
<1> HIDE DEF x
<1>4. /\ y \in CtxRecord /\ y.pids = x.pids /\ y.left = x.left
      /\ ~y.foreground
      /\ x.left > 0 => y.state = "live"
  BY <1>2, FinalizeType
<1> HIDE DEF y
<1>5. OwnedBy(c)' = OwnedBy(c)
  BY <1>1 DEF OwnedBy
<1>6. OwnedBy(c) # {} => y.state = "live"
  BY <1>2, <1>4, NothingCounted DEF IInv, x, TypeOK, CtxRecord
<1>7. NoDanglingCtx' /\ CountCovers' /\ TerminalReturned' /\ ForegroundKind'
  BY <1>1, <1>2, <1>4, <1>5, <1>6, CtxChanges DEF x
<1>8. UnbornUnknown'
  <2>1. \A i \in DOMAIN y.pids : Born(y.pids[i])
    BY <1>2, <1>4 DEF IInv, UnbornUnknown, x
  <2>2. \A p \in Pid : Born(p)' <=> Born(p)
    BY <1>1 DEF Born
  <2> QED
    BY <1>1, <1>2, <1>4, <2>1, <2>2, BornStays
<1>9. RefsExact' /\ OneTable'
  BY <1>1 DEF IInv, RefsExact, BoundPids, IsCtxBound, OneTable
<1> QED
  BY <1>1, <1>7, <1>8, <1>9, NoCall DEF IInv

LEMMA DrainEndKeeps ==
    ASSUME IInv, TypeOK', DrainEnd
    PROVE  IInv'
<1>0. PICK c \in Ctx : c = cur
  BY DEF DrainEnd, IInv, TypeOK
<1> DEFINE x == ctxs[c]
           e == [x EXCEPT !.exit = SpawnErr]
           y == Resolve(e)
<1>2. /\ at = "drain" /\ at' = "idle" /\ list' = <<>>
      /\ UNCHANGED <<proc, tty, lent, owner, orphan, refs, held>>
  BY DEF DrainEnd, Return, kernelVars, tableVars
<1>3. /\ c \in Ctx /\ x \in CtxRecord /\ ~x.foreground /\ OwnedBy(c) = {}
      /\ x.left >= Cardinality(OwnedBy(c))
  BY <1>0, <1>2 DEF IInv, TypeOK, CallCtxLive, SpawnUnregistered, CountCovers
<1>1. ctxs' = [ctxs EXCEPT ![c] = y]
  BY <1>0, <1>3 DEF DrainEnd, IInv, TypeOK
<1> HIDE DEF x
<1>4. e \in CtxRecord /\ e.pids = x.pids /\ e.left = x.left /\ e.foreground = x.foreground
  BY <1>3, CodeAssumption DEF CtxRecord, WaitStatus
<1> HIDE DEF e
<1>5. y \in CtxRecord /\ y.pids = x.pids /\ y.left = x.left /\ ~y.foreground
  BY <1>3, <1>4 DEF Resolve, CtxRecord, CtxState
<1> HIDE DEF y
<1>6. OwnedBy(c)' = OwnedBy(c)
  BY <1>2 DEF OwnedBy
<1>7. NoDanglingCtx' /\ CountCovers' /\ TerminalReturned' /\ ForegroundKind'
  BY <1>1, <1>2, <1>3, <1>5, <1>6, CtxChanges DEF x
<1>8. UnbornUnknown'
  <2>1. \A i \in DOMAIN y.pids : Born(y.pids[i])
    BY <1>3, <1>5 DEF IInv, UnbornUnknown, x
  <2>2. \A p \in Pid : Born(p)' <=> Born(p)
    BY <1>2 DEF Born
  <2> QED
    BY <1>1, <1>2, <1>3, <1>5, <2>1, <2>2, BornStays
<1>9. RefsExact' /\ OneTable'
  BY <1>2 DEF IInv, RefsExact, BoundPids, IsCtxBound, OneTable
<1> QED
  BY <1>2, <1>7, <1>8, <1>9, NoCall DEF IInv

\* waitForPids: a status that was parked, or a pid that g_pending takes over.
LEMMA TakeParkedKeeps ==
    ASSUME IInv, TypeOK', WaitStage,
           TakeParkedStop(list[pos]) \/ TakeParkedExit(list[pos])
    PROVE  IInv'
<1>0. PICK c \in Ctx : c = cur
  BY DEF WaitStage, IInv, TypeOK
<1>p. PICK p \in Pid : p = list[pos]
  BY DEF WaitStage, IInv, TypeOK
<1> DEFINE x == ctxs[c]
<1>1. /\ at = "wait" /\ at' = at /\ cur' = cur
      /\ orphan[p] \in WaitStatus
      /\ orphan' = [orphan EXCEPT ![p] = IF orphan[p] = Stopped THEN Unreaped ELSE NoEntry]
      /\ UNCHANGED <<proc, tty, lent, owner, refs, held, list>>
  BY <1>p, CodeAssumption
     DEF WaitStage, TakeParkedStop, TakeParkedExit, kernelVars, WaitStatus
<1>2. /\ x \in CtxRecord /\ x.state = "live" /\ ~x.foreground /\ x.capture = "none"
      /\ x.left >= Cardinality(OwnedBy(c))
  BY <1>0, <1>1 DEF IInv, TypeOK, CallCtxLive, CountCovers
<1>3. PICK y \in CtxRecord : /\ ctxs' = [ctxs EXCEPT ![c] = y]
                             /\ y.state = "live" /\ ~y.foreground /\ y.capture = "none"
                             /\ y.left = x.left /\ y.pids = x.pids
  <2>1. CASE TakeParkedStop(list[pos])
    <3> DEFINE r == Record(x, pos, Stopped)
               y == [r EXCEPT !.stopped = TRUE]
    <3>1. ctxs' = [ctxs EXCEPT ![c] = y]
      BY <1>0, <2>1 DEF TakeParkedStop
    <3> HIDE DEF x
    <3>2. /\ r \in CtxRecord /\ r.state = "live" /\ ~r.foreground /\ r.capture = "none"
          /\ r.left = x.left /\ r.pids = x.pids
      BY <1>2, RecordType DEF WaitStatus
    <3> HIDE DEF r
    <3>3. /\ y \in CtxRecord /\ y.state = "live" /\ ~y.foreground /\ y.capture = "none"
          /\ y.left = x.left /\ y.pids = x.pids
      BY <3>2 DEF CtxRecord
    <3> QED
      BY <3>1, <3>3
  <2>2. CASE TakeParkedExit(list[pos])
    <3>1. ctxs' = [ctxs EXCEPT ![c] = Record(x, pos, orphan[p])]
      BY <1>0, <1>p, <2>2 DEF TakeParkedExit
    <3> DEFINE y == Record(x, pos, orphan[p])
    <3>2. /\ y \in CtxRecord /\ y.state = "live" /\ ~y.foreground /\ y.capture = "none"
          /\ y.left = x.left /\ y.pids = x.pids
      BY <1>1, <1>2, RecordType
    <3> HIDE DEF y
    <3> QED
      BY <3>1, <3>2 DEF y
  <2> QED
    BY <2>1, <2>2
<1>4. OwnedBy(c)' = OwnedBy(c)
  BY <1>1 DEF OwnedBy
<1>5. NoDanglingCtx' /\ CountCovers' /\ TerminalReturned' /\ ForegroundKind'
  BY <1>1, <1>2, <1>3, <1>4, CtxChanges
<1>6. owner[p] = Untracked /\ Born(p)
  BY <1>1, CodeAssumption
     DEF IInv, OneTable, UnbornUnknown, WaitStatus, Stopped, NoEntry
<1>7. UnbornUnknown'
  <2>1. \A i \in DOMAIN y.pids : Born(y.pids[i])
    BY <1>3 DEF IInv, UnbornUnknown
  <2>2. \A q \in Pid : Born(q)' <=> Born(q)
    BY <1>1 DEF Born
  <2>3. \A q \in Pid : ~Born(q) => owner'[q] = owner[q] /\ orphan'[q] = orphan[q]
    BY <1>1, <1>6 DEF IInv, TypeOK
  <2> QED
    BY <1>1, <1>3, <2>1, <2>2, <2>3, BornStays
<1>8. RefsExact' /\ OneTable'
  BY <1>1, <1>6 DEF IInv, RefsExact, BoundPids, IsCtxBound, OneTable, TypeOK
<1>9. CallCtxLive' /\ SpawnUnregistered'
  BY <1>0, <1>1, <1>3 DEF CallCtxLive, SpawnUnregistered, IInv, TypeOK
<1> QED
  BY <1>5, <1>7, <1>8, <1>9 DEF IInv

\* What registering p for c does to the sets of owned pids, and to the number
\* of references, also when another context had p.
LEMMA RegisterCounts ==
    ASSUME IInv, NEW p \in Pid, NEW c \in Ctx,
           owner' = [owner EXCEPT ![p] = c],
           refs' = (IF IsCtxBound(p) THEN Released(1) ELSE refs) + 1
    PROVE  /\ Cardinality(OwnedBy(c)') <= Cardinality(OwnedBy(c)) + 1
           /\ RefsExact'
<1>1. OwnedBy(c)' = OwnedBy(c) \cup {p} /\ BoundPids' = BoundPids \cup {p}
  BY DEF IInv, TypeOK, OwnedBy, BoundPids, IsCtxBound
<1>2. Cardinality(OwnedBy(c)') <= Cardinality(OwnedBy(c)) + 1
  <2>1. IsFiniteSet(OwnedBy(c)) /\ Cardinality(OwnedBy(c)) \in Nat
    BY FiniteSets
  <2>2. Cardinality(OwnedBy(c) \cup {p}) =
          IF p \in OwnedBy(c) THEN Cardinality(OwnedBy(c)) ELSE Cardinality(OwnedBy(c)) + 1
    BY <2>1, FS_AddElement
  <2> QED
    BY <1>1, <2>1, <2>2
<1>3. refs = Cardinality(BoundPids) /\ refs \in Nat
  BY DEF IInv, RefsExact, TypeOK
<1>4. CASE IsCtxBound(p)
  <2>1. p \in BoundPids /\ Cardinality(BoundPids') = Cardinality(BoundPids)
    BY <1>1, <1>4, FiniteSets, FS_AddElement DEF BoundPids
  <2>2. Cardinality(BoundPids) # 0
    BY <2>1, FiniteSets, FS_EmptySet
  <2> QED
    BY <1>2, <1>3, <1>4, <2>1, <2>2 DEF RefsExact, Released
<1>5. CASE ~IsCtxBound(p)
  <2>1. p \notin BoundPids
    BY <1>5 DEF BoundPids
  <2>2. Cardinality(BoundPids') = Cardinality(BoundPids) + 1
    BY <1>1, <2>1, FiniteSets, FS_AddElement
  <2> QED
    BY <1>2, <1>3, <1>5, <2>2 DEF RefsExact
<1> QED
  BY <1>4, <1>5

LEMMA RegisterPidKeeps ==
    ASSUME IInv, TypeOK', WaitStage, RegisterPid(list[pos])
    PROVE  IInv'
<1>0. PICK c \in Ctx : c = cur
  BY DEF WaitStage, IInv, TypeOK
<1>p. PICK p \in Pid : p = list[pos] /\ Born(p)
  <2>1. list[pos] \in Pid /\ pos \in DOMAIN list
    BY LenProperties DEF WaitStage, IInv, TypeOK
  <2> QED
    BY <2>1 DEF IInv, UnbornUnknown
<1> DEFINE x == ctxs[c]
           y == [x EXCEPT !.left = x.left + 1]
<1>1. /\ at = "wait" /\ at' = at /\ cur' = cur
      /\ orphan' = [orphan EXCEPT ![p] = NoEntry]
      /\ owner' = [owner EXCEPT ![p] = c]
      /\ refs' = (IF IsCtxBound(p) THEN Released(1) ELSE refs) + 1
      /\ UNCHANGED <<proc, tty, lent, held, list>>
  BY <1>0, <1>p DEF WaitStage, RegisterPid, kernelVars
<1>2. ctxs' = [ctxs EXCEPT ![c] = y]
  BY <1>0 DEF RegisterPid, IInv, TypeOK
<1>3. /\ x \in CtxRecord /\ x.state = "live" /\ ~x.foreground /\ x.capture = "none"
      /\ x.left >= Cardinality(OwnedBy(c)) /\ x.left \in Int
  BY <1>0, <1>1 DEF IInv, TypeOK, CallCtxLive, CountCovers, CtxRecord
<1> HIDE DEF x
<1>4. /\ y \in CtxRecord /\ y.state = "live" /\ ~y.foreground /\ y.capture = "none"
      /\ y.left = x.left + 1 /\ y.pids = x.pids
  BY SMTT(30), <1>3 DEF CtxRecord
<1> HIDE DEF y
<1>5. y.left >= Cardinality(OwnedBy(c)') /\ RefsExact'
  <2>1. Cardinality(OwnedBy(c)') <= Cardinality(OwnedBy(c)) + 1 /\ RefsExact'
    BY <1>1, RegisterCounts
  <2>2. Cardinality(OwnedBy(c)) \in Nat /\ Cardinality(OwnedBy(c)') \in Nat
    BY FiniteSets, NextFiniteSets
  <2> QED
    BY <1>3, <1>4, <2>1, <2>2
<1>6. \A q \in Pid : owner'[q] \in Ctx => owner'[q] = c \/ owner'[q] = owner[q]
  BY <1>1 DEF IInv, TypeOK
<1>7. NoDanglingCtx' /\ CountCovers' /\ TerminalReturned' /\ ForegroundKind'
  BY <1>1, <1>2, <1>3, <1>4, <1>5, <1>6, CtxChanges DEF x
<1>8. UnbornUnknown'
  <2>1. \A i \in DOMAIN y.pids : Born(y.pids[i])
    BY <1>4 DEF IInv, UnbornUnknown, x
  <2>2. \A q \in Pid : Born(q)' <=> Born(q)
    BY <1>1 DEF Born
  <2>3. \A q \in Pid : ~Born(q) => owner'[q] = owner[q] /\ orphan'[q] = orphan[q]
    BY <1>p, <1>1 DEF IInv, TypeOK
  <2> QED
    BY <1>1, <1>2, <1>4, <2>1, <2>2, <2>3, BornStays
<1>9. OneTable'
  BY <1>1 DEF IInv, OneTable, TypeOK
<1>10. CallCtxLive' /\ SpawnUnregistered'
  BY <1>0, <1>1, <1>2, <1>4 DEF CallCtxLive, SpawnUnregistered, IInv, TypeOK
<1> QED
  BY <1>5, <1>7, <1>8, <1>9, <1>10 DEF IInv

LEMMA WaitStageKeeps ==
    ASSUME IInv, TypeOK', WaitStage
    PROVE  IInv'
BY TakeParkedKeeps, RegisterPidKeeps DEF WaitStage

-----------------------------------------------------------------------------
(* The end of spawnPipeline.                                               *)

\* The pids of a pipeline, which no table knows yet, are as many as its
\* stages.
LEMMA StagesCount ==
    ASSUME IInv, at = "spawn"
    PROVE  /\ Stages \subseteq Pid /\ Stages \cap BoundPids = {}
           /\ \A p \in Stages : Born(p) /\ orphan[p] = NoEntry /\ owner[p] = Untracked
           /\ IsFiniteSet(Stages) /\ Cardinality(Stages) = Len(list) /\ Len(list) \in Nat
<1>1. /\ DOMAIN list = 1..Len(list) /\ Len(list) \in Nat
      /\ list \in [1..Len(list) -> Stages]
      /\ \A i, j \in 1..Len(list) : list[i] = list[j] => i = j
  BY LenProperties DEF IInv, TypeOK, SpawnUnregistered, Stages
<1>2. Stages \subseteq Pid
  BY ListsOfPids DEF IInv, Stages
<1>3. \A p \in Stages : Born(p) /\ orphan[p] = NoEntry /\ owner[p] = Untracked
  BY DEF IInv, UnbornUnknown, SpawnUnregistered, Stages
<1>4. Stages \cap BoundPids = {}
  BY <1>3, CtxAssumption DEF BoundPids, IsCtxBound
<1>5. list \in Bijection(1..Len(list), Stages)
  BY <1>1 DEF Bijection, Injection, IsInjective, Surjection, Stages
<1>6. IsFiniteSet(1..Len(list)) /\ Cardinality(1..Len(list)) = Len(list)
  BY <1>1, FS_Interval
<1>7. IsFiniteSet(Stages) /\ Cardinality(Stages) = Len(list)
  BY <1>5, <1>6, FS_Bijection DEF ExistsBijection
<1> QED
  BY <1>1, <1>2, <1>3, <1>4, <1>7

LEMMA SpawnEndBackgroundKeeps ==
    ASSUME IInv, TypeOK', SpawnEndBackground
    PROVE  IInv'
<1>0. PICK c \in Ctx : c = cur
  BY DEF SpawnEndBackground, IInv, TypeOK
<1> DEFINE y == Resolve(SpawnedCtx("background", list))
<1>1. /\ at = "spawn" /\ at' = "idle" /\ list' = <<>> /\ list \in Seq(Pid)
      /\ owner' = [p \in Pid |-> IF p \in Stages THEN Background ELSE owner[p]]
      /\ ctxs' = [ctxs EXCEPT ![c] = y]
      /\ UNCHANGED <<proc, tty, lent, orphan, refs, held>>
  BY <1>0 DEF SpawnEndBackground, Return, kernelVars, IInv, TypeOK
<1>2. /\ y \in CtxRecord /\ y.pids = list /\ y.left = 0 /\ ~y.foreground
  <2> DEFINE r == SpawnedCtx("background", list)
  <2>1. /\ r \in CtxRecord /\ r.pids = list /\ r.left = 0 /\ ~r.foreground
    <3>1. "background" \in Mode /\ list \in Seq(Pid)
      BY <1>1 DEF Mode
    <3> QED
      BY <3>1, SpawnedCtxType, Zenon
  <2>2. Resolve(r) \in CtxRecord
    BY <1>1, SpawnedCtxType DEF Mode
  <2>3. y = Resolve(r)
    OBVIOUS
  <2> HIDE DEF r, y
  <2>4. Resolve(r).pids = r.pids /\ Resolve(r).left = r.left
        /\ Resolve(r).foreground = r.foreground
    BY <2>1 DEF Resolve, CtxRecord
  <2> QED
    BY <2>1, <2>2, <2>3, <2>4
<1> HIDE DEF y
<1>3. /\ Stages \subseteq Pid
      /\ \A p \in Stages : Born(p) /\ orphan[p] = NoEntry /\ owner[p] = Untracked
  BY <1>1, StagesCount
<1>4. \A p \in Pid : (owner'[p] # owner[p]) => (owner'[p] \notin Ctx /\ owner[p] \notin Ctx)
  BY <1>1, <1>3, CtxAssumption
<1>5. OwnedBy(c)' = {} /\ BoundPids' = BoundPids /\ ~ctxs[c].foreground
  BY <1>0, <1>1, <1>4 DEF IInv, SpawnUnregistered, OwnedBy, BoundPids, IsCtxBound, CallCtxLive
<1>6. y.left >= Cardinality(OwnedBy(c)')
  BY <1>2, <1>5, FS_EmptySet
<1>7. NoDanglingCtx' /\ CountCovers' /\ TerminalReturned' /\ ForegroundKind'
  BY <1>1, <1>2, <1>4, <1>5, <1>6, CtxChanges
<1>8. UnbornUnknown'
  <2>1. \A i \in DOMAIN y.pids : Born(y.pids[i])
    BY <1>2 DEF IInv, UnbornUnknown
  <2>2. \A q \in Pid : Born(q)' <=> Born(q)
    BY <1>1 DEF Born
  <2>3. \A q \in Pid : ~Born(q) => owner'[q] = owner[q] /\ orphan'[q] = orphan[q]
    BY <1>1, <1>3
  <2> QED
    BY <1>1, <1>2, <2>1, <2>2, <2>3, BornStays
<1>9. RefsExact' /\ OneTable'
  BY <1>1, <1>3, <1>5 DEF IInv, RefsExact, OneTable
<1> QED
  BY <1>1, <1>7, <1>8, <1>9, NoCall DEF IInv

LEMMA SpawnEndKeeps ==
    ASSUME IInv, TypeOK', SpawnEnd
    PROVE  IInv'
<1>0. PICK c \in Ctx : c = cur
  BY DEF SpawnEnd, IInv, TypeOK
<1>m. PICK mode \in Mode : mode = ctxs[c].mode /\ mode # "background"
  BY <1>0 DEF SpawnEnd, IInv, TypeOK, CtxRecord
<1> DEFINE y == SpawnedCtx(mode, list)
<1>1. /\ at = "spawn" /\ at' = "idle" /\ list' = <<>> /\ list \in Seq(Pid)
      /\ owner' = [p \in Pid |-> IF p \in Stages THEN c ELSE owner[p]]
      /\ refs' = refs + Len(list)
      /\ tty' = IF mode = "foreground" /\ Interactive THEN list[1] ELSE tty
      /\ ctxs' = [ctxs EXCEPT ![c] = y]
      /\ UNCHANGED <<proc, lent, orphan, held>>
  BY <1>0, <1>m DEF SpawnEnd, Return, kernelVars, IInv, TypeOK
<1>2. /\ y \in CtxRecord /\ y.state = "live" /\ y.want = list /\ y.pids = list
      /\ y.left = Len(list)
      /\ y.foreground = (mode = "foreground" /\ Interactive)
      /\ y.foreground => y.capture = "none"
  <2>1. list \in Seq(Pid) /\ mode \in Mode /\ mode # "background"
    BY <1>1, <1>m
  <2>2. /\ y \in CtxRecord /\ y.state = "live" /\ y.want = list /\ y.pids = list
        /\ y.left = IF mode = "background" THEN 0 ELSE Len(list)
        /\ y.foreground = (mode = "foreground" /\ Interactive)
        /\ mode = "foreground" => y.capture = "none"
    BY <2>1, SpawnedCtxType
  <2> HIDE DEF y
  <2> QED
    BY <2>1, <2>2
<1> HIDE DEF y
<1>3. /\ Stages \subseteq Pid /\ Stages \cap BoundPids = {}
      /\ \A p \in Stages : Born(p) /\ orphan[p] = NoEntry /\ owner[p] = Untracked
      /\ IsFiniteSet(Stages) /\ Cardinality(Stages) = Len(list) /\ Len(list) \in Nat
  BY <1>1, StagesCount
<1>4. OwnedBy(c)' = Stages /\ BoundPids' = BoundPids \cup Stages
  BY <1>0, <1>1, <1>3 DEF IInv, SpawnUnregistered, OwnedBy, BoundPids, IsCtxBound
<1>5. y.left >= Cardinality(OwnedBy(c)')
  BY <1>2, <1>3, <1>4
<1>6. /\ \A p \in Pid : owner'[p] \in Ctx => owner'[p] = c \/ owner'[p] = owner[p]
      /\ y.foreground => Interactive
      /\ \/ y.foreground /\ y.state = "live" /\ Pgid(y) = tty'
         \/ tty' = tty /\ ~ctxs[c].foreground
  BY <1>0, <1>1, <1>2 DEF IInv, CallCtxLive, Pgid
<1>7. NoDanglingCtx' /\ CountCovers' /\ TerminalReturned' /\ ForegroundKind'
  BY <1>1, <1>2, <1>5, <1>6, CtxChanges
<1>8. UnbornUnknown'
  <2>1. \A i \in DOMAIN y.pids : Born(y.pids[i])
    BY <1>2 DEF IInv, UnbornUnknown
  <2>2. \A q \in Pid : Born(q)' <=> Born(q)
    BY <1>1 DEF Born
  <2>3. \A q \in Pid : ~Born(q) => owner'[q] = owner[q] /\ orphan'[q] = orphan[q]
    BY <1>1, <1>3
  <2> QED
    BY <1>1, <1>2, <2>1, <2>2, <2>3, BornStays
<1>9. RefsExact'
  <2>1. Cardinality(BoundPids \cup Stages) = Cardinality(BoundPids) + Len(list)
    <3>1. Cardinality(BoundPids \cup Stages) =
            Cardinality(BoundPids) + Cardinality(Stages) - Cardinality(BoundPids \cap Stages)
      BY <1>3, FiniteSets, FS_Union
    <3>2. Cardinality(BoundPids \cap Stages) = 0
      BY <1>3, FS_EmptySet
    <3> QED
      BY <1>3, <3>1, <3>2, FiniteSets
  <2> QED
    BY <1>1, <1>4, <2>1 DEF IInv, RefsExact
<1>10. OneTable'
  BY <1>1, <1>3 DEF IInv, OneTable
<1> QED
  BY <1>1, <1>7, <1>8, <1>9, <1>10, NoCall DEF IInv

\* The drain of a failed spawn finds its pids in no table.
LEMMA DrainStageKeeps ==
    ASSUME IInv, TypeOK', DrainStage
    PROVE  IInv'
<1>1. PICK p \in Pid : p = list[pos] /\ owner[p] = Untracked
  <2>1. list[pos] \in Pid /\ pos \in DOMAIN list
    BY LenProperties DEF DrainStage, IInv, TypeOK
  <2> QED
    BY <2>1 DEF DrainStage, IInv, SpawnUnregistered
<1>2. owner' = owner /\ refs' = refs
  BY <1>1, CtxAssumption DEF DrainStage, ErasePending, IsCtxBound, IInv, TypeOK
<1>3. \A q \in Pid : Born(q) => Born(q)'
  BY <1>1 DEF DrainStage, Collect, Born, IInv, TypeOK
<1>4. UNCHANGED <<tty, lent, owner, orphan, refs, ctxs, held, list, cur, at>>
  BY <1>2 DEF DrainStage
<1>5. TerminalReturned'
  BY <1>4 DEF IInv, TerminalReturned
<1> QED
  BY <1>3, <1>4, <1>5, Frame

-----------------------------------------------------------------------------
(* onSigChld.                                                              *)

\* What the steps of onSigChld have in common.
LEMMA ReapFrame ==
    ASSUME IInv, NEW p \in Pid, Reap(p)
    PROVE  /\ at' = "reap" /\ list' = list /\ held' = held /\ lent' = lent
           /\ cur' = cur
           /\ \A q \in Pid : Born(q)' <=> Born(q)
           /\ StatusOf(p) \in WaitStatus /\ Born(p)
<1>1. StatusOf(p) \in WaitStatus
  BY CollectType DEF Reap, IInv
<1>2. \A q \in Pid : Born(q)' <=> Born(q)
  BY DEF Reap, Collect, Born, IInv, TypeOK
<1> QED
  BY <1>1, <1>2 DEF Reap, callVars, Reportable, Born

LEMMA ReapUntrackedKeeps ==
    ASSUME IInv, TypeOK', NEW p \in Pid, Reap(p), ReapUntracked(p)
    PROVE  IInv'
<1>1. /\ owner[p] = Untracked
      /\ orphan' = IF orphan[p] # NoEntry THEN [orphan EXCEPT ![p] = StatusOf(p)] ELSE orphan
      /\ UNCHANGED <<tty, owner, refs, ctxs>>
  BY DEF ReapUntracked
<1>2. /\ at' = "reap" /\ list' = list /\ held' = held /\ lent' = lent /\ cur' = cur
      /\ \A q \in Pid : Born(q)' <=> Born(q)
      /\ Born(p)
  BY ReapFrame
<1>3. NoDanglingCtx' /\ CountCovers' /\ RefsExact' /\ TerminalReturned' /\ ForegroundKind'
  BY <1>1, <1>2 DEF IInv, NoDanglingCtx, IsCtxBound, CountCovers, OwnedBy, RefsExact,
                   BoundPids, TerminalReturned, Pgid, ForegroundKind
<1>4. OneTable'
  BY <1>1 DEF IInv, OneTable, TypeOK
<1>5. UnbornUnknown'
  <2>1. \A q \in Pid : ~Born(q)' => owner'[q] = Untracked /\ orphan'[q] = NoEntry
    BY <1>1, <1>2 DEF IInv, TypeOK, UnbornUnknown
  <2>2. TypeOK
    BY DEF IInv
  <2> QED
    BY <1>1, <1>2, <2>1, <2>2, ListsOfPids DEF IInv, UnbornUnknown
<1> QED
  BY <1>2, <1>3, <1>4, <1>5, NoCall DEF IInv

LEMMA ReapBackgroundKeeps ==
    ASSUME IInv, TypeOK', NEW p \in Pid, Reap(p), ReapBackground(p)
    PROVE  IInv'
<1>1. /\ owner[p] = Background
      /\ owner' = [owner EXCEPT ![p] = Untracked]
      /\ UNCHANGED <<tty, orphan, refs, ctxs>>
  BY CtxAssumption DEF ReapBackground, ErasePending, IsCtxBound
<1>2. /\ at' = "reap" /\ list' = list /\ held' = held /\ lent' = lent /\ cur' = cur
      /\ \A q \in Pid : Born(q)' <=> Born(q)
  BY ReapFrame
<1>3. /\ BoundPids' = BoundPids
      /\ \A c \in Ctx : OwnedBy(c)' = OwnedBy(c)
  BY <1>1, CtxAssumption DEF BoundPids, OwnedBy, IsCtxBound, IInv, TypeOK
<1>4. NoDanglingCtx'
  BY <1>1, CtxAssumption DEF IInv, NoDanglingCtx, IsCtxBound, TypeOK
<1>5. CountCovers' /\ RefsExact' /\ TerminalReturned' /\ ForegroundKind'
  BY <1>1, <1>2, <1>3 DEF IInv, CountCovers, RefsExact, TerminalReturned, Pgid, ForegroundKind
<1>6. OneTable'
  BY <1>1 DEF IInv, OneTable, TypeOK
<1>7. UnbornUnknown'
  <2>1. \A q \in Pid : ~Born(q)' => owner'[q] = Untracked /\ orphan'[q] = NoEntry
    BY <1>1, <1>2 DEF IInv, TypeOK, UnbornUnknown
  <2>2. TypeOK
    BY DEF IInv
  <2> QED
    BY <1>1, <1>2, <2>1, <2>2, ListsOfPids DEF IInv, UnbornUnknown
<1> QED
  BY <1>2, <1>4, <1>5, <1>6, <1>7, NoCall DEF IInv

\* One of the pids of a context goes: the context counts one less, and one
\* reference is given back.
LEMMA EraseCounts ==
    ASSUME IInv, NEW p \in Pid, NEW c \in Ctx, owner[p] = c, ErasePending(p)
    PROVE  /\ Cardinality(OwnedBy(c)') = Cardinality(OwnedBy(c)) - 1
           /\ RefsExact'
<1>1. owner' = [owner EXCEPT ![p] = Untracked] /\ refs' = Released(1)
  BY DEF ErasePending, IsCtxBound
<1>2. /\ OwnedBy(c)' = OwnedBy(c) \ {p} /\ p \in OwnedBy(c)
      /\ BoundPids' = BoundPids \ {p} /\ p \in BoundPids
  BY <1>1, CtxAssumption DEF OwnedBy, BoundPids, IsCtxBound, IInv, TypeOK
<1>3. /\ Cardinality(OwnedBy(c)') = Cardinality(OwnedBy(c)) - 1
      /\ Cardinality(BoundPids') = Cardinality(BoundPids) - 1
  <2>1. IsFiniteSet(OwnedBy(c)) /\ IsFiniteSet(BoundPids)
    BY FiniteSets
  <2>2. Cardinality(OwnedBy(c) \ {p}) = Cardinality(OwnedBy(c)) - 1
    BY <1>2, <2>1, FS_RemoveElement
  <2>3. Cardinality(BoundPids \ {p}) = Cardinality(BoundPids) - 1
    BY <1>2, <2>1, FS_RemoveElement
  <2> QED
    BY <1>2, <2>2, <2>3
<1>4. Cardinality(BoundPids) >= 1
  BY <1>2, FiniteSets, FS_EmptySet
<1> QED
  BY <1>1, <1>3, <1>4, FiniteSets DEF IInv, RefsExact, Released

LEMMA ReapStageKeeps ==
    ASSUME IInv, TypeOK', NEW p \in Pid, Reap(p), ReapStage(p)
    PROVE  IInv'
<1>0. PICK c \in Ctx : c = owner[p]
  BY DEF ReapStage, IsCtxBound
<1> DEFINE x == ctxs[c]
           r == Record(x, slot[p], StatusOf(p))
           e == [r EXCEPT !.left = @ - 1]
<1>1. /\ at' = "reap" /\ list' = list /\ held' = held /\ lent' = lent /\ cur' = cur
      /\ \A q \in Pid : Born(q)' <=> Born(q)
      /\ StatusOf(p) \in WaitStatus /\ Born(p)
  BY ReapFrame
<1>2. /\ ErasePending(p) /\ orphan' = orphan
      /\ IF e.left = 0
         THEN ctxs' = [ctxs EXCEPT ![c] = MaybeFinalize(e)] /\ TakeTerminalBack(e)
         ELSE ctxs' = [ctxs EXCEPT ![c] = e] /\ tty' = tty
  BY <1>0 DEF ReapStage
<1>3. /\ x \in CtxRecord /\ x.state = "live" /\ x.left \in Int
      /\ x.left >= Cardinality(OwnedBy(c))
      /\ x.foreground => Interactive /\ x.capture = "none"
  BY <1>0 DEF IInv, TypeOK, CtxRecord, NoDanglingCtx, IsCtxBound, CountCovers, ForegroundKind
<1>4. Cardinality(OwnedBy(c)') = Cardinality(OwnedBy(c)) - 1 /\ RefsExact'
  BY <1>0, <1>2, EraseCounts
<1>5. \A q \in Pid : owner'[q] \in Ctx => owner'[q] = c \/ owner'[q] = owner[q]
  BY <1>2, CtxAssumption DEF ErasePending, IInv, TypeOK
<1> HIDE DEF x
<1>6. /\ r \in CtxRecord /\ r.state = x.state /\ r.pids = x.pids /\ r.left = x.left
      /\ r.want = x.want /\ r.foreground = x.foreground /\ r.capture = x.capture
  BY <1>1, <1>3, RecordType
<1> HIDE DEF r
<1>7. /\ e \in CtxRecord /\ e.state = x.state /\ e.pids = x.pids /\ e.left = x.left - 1
      /\ e.want = x.want /\ e.foreground = x.foreground /\ e.capture = x.capture
  BY <1>6 DEF CtxRecord
<1> HIDE DEF e
<1>8. PICK y \in CtxRecord :
         /\ ctxs' = [ctxs EXCEPT ![c] = y]
         /\ y.left = x.left - 1 /\ y.pids = x.pids /\ y.want = x.want
         /\ y.foreground = x.foreground /\ y.capture = x.capture
         /\ y.left # 0 => y.state = "live" /\ tty' = tty
         /\ y.left = 0 => TakeTerminalBack(e)
  <2>1. CASE e.left = 0
    <3> DEFINE y == MaybeFinalize(e)
    <3>1. /\ y \in CtxRecord /\ y.left = e.left /\ y.pids = e.pids /\ y.want = e.want
          /\ y.foreground = e.foreground /\ y.capture = e.capture
      BY <1>7, FinalizeType
    <3> HIDE DEF y
    <3> QED
      BY <1>2, <1>7, <2>1, <3>1 DEF y
  <2>2. CASE e.left # 0
    BY <1>2, <1>3, <1>7, <2>2
  <2> QED
    BY <2>1, <2>2
<1>9. y.left >= Cardinality(OwnedBy(c)')
  BY <1>3, <1>4, <1>8, FiniteSets
<1>10. OwnedBy(c)' # {} => y.state = "live"
  BY <1>3, <1>8, <1>9, NextFiniteSets, FS_EmptySet
<1>11. \/ tty' = Shell
       \/ /\ tty' = tty
          /\ x.foreground => y.state = "live" /\ y.foreground /\ y.want = x.want
  BY <1>3, <1>7, <1>8 DEF TakeTerminalBack
<1>12. NoDanglingCtx' /\ CountCovers' /\ TerminalReturned' /\ ForegroundKind'
  BY <1>1, <1>3, <1>5, <1>8, <1>9, <1>10, <1>11, CtxChanges DEF x
<1>13. UnbornUnknown'
  <2>1. \A i \in DOMAIN y.pids : Born(y.pids[i])
    BY <1>8 DEF IInv, UnbornUnknown, x
  <2>2. \A q \in Pid : ~Born(q) => owner'[q] = owner[q] /\ orphan'[q] = orphan[q]
    BY <1>1, <1>2 DEF ErasePending, IInv, TypeOK
  <2> QED
    BY <1>1, <1>8, <2>1, <2>2, BornStays
<1>14. OneTable'
  BY <1>2 DEF ErasePending, IInv, OneTable, TypeOK
<1> QED
  BY <1>1, <1>4, <1>12, <1>13, <1>14, NoCall DEF IInv

\* handleStopped takes all the pids of a context away, and one reference for
\* each.
LEMMA StopCounts ==
    ASSUME IInv, NEW p \in Pid, NEW c \in Ctx, owner[p] = c,
           owner' = [q \in Pid |-> IF owner[q] = c THEN Untracked ELSE owner[q]],
           refs' = Released(1 + Cardinality(OwnedBy(c) \ {p}))
    PROVE  OwnedBy(c)' = {} /\ RefsExact'
<1>1. /\ OwnedBy(c)' = {} /\ p \in OwnedBy(c)
      /\ BoundPids = BoundPids' \cup OwnedBy(c) /\ BoundPids' \cap OwnedBy(c) = {}
  BY CtxAssumption DEF OwnedBy, BoundPids, IsCtxBound, IInv, TypeOK
<1>2. /\ IsFiniteSet(OwnedBy(c)) /\ Cardinality(OwnedBy(c)) \in Nat
      /\ IsFiniteSet(BoundPids') /\ Cardinality(BoundPids') \in Nat
  BY FiniteSets, NextFiniteSets
<1>3. Cardinality(BoundPids) = Cardinality(BoundPids') + Cardinality(OwnedBy(c))
  <2>1. Cardinality(BoundPids' \cup OwnedBy(c)) =
          Cardinality(BoundPids') + Cardinality(OwnedBy(c))
            - Cardinality(BoundPids' \cap OwnedBy(c))
    BY <1>2, FS_Union
  <2>2. Cardinality(BoundPids' \cap OwnedBy(c)) = 0
    BY <1>1, FS_EmptySet
  <2> QED
    BY <1>1, <1>2, <2>1, <2>2
<1>4. Cardinality(OwnedBy(c) \ {p}) = Cardinality(OwnedBy(c)) - 1
  BY <1>1, <1>2, FS_RemoveElement
<1> QED
  BY <1>1, <1>2, <1>3, <1>4 DEF IInv, RefsExact, Released

LEMMA ReapStoppedKeeps ==
    ASSUME IInv, TypeOK', NEW p \in Pid, Reap(p), ReapStopped(p)
    PROVE  IInv'
<1>0. PICK c \in Ctx : c = owner[p]
  BY DEF ReapStopped, IsCtxBound
<1>s. PICK siblings \in SUBSET Pid : siblings = OwnedBy(c) \ {p}
  BY DEF OwnedBy
<1> DEFINE x == ctxs[c]
<1>1. /\ at' = "reap" /\ list' = list /\ held' = held /\ lent' = lent /\ cur' = cur
      /\ \A q \in Pid : Born(q)' <=> Born(q)
  BY ReapFrame
<1>2. /\ owner' = [q \in Pid |-> IF owner[q] = c THEN Untracked ELSE owner[q]]
      /\ refs' = Released(1 + Cardinality(siblings))
      /\ orphan' = [q \in Pid |-> IF q \in siblings THEN Unreaped ELSE orphan[q]]
      /\ TakeTerminalBack(x)
  BY <1>0, <1>s DEF ReapStopped
<1>o. PICK order \in Orders(siblings) :
         ctxs' = [ctxs EXCEPT ![c] = MaybeFinalize(
             [x EXCEPT !.stopped = TRUE, !.exit = Stopped, !.left = 0,
                       !.pids = x.pids \o order])]
  BY <1>0, <1>s DEF ReapStopped
<1>3. /\ x \in CtxRecord /\ x.state = "live" /\ x.pids \in Seq(Pid)
      /\ x.foreground => Interactive /\ x.capture = "none"
  BY <1>0 DEF IInv, TypeOK, CtxRecord, NoDanglingCtx, IsCtxBound, ForegroundKind
<1>4. OwnedBy(c)' = {} /\ RefsExact'
  BY <1>0, <1>s, <1>2, StopCounts
<1>5. \A q \in siblings : Born(q) /\ owner[q] = c
  BY <1>s, CtxAssumption DEF OwnedBy, IInv, UnbornUnknown
<1>6. order \in Seq(Pid) /\ \A i \in DOMAIN order : order[i] \in siblings
  BY OrdersType
<1> DEFINE more == x.pids \o order
           e == [x EXCEPT !.stopped = TRUE, !.exit = Stopped, !.left = 0, !.pids = more]
           y == MaybeFinalize(e)
<1>7. more \in Seq(Pid) /\ \A i \in DOMAIN more : Born(more[i])
  <2>1. \A i \in DOMAIN x.pids : Born(x.pids[i])
    BY DEF IInv, UnbornUnknown
  <2>2. \A i \in DOMAIN order : Born(order[i])
    BY <1>5, <1>6
  <2> HIDE DEF x
  <2>3. /\ more \in Seq(Pid) /\ Len(more) = Len(x.pids) + Len(order)
        /\ \A i \in 1..Len(more) :
              more[i] = IF i <= Len(x.pids) THEN x.pids[i] ELSE order[i - Len(x.pids)]
    BY <1>3, <1>6, ConcatProperties
  <2>4. /\ DOMAIN more = 1..Len(more) /\ Len(more) \in Nat
        /\ DOMAIN x.pids = 1..Len(x.pids) /\ Len(x.pids) \in Nat
        /\ DOMAIN order = 1..Len(order) /\ Len(order) \in Nat
    BY <1>3, <1>6, <2>3, LenProperties
  <2> HIDE DEF more
  <2>5. ASSUME NEW i \in DOMAIN more PROVE Born(more[i])
    <3>1. CASE i <= Len(x.pids)
      <4>1. i \in DOMAIN x.pids /\ more[i] = x.pids[i]
        BY <2>3, <2>4, <2>5, <3>1
      <4> QED
        BY <2>1, <4>1
    <3>2. CASE ~(i <= Len(x.pids))
      <4>1. i - Len(x.pids) \in DOMAIN order /\ more[i] = order[i - Len(x.pids)]
        BY <2>3, <2>4, <2>5, <3>2
      <4> QED
        BY <2>2, <4>1
    <3> QED
      BY <3>1, <3>2
  <2> QED
    BY <2>3, <2>5
<1>8. ctxs' = [ctxs EXCEPT ![c] = y]
  BY <1>o
<1> HIDE DEF x, more
<1>9. /\ e \in CtxRecord /\ e.pids = more /\ e.left = 0
      /\ e.foreground = x.foreground /\ e.capture = x.capture
  <2>1. TRUE \in BOOLEAN /\ Stopped \in WaitStatus /\ 0 \in Int
    BY DEF WaitStatus
  <2>2. e = [x EXCEPT !.stopped = TRUE, !.exit = Stopped, !.left = 0, !.pids = more]
    OBVIOUS
  <2> HIDE DEF e
  <2>3. e \in CtxRecord
    BY <1>3, <1>7, <2>1, <2>2, StopType
  <2>4. e.pids = more /\ e.left = 0
    BY <1>3, <2>2 DEF CtxRecord
  <2>5. e.foreground = x.foreground /\ e.capture = x.capture
    BY <1>3, <2>2 DEF CtxRecord
  <2> QED
    BY <2>3, <2>4, <2>5
<1> HIDE DEF e
<1>10. /\ y \in CtxRecord /\ y.pids = more /\ y.left = 0
       /\ y.foreground = x.foreground /\ y.capture = x.capture
  BY <1>9, FinalizeType
<1> HIDE DEF y
<1>11. y.left >= Cardinality(OwnedBy(c)')
  BY <1>4, <1>10, FS_EmptySet
<1>12. tty' = Shell \/ (tty' = tty /\ ~x.foreground)
  BY <1>2, <1>3 DEF TakeTerminalBack
<1>13. \A q \in Pid : owner'[q] \in Ctx => owner'[q] = c \/ owner'[q] = owner[q]
  BY <1>2, CtxAssumption
<1>14. NoDanglingCtx' /\ CountCovers' /\ TerminalReturned' /\ ForegroundKind'
  BY <1>1, <1>3, <1>4, <1>8, <1>10, <1>11, <1>12, <1>13, CtxChanges DEF x
<1>15. UnbornUnknown'
  <2>1. \A i \in DOMAIN y.pids : Born(y.pids[i])
    BY <1>7, <1>10
  <2>2. \A q \in Pid : ~Born(q) => owner'[q] = owner[q] /\ orphan'[q] = orphan[q]
    BY <1>2, <1>5, CtxAssumption DEF IInv, UnbornUnknown
  <2> QED
    BY <1>1, <1>8, <1>10, <2>1, <2>2, BornStays
<1>16. OneTable'
  BY <1>2, <1>5 DEF IInv, OneTable
<1> QED
  BY <1>1, <1>4, <1>14, <1>15, <1>16, NoCall DEF IInv

LEMMA ReapKeeps ==
    ASSUME IInv, TypeOK', NEW p \in Pid, Reap(p)
    PROVE  IInv'
BY ReapUntrackedKeeps, ReapBackgroundKeeps, ReapStoppedKeeps, ReapStageKeeps DEF Reap

-----------------------------------------------------------------------------
\* No step makes a process unborn.
LEMMA KernelKeeps == ASSUME IInv, TypeOK', Kernel PROVE IInv'
<1>1. UNCHANGED <<tty, lent, owner, orphan, refs, ctxs, held, list, cur, at>>
  BY DEF Kernel, ExitProcess, StopProcess, ContinueProcess, tableVars, callVars
<1>2. \A q \in Pid : Born(q) => Born(q)'
  BY DEF Kernel, ExitProcess, StopProcess, ContinueProcess, Born, IInv, TypeOK
<1>3. TerminalReturned'
  BY <1>1 DEF IInv, TerminalReturned
<1> QED
  BY <1>1, <1>2, <1>3, Frame

\* The calls that move the terminal, or only wake processes up.
LEMMA JobSignalsKeep ==
    ASSUME IInv, TypeOK',
           \/ \E pids \in JobPids : TcsetpgrpFg(pids) \/ SendCont(pids)
           \/ TcsetpgrpShell
    PROVE  IInv'
<1>1. UNCHANGED <<owner, orphan, refs, ctxs, held, list, cur, at>>
  BY DEF TcsetpgrpFg, SendCont, TcsetpgrpShell, tableVars, callVars, kernelVars
<1>2. \A q \in Pid : Born(q) => Born(q)'
  BY DEF TcsetpgrpFg, SendCont, TcsetpgrpShell, kernelVars, Born, IInv, TypeOK
<1>3. tty' = lent' \/ (tty' = tty /\ lent' = lent)
  BY DEF TcsetpgrpFg, SendCont, TcsetpgrpShell
<1>4. TerminalReturned'
  BY <1>1, <1>3 DEF IInv, TerminalReturned
<1> QED
  BY <1>1, <1>2, <1>4, Frame

\* The steps that only move the main thread, or empty g_bg_completions.
LEMMA QuietStepsKeep ==
    ASSUME IInv, TypeOK',
           UNCHANGED vars \/ ReapChildren \/ SpawnFail \/ SigChldBegin \/ SigChldEnd
    PROVE  IInv'
<1>1. UNCHANGED <<proc, tty, lent, owner, orphan, refs, ctxs, held, list, cur>>
  BY DEF vars, ReapChildren, SpawnFail, SigChldBegin, SigChldEnd,
         tableVars, callVars, kernelVars
<1>2. at' = at \/ (at = "spawn" /\ at' = "drain") \/ at' \in {"idle", "reap"}
  BY DEF vars, ReapChildren, SpawnFail, SigChldBegin, SigChldEnd, callVars
<1>3. \A q \in Pid : Born(q) => Born(q)'
  BY <1>1 DEF Born
<1>4. TerminalReturned'
  BY <1>1 DEF IInv, TerminalReturned
<1> QED
  BY <1>1, <1>2, <1>3, <1>4, Frame

\* In the beginning there is nothing to keep consistent.
LEMMA InitIInv == ASSUME Init, TypeOK PROVE IInv
<1>1. /\ \A p \in Pid : owner[p] = Untracked /\ orphan[p] = NoEntry
      /\ refs = 0 /\ tty = Shell /\ at = "idle" /\ held = <<>> /\ list = <<>>
      /\ \A c \in Ctx : ctxs[c] = FreeCtx
  BY DEF Init
<1>2. BoundPids = {} /\ \A c \in Ctx : OwnedBy(c) = {}
  BY <1>1, CtxAssumption DEF BoundPids, IsCtxBound, OwnedBy
<1>3. FreeCtx.left = 0 /\ FreeCtx.foreground = FALSE /\ FreeCtx.pids = <<>>
  <2> DEFINE x == NewCtx("foreground", <<>>)
  <2>1. x \in CtxRecord /\ x.left = 0 /\ x.foreground = FALSE /\ x.pids = <<>>
    <3>1. "foreground" \in Mode /\ <<>> \in Seq(Pid)
      BY EmptySeq DEF Mode
    <3> QED
      BY <3>1, NewCtxType
  <2> HIDE DEF x
  <2>2. /\ [x EXCEPT !.state = "free"].left = 0
        /\ [x EXCEPT !.state = "free"].foreground = FALSE
        /\ [x EXCEPT !.state = "free"].pids = <<>>
    BY <2>1 DEF CtxRecord
  <2> QED
    BY <2>2 DEF FreeCtx, x
<1>4. NoDanglingCtx /\ OneTable /\ TerminalReturned /\ CallCtxLive /\ SpawnUnregistered
  BY <1>1, CtxAssumption
     DEF NoDanglingCtx, IsCtxBound, OneTable, TerminalReturned, CallCtxLive, SpawnUnregistered
<1>5. CountCovers /\ RefsExact
  <2>1. Cardinality(BoundPids) = 0 /\ \A c \in Ctx : Cardinality(OwnedBy(c)) = 0
    BY <1>2, FS_EmptySet
  <2>2. \A c \in Ctx : ctxs[c].left = 0
    BY <1>1, <1>3
  <2> QED
    BY <1>1, <2>1, <2>2 DEF CountCovers, RefsExact
<1>6. UnbornUnknown /\ ForegroundKind
  BY <1>1, <1>3 DEF UnbornUnknown, ForegroundKind
<1> QED
  BY <1>4, <1>5, <1>6 DEF IInv

\* No step takes the program out of the inductive invariant.
LEMMA IInvStep == IInv /\ TypeOK' /\ [Next]_vars => IInv'
<1> SUFFICES ASSUME IInv, TypeOK', [Next]_vars PROVE IInv'
  OBVIOUS
<1>1. CASE UNCHANGED vars
  BY <1>1, QuietStepsKeep
<1>2. CASE Kernel
  BY <1>2, KernelKeeps
<1>3. CASE JsCall
  BY <1>3, SpawnBeginKeeps, WaitMixedKeeps, WaitResumeKeeps, ForkExecKeeps,
     JobSignalsKeep, QuietStepsKeep DEF JsCall
<1>4. CASE CallStep
  BY <1>4, SpawnStageKeeps, SpawnEndKeeps, SpawnEndBackgroundKeeps, QuietStepsKeep,
     DrainStageKeeps, DrainEndKeeps, WaitStageKeeps, WaitEndKeeps DEF CallStep
<1>5. CASE Callback
  BY <1>5, QuietStepsKeep, ReapKeeps, CaptureEofKeeps DEF Callback
<1> QED
  BY <1>1, <1>2, <1>3, <1>4, <1>5 DEF Next

\* The inductive invariant holds in every reachable state.
THEOREM InductiveInvariant == Spec => []IInv
<1>1. Init /\ TypeOK => IInv
  BY InitIInv
<1> QED
  BY <1>1, IInvStep, TypeCorrect, PTL DEF Spec

\* g_pending never points to a SpawnCtx that has been deleted.
THEOREM NoUseAfterFree == Spec => []NoDanglingCtx
<1>1. IInv => NoDanglingCtx
  BY DEF IInv
<1> QED
  BY <1>1, InductiveInvariant, PTL

\* The SIGCHLD watcher has one reference for every pid a promise waits for.
THEOREM ReferencesExact == Spec => []RefsExact
<1>1. IInv => RefsExact
  BY DEF IInv
<1> QED
  BY <1>1, InductiveInvariant, PTL

\* The count of a SpawnCtx never runs below the pids it still waits for.
THEOREM CountSufficient == Spec => []CountCovers
<1>1. IInv => CountCovers
  BY DEF IInv
<1> QED
  BY <1>1, InductiveInvariant, PTL

\* No pid is in g_pending and in g_orphans at once.
THEOREM TablesDisjoint == Spec => []OneTable
<1>1. IInv => OneTable
  BY DEF IInv
<1> QED
  BY <1>1, InductiveInvariant, PTL

\* A terminal that is not the shell's belongs to a pipeline still waited for,
\* or was given away by the fg builtin.
THEOREM TerminalComesBack == Spec => []TerminalReturned
<1>1. IInv => TerminalReturned
  BY DEF IInv
<1> QED
  BY <1>1, InductiveInvariant, PTL

-----------------------------------------------------------------------------
(* The wait statuses.                                                      *)

PidsIn(s) == {s[i] : i \in DOMAIN s}

\* The context of a spawnPipeline or captureOutput.
Spawning(c) == ctxs[c].mode \in {"foreground", "background", "capture"}

InCall(c) == at \in {"spawn", "drain", "wait"} /\ cur = c

-----------------------------------------------------------------------------
(* Whose pids are on which list.                                           *)

\* The context of a call is of the kind the call makes, and waits for the
\* pids of the call.
CallKnown ==
    /\ at \in {"spawn", "drain"} => Spawning(cur) /\ ctxs[cur].want = <<>>
    /\ at = "wait" => /\ ctxs[cur].mode \in {"mixed", "resume"}
                      /\ ctxs[cur].want = list
                      /\ pos <= Len(list) + 1

\* g_pending knows the slot of each pid a context waits for.
SlotOfPid ==
    \A p \in Pid : IsCtxBound(p) =>
        /\ slot[p] \in DOMAIN ctxs[owner[p]].want
        /\ ctxs[owner[p]].want[slot[p]] = p
        /\ InCall(owner[p]) => slot[p] < pos

WantsBorn == \A c \in Ctx : \A p \in PidsIn(ctxs[c].want) : Born(p)

\* A spawned context owns no pid but those of its result.
OwnedListed ==
    \A p \in Pid : IsCtxBound(p) /\ Spawning(owner[p])
                     => p \in PidsIn(ctxs[owner[p]].pids)

\* The stages of a pipeline being started are on no other list.
FreshList ==
    at \in {"spawn", "drain"} =>
        \A p \in Stages :
            /\ p \notin PidsIn(held)
            /\ \A c \in Ctx : /\ p \notin PidsIn(ctxs[c].want)
                              /\ Spawning(c) => p \notin PidsIn(ctxs[c].pids)

\* Two pipelines have no process in common.
PidsApart ==
    \A c, d \in Ctx : Spawning(c) /\ Spawning(d) /\ c # d
        => \A p \in PidsIn(ctxs[c].pids) : p \notin PidsIn(ctxs[d].pids)

\* Nor has a pipeline one in common with what forkExec started.
ForkedApart ==
    \A c \in Ctx : Spawning(c) =>
        \A p \in PidsIn(ctxs[c].pids) :
            /\ p \notin PidsIn(held)
            /\ \A d \in Ctx : ctxs[d].mode = "mixed" => p \notin PidsIn(ctxs[d].want)

\* fg and wait resume the pids of a pipeline whose promise is resolved.
ResumesJob ==
    at = "wait" /\ ctxs[cur].mode = "resume" =>
        \E d \in Ctx : Spawning(d) /\ ctxs[d].state = "resolved" /\ list = ctxs[d].pids

ListsInv == /\ CallKnown /\ SlotOfPid /\ WantsBorn /\ OwnedListed
            /\ FreshList /\ PidsApart /\ ForkedApart /\ ResumesJob

-----------------------------------------------------------------------------
(* What is parked for the pids of forkExec.                                *)

\* waitForPids will find what became of p in g_orphans.
Kept(p) ==
    /\ owner[p] = Untracked /\ orphan[p] # NoEntry
    /\ proc[p] = "reaped" => orphan[p] = code[p]
    /\ proc[p] = "stopped" /\ p \notin news => orphan[p] = Stopped

OneEach(s) == \A i, j \in DOMAIN s : s[i] = s[j] => i = j

HeldKept == OneEach(held) /\ \A p \in PidsIn(held) : Kept(p)

MixedKept ==
    at = "wait" /\ ctxs[cur].mode = "mixed" =>
        /\ held = <<>>
        /\ OneEach(list)
        /\ \A i \in DOMAIN list : i >= pos => Kept(list[i])

KeptInv == HeldKept /\ MixedKept

-----------------------------------------------------------------------------
(* Which slots are filled.                                                 *)

\* An exit code in g_orphans is the one the process exited with.
ParkedFaithful ==
    \A p \in Pid : orphan[p] \in ExitCode => proc[p] = "reaped" /\ orphan[p] = code[p]

Filled(c, i) ==
    LET x == ctxs[c]
    IN /\ proc[x.want[i]] = "reaped" /\ x.status[i] = code[x.want[i]]
       /\ i = Len(x.want) => x.exit = code[x.want[i]]

\* The slots waitForPids has come to.
Seen(c) == IF InCall(c) THEN {i \in DOMAIN ctxs[c].want : i < pos}
                        ELSE DOMAIN ctxs[c].want

OpenSlots(c) == {i \in Seen(c) : ~Filled(c, i)}

\* No slot is open without being counted.
OpenCounted ==
    \A c \in Ctx : ctxs[c].state = "live" /\ ~ctxs[c].stopped
                     => ctxs[c].left >= Cardinality(OpenSlots(c))

\* Every pid a context waits for has a slot.
SlotEach == \A c \in Ctx : DOMAIN ctxs[c].status = DOMAIN ctxs[c].want

SlotsInv == ParkedFaithful /\ SlotEach /\ OpenCounted /\ StatusFaithful

-----------------------------------------------------------------------------
(* How many pids a context waits for.                                      *)

\* Outside a call a live context counts a pid, or drains its capture pipe.
LiveCounted ==
    \A c \in Ctx : ctxs[c].state = "live" /\ ~InCall(c) /\ ctxs[c].capture # "open"
        => ctxs[c].left > 0

\* What a pipeline counts is what it owns: nobody takes a pid from it.
CountExact ==
    \A c \in Ctx : ctxs[c].state = "live" /\ ctxs[c].mode # "resume"
        => ctxs[c].left = Cardinality(OwnedBy(c))

\* A pid that a pipeline owns can still be reaped.
OwnedAlive ==
    /\ \A p \in Pid : IsCtxBound(p) /\ ctxs[owner[p]].mode # "resume" => proc[p] # "reaped"
    /\ at = "spawn" => \A p \in Stages : proc[p] # "reaped"

CountInv == LiveCounted /\ CountExact /\ OwnedAlive

StatusInv == IInv /\ ListsInv /\ KeptInv /\ SlotsInv /\ CountInv

-----------------------------------------------------------------------------
(* What the actions do to the context they write.                          *)

\* y waits for the same pids as x, in the same way.
Kin(x, y) == /\ y.mode = x.mode /\ y.want = x.want /\ y.capture = x.capture
             /\ DOMAIN y.status = DOMAIN x.status

\* y differs from x in its state and what is recorded.
SameRecord(x, y) == y.stopped = x.stopped /\ y.status = x.status /\ y.exit = x.exit

LEMMA FinalizeEffect ==
    ASSUME NEW x \in CtxRecord
    PROVE  /\ MaybeFinalize(x) \in CtxRecord
           /\ Kin(x, MaybeFinalize(x)) /\ SameRecord(x, MaybeFinalize(x))
           /\ MaybeFinalize(x).pids = x.pids
           /\ MaybeFinalize(x).left = x.left
           /\ MaybeFinalize(x).state =
                IF x.left > 0 \/ x.capture = "open" THEN x.state ELSE "resolved"
BY DEF Kin, SameRecord, MaybeFinalize, Resolve, CtxRecord, CtxState

LEMMA RecordEffect ==
    ASSUME NEW x \in CtxRecord, NEW i, NEW s \in WaitStatus
    PROVE  /\ Record(x, i, s) \in CtxRecord /\ Kin(x, Record(x, i, s))
           /\ Record(x, i, s).pids = x.pids
           /\ Record(x, i, s).left = x.left
           /\ Record(x, i, s).stopped = x.stopped
           /\ Record(x, i, s).state = x.state
<1>1. Record(x, i, s) \in CtxRecord
  BY RecordType
<1> QED
  BY <1>1 DEF Kin, Record, CtxRecord

\* A pid more, or one less, to wait for.
LEMMA LeftEffect ==
    ASSUME NEW x \in CtxRecord, NEW n \in Int
    PROVE  /\ [x EXCEPT !.left = n] \in CtxRecord
           /\ Kin(x, [x EXCEPT !.left = n]) /\ SameRecord(x, [x EXCEPT !.left = n])
           /\ [x EXCEPT !.left = n].left = n
           /\ [x EXCEPT !.left = n].pids = x.pids
           /\ [x EXCEPT !.left = n].state = x.state
BY DEF Kin, SameRecord, CtxRecord

\* The context of a call is the only one a step of the call writes.
LEMMA CallCtx ==
    ASSUME TypeOK, at \in {"spawn", "drain", "wait"}
    PROVE  cur \in Ctx /\ ctxs[cur] \in CtxRecord /\ list \in Seq(Pid) /\ pos \in Nat \ {0}
BY DEF TypeOK

\* One turn of the loop of waitForPids fills the slot, or counts it.
Turn(c, p, x, y) ==
    /\ c = cur /\ p = list[pos] /\ x = ctxs[c] /\ pos \in DOMAIN list
    /\ x.state = "live" /\ x.capture = "none"
    /\ ctxs' = [ctxs EXCEPT ![c] = y]
    /\ Kin(x, y) /\ y.pids = x.pids /\ y.state = "live"

TurnStop(p, x, y) ==
    /\ orphan[p] = Stopped /\ y.stopped /\ y.left = x.left
    /\ orphan' = [orphan EXCEPT ![p] = Unreaped]
    /\ UNCHANGED <<owner, slot>>

TurnExit(p, x, y) ==
    /\ orphan[p] \in ExitCode
    /\ y.stopped = x.stopped /\ y.left = x.left
    /\ y.status = [x.status EXCEPT ![pos] = orphan[p]]
    /\ y.exit = IF pos = Len(x.want) THEN orphan[p] ELSE x.exit
    /\ orphan' = [orphan EXCEPT ![p] = NoEntry]
    /\ UNCHANGED <<owner, slot>>

TurnRegister(c, p, x, y) ==
    /\ orphan[p] \in {Unreaped, NoEntry}
    /\ SameRecord(x, y) /\ y.left = x.left + 1
    /\ orphan' = [orphan EXCEPT ![p] = NoEntry]
    /\ owner' = [owner EXCEPT ![p] = c]
    /\ slot' = [slot EXCEPT ![p] = pos]

LEMMA WaitStageEffect ==
    ASSUME IInv, WaitStage
    PROVE  /\ at = "wait" /\ pos' = pos + 1
           /\ UNCHANGED <<proc, code, news, held, at, cur, list>>
           /\ \E c \in Ctx, p \in Pid, x \in CtxRecord, y \in CtxRecord :
                /\ Turn(c, p, x, y)
                /\ TurnStop(p, x, y) \/ TurnExit(p, x, y) \/ TurnRegister(c, p, x, y)
<1> DEFINE c == cur
           p == list[pos]
           x == ctxs[c]
<1>1. /\ c \in Ctx /\ p \in Pid /\ x \in CtxRecord /\ pos \in DOMAIN list
      /\ x.state = "live" /\ x.capture = "none" /\ pos \in Nat \ {0}
  <2>1. c \in Ctx /\ x \in CtxRecord /\ x.state = "live" /\ x.capture = "none"
    BY CallCtx DEF WaitStage, IInv, CallCtxLive
  <2>2. pos \in DOMAIN list /\ pos \in Nat \ {0}
    BY CallCtx, LenProperties DEF WaitStage, IInv
  <2> QED
    BY <2>1, <2>2, ListsOfPids DEF IInv
<1>2. at = "wait" /\ pos' = pos + 1 /\ UNCHANGED <<proc, code, news, held, at, cur, list>>
  BY DEF WaitStage, kernelVars
<1>3. CASE TakeParkedStop(p)
  <2> DEFINE r == Record(x, pos, Stopped)
             y == [r EXCEPT !.stopped = TRUE]
  <2>0. Stopped \in WaitStatus
    BY DEF WaitStatus
  <2>2. ctxs' = [ctxs EXCEPT ![c] = y]
    BY <1>3 DEF TakeParkedStop
  <2> HIDE DEF x
  <2>1. /\ r \in CtxRecord /\ Kin(x, r) /\ r.pids = x.pids /\ r.left = x.left
        /\ r.state = x.state
    BY <1>1, <2>0, RecordEffect
  <2> HIDE DEF r
  <2>3. /\ y \in CtxRecord /\ Kin(x, y) /\ y.pids = x.pids /\ y.left = x.left
        /\ y.state = x.state /\ y.stopped
    BY <2>1 DEF Kin, CtxRecord
  <2> HIDE DEF y
  <2>4. Turn(c, p, x, y)
    BY <1>1, <2>2, <2>3 DEF Turn, x
  <2>5. TurnStop(p, x, y)
    BY <1>3, <2>3 DEF TakeParkedStop, TurnStop
  <2> QED
    BY <1>1, <1>2, <2>3, <2>4, <2>5
<1>4. CASE TakeParkedExit(p)
  <2> DEFINE y == Record(x, pos, orphan[p])
  <2>0. orphan[p] \in WaitStatus
    BY <1>4 DEF WaitStatus, TakeParkedExit
  <2>2. ctxs' = [ctxs EXCEPT ![c] = y]
    BY <1>4 DEF TakeParkedExit
  <2> HIDE DEF x
  <2>1. /\ y \in CtxRecord /\ Kin(x, y) /\ y.pids = x.pids /\ y.left = x.left
        /\ y.state = x.state /\ y.stopped = x.stopped
    BY <1>1, <2>0, RecordEffect
  <2>3. /\ y.status = [x.status EXCEPT ![pos] = orphan[p]]
        /\ y.exit = IF pos = Len(x.want) THEN orphan[p] ELSE x.exit
    BY <1>1 DEF Record, CtxRecord
  <2> HIDE DEF y
  <2>4. Turn(c, p, x, y)
    BY <1>1, <2>1, <2>2 DEF Turn, x
  <2>5. TurnExit(p, x, y)
    BY <1>4, <2>1, <2>3 DEF TakeParkedExit, TurnExit
  <2> QED
    BY <1>1, <1>2, <2>1, <2>4, <2>5
<1>5. CASE RegisterPid(p)
  <2> DEFINE y == [x EXCEPT !.left = x.left + 1]
  <2>2. ctxs' = [ctxs EXCEPT ![c] = y]
    BY <1>1, <1>5 DEF RegisterPid, IInv, TypeOK
  <2> HIDE DEF x
  <2>0. x.left + 1 \in Int
    BY <1>1 DEF CtxRecord
  <2>1. /\ y \in CtxRecord /\ Kin(x, y) /\ y.pids = x.pids /\ y.left = x.left + 1
        /\ y.state = x.state /\ SameRecord(x, y)
    BY <1>1, <2>0, LeftEffect
  <2> HIDE DEF y
  <2>4. Turn(c, p, x, y)
    BY <1>1, <2>1, <2>2 DEF Turn, x
  <2>5. TurnRegister(c, p, x, y)
    BY <1>5, <2>1 DEF RegisterPid, TurnRegister
  <2> QED
    BY <1>1, <1>2, <2>1, <2>4, <2>5
<1> QED
  BY <1>3, <1>4, <1>5 DEF WaitStage

\* waitForPids, or the capture pipe, has come to its end.
Ended(c, x, y) ==
    /\ x = ctxs[c] /\ x.state = "live"
    /\ ctxs' = [ctxs EXCEPT ![c] = y]
    /\ y.mode = x.mode /\ y.want = x.want /\ SameRecord(x, y)
    /\ y.pids = x.pids /\ y.left = x.left /\ y.capture # "open"
    /\ y.state = IF x.left > 0 THEN "live" ELSE "resolved"

LEMMA WaitEndEffect ==
    ASSUME IInv, WaitEnd
    PROVE  /\ at = "wait" /\ pos > Len(list) /\ at' = "idle"
           /\ UNCHANGED <<proc, code, news, held, owner, slot, orphan>>
           /\ \E c \in Ctx, x \in CtxRecord, y \in CtxRecord : Ended(c, x, y) /\ c = cur
<1> DEFINE c == cur
           x == ctxs[c]
           y == MaybeFinalize(x)
<1>1. /\ at = "wait" /\ pos > Len(list) /\ at' = "idle" /\ ctxs' = [ctxs EXCEPT ![c] = y]
      /\ UNCHANGED <<proc, code, news, held, owner, slot, orphan>>
  BY DEF WaitEnd, Return, kernelVars, tableVars
<1>2. c \in Ctx /\ x \in CtxRecord /\ x.state = "live" /\ x.capture = "none"
  BY <1>1, CallCtx DEF IInv, CallCtxLive
<1> HIDE DEF x
<1>3. /\ y \in CtxRecord /\ Kin(x, y) /\ SameRecord(x, y)
      /\ y.pids = x.pids /\ y.left = x.left
      /\ y.state = IF x.left > 0 THEN "live" ELSE "resolved"
  BY <1>2, FinalizeEffect
<1> HIDE DEF y
<1>4. Ended(c, x, y)
  BY <1>1, <1>2, <1>3 DEF Ended, Kin, x
<1> QED
  BY <1>1, <1>2, <1>3, <1>4

LEMMA CaptureEofEffect ==
    ASSUME IInv, NEW c \in Ctx, CaptureEof(c)
    PROVE  /\ at = "idle" /\ at' = "idle"
           /\ UNCHANGED <<proc, code, news, held, owner, slot, orphan>>
           /\ \E x \in CtxRecord, y \in CtxRecord : Ended(c, x, y)
<1> DEFINE x == ctxs[c]
           e == [x EXCEPT !.capture = "eof"]
           y == MaybeFinalize(e)
<1>1. /\ at = "idle" /\ at' = "idle" /\ x.state = "live"
      /\ ctxs' = [ctxs EXCEPT ![c] = y]
      /\ UNCHANGED <<proc, code, news, held, owner, slot, orphan>>
  BY DEF CaptureEof, kernelVars, tableVars, callVars, IInv, TypeOK
<1>2. x \in CtxRecord
  BY DEF IInv, TypeOK
<1> HIDE DEF x
<1>3. /\ e \in CtxRecord /\ e.mode = x.mode /\ e.want = x.want /\ e.capture = "eof"
      /\ SameRecord(x, e) /\ e.pids = x.pids /\ e.left = x.left /\ e.state = x.state
  BY <1>2 DEF CtxRecord, SameRecord
<1> HIDE DEF e
<1>4. /\ y \in CtxRecord /\ Kin(e, y) /\ SameRecord(e, y)
      /\ y.pids = e.pids /\ y.left = e.left
      /\ y.state = IF e.left > 0 THEN e.state ELSE "resolved"
  BY <1>3, FinalizeEffect
<1> HIDE DEF y
<1>5. Ended(c, x, y)
  BY <1>1, <1>3, <1>4 DEF Ended, Kin, SameRecord, x
<1> QED
  BY <1>1, <1>2, <1>4, <1>5

\* A stage of a context has died.
ReapedOne(c, p, x, y) ==
    /\ owner[p] = c /\ x = ctxs[c] /\ x.state = "live"
    /\ proc[p] = "zombie"
    /\ ctxs' = [ctxs EXCEPT ![c] = y]
    /\ Kin(x, y) /\ y.pids = x.pids /\ y.left = x.left - 1 /\ y.stopped = x.stopped
    /\ y.status = [x.status EXCEPT ![slot[p]] = code[p]]
    /\ y.exit = IF slot[p] = Len(x.want) THEN code[p] ELSE x.exit
    /\ y.state = IF y.left = 0 /\ x.capture # "open" THEN "resolved" ELSE "live"
    /\ ErasePending(p) /\ orphan' = orphan

LEMMA ReapStageEffect ==
    ASSUME IInv, NEW p \in Pid, Reap(p), ReapStage(p)
    PROVE  \E c \in Ctx, x \in CtxRecord, y \in CtxRecord : ReapedOne(c, p, x, y)
<1> DEFINE c == owner[p]
           x == ctxs[c]
           s == StatusOf(p)
           r == Record(x, slot[p], s)
           e == [r EXCEPT !.left = r.left - 1]
           y == IF e.left = 0 THEN MaybeFinalize(e) ELSE e
<1>1. c \in Ctx /\ x \in CtxRecord /\ x.state = "live"
  BY DEF ReapStage, IsCtxBound, IInv, NoDanglingCtx, TypeOK
<1>2. s \in WaitStatus /\ proc[p] = "zombie" /\ s = code[p]
  BY ReapFrame DEF ReapStage, StatusOf
<1>3. ErasePending(p) /\ orphan' = orphan /\ ctxs' = [ctxs EXCEPT ![c] = y]
  BY DEF ReapStage
<1> HIDE DEF x, s
<1>4. /\ r \in CtxRecord /\ Kin(x, r) /\ r.pids = x.pids /\ r.left = x.left
      /\ r.stopped = x.stopped /\ r.state = x.state
  BY <1>1, <1>2, RecordEffect
<1>5. /\ r.status = [x.status EXCEPT ![slot[p]] = s]
      /\ r.exit = IF slot[p] = Len(x.want) THEN s ELSE x.exit
  BY <1>1 DEF Record, CtxRecord
<1> HIDE DEF r
<1>6. r.left - 1 \in Int
  BY <1>4 DEF CtxRecord
<1>7. /\ e \in CtxRecord /\ Kin(r, e) /\ SameRecord(r, e) /\ e.left = r.left - 1
      /\ e.pids = r.pids /\ e.state = r.state
  BY <1>4, <1>6, LeftEffect
<1> HIDE DEF e
<1>8. /\ y \in CtxRecord /\ Kin(e, y) /\ SameRecord(e, y) /\ y.left = e.left
      /\ y.pids = e.pids
      /\ y.state = IF e.left = 0 /\ e.capture # "open" THEN "resolved" ELSE e.state
  <2> DEFINE z == MaybeFinalize(e)
  <2>0. /\ z \in CtxRecord /\ Kin(e, z) /\ SameRecord(e, z) /\ z.left = e.left
        /\ z.pids = e.pids
        /\ z.state = IF e.left > 0 \/ e.capture = "open" THEN e.state ELSE "resolved"
    BY <1>7, FinalizeEffect
  <2>1. CASE e.left = 0
    <3>1. y = z
      BY <2>1
    <3> HIDE DEF y, z
    <3> QED
      BY <2>0, <2>1, <3>1
  <2>2. CASE e.left # 0
    BY <1>7, <2>2 DEF Kin, SameRecord
  <2> QED
    BY <2>1, <2>2
<1> HIDE DEF y
<1>9. Kin(x, y) /\ y.pids = x.pids /\ y.left = x.left - 1 /\ y.stopped = x.stopped
  BY <1>4, <1>7, <1>8 DEF Kin, SameRecord
<1>10. /\ y.status = [x.status EXCEPT ![slot[p]] = code[p]]
       /\ y.exit = IF slot[p] = Len(x.want) THEN code[p] ELSE x.exit
  BY <1>2, <1>5, <1>7, <1>8 DEF SameRecord
<1>11. y.state = IF y.left = 0 /\ x.capture # "open" THEN "resolved" ELSE "live"
  BY <1>1, <1>4, <1>7, <1>8 DEF Kin
<1>12. ReapedOne(c, p, x, y)
  BY <1>1, <1>2, <1>3, <1>9, <1>10, <1>11 DEF ReapedOne, x
<1> QED
  BY <1>1, <1>8, <1>12

\* A stage of a context has stopped.
ReapedStop(c, p, x, y) ==
    /\ owner[p] = c /\ x = ctxs[c] /\ x.state = "live"
    /\ ctxs' = [ctxs EXCEPT ![c] = y]
    /\ Kin(x, y) /\ y.left = 0 /\ y.stopped
    /\ y.state = IF x.capture = "open" THEN "live" ELSE "resolved"
    /\ \E order \in Orders(OwnedBy(c) \ {p}) : y.pids = x.pids \o order
    /\ owner' = [q \in Pid |-> IF owner[q] = c THEN Untracked ELSE owner[q]]
    /\ slot' = [q \in Pid |-> IF owner[q] = c THEN 1 ELSE slot[q]]
    /\ orphan' = [q \in Pid |-> IF q \in OwnedBy(c) \ {p} THEN Unreaped ELSE orphan[q]]

LEMMA ReapStoppedEffect ==
    ASSUME IInv, NEW p \in Pid, Reap(p), ReapStopped(p)
    PROVE  \E c \in Ctx, x \in CtxRecord, y \in CtxRecord : ReapedStop(c, p, x, y)
<1> DEFINE c == owner[p]
           S == OwnedBy(c) \ {p}
           x == ctxs[c]
<1>1. /\ owner' = [q \in Pid |-> IF owner[q] = c THEN Untracked ELSE owner[q]]
      /\ slot' = [q \in Pid |-> IF owner[q] = c THEN 1 ELSE slot[q]]
      /\ orphan' = [q \in Pid |-> IF q \in S THEN Unreaped ELSE orphan[q]]
  BY DEF ReapStopped
<1>2. PICK order \in Orders(S) :
         ctxs' = [ctxs EXCEPT ![c] = MaybeFinalize(
             [x EXCEPT !.stopped = TRUE, !.exit = Stopped, !.left = 0,
                       !.pids = x.pids \o order])]
  BY DEF ReapStopped
<1>3. c \in Ctx /\ x \in CtxRecord /\ x.state = "live"
  BY DEF ReapStopped, IsCtxBound, IInv, NoDanglingCtx, TypeOK
<1> DEFINE more == x.pids \o order
           e == [x EXCEPT !.stopped = TRUE, !.exit = Stopped, !.left = 0, !.pids = more]
           y == MaybeFinalize(e)
<1>4. more \in Seq(Pid)
  <2>1. S \in SUBSET Pid
    BY DEF OwnedBy
  <2>2. order \in Seq(Pid) /\ x.pids \in Seq(Pid)
    BY <1>3, <2>1, OrdersType DEF CtxRecord
  <2> QED
    BY <2>2, ConcatProperties
<1>5. ctxs' = [ctxs EXCEPT ![c] = y]
  BY <1>2
<1> HIDE DEF x
<1>6. more = x.pids \o order
  OBVIOUS
<1> HIDE DEF more
<1>7. TRUE \in BOOLEAN /\ Stopped \in WaitStatus /\ 0 \in Int
  BY DEF WaitStatus
<1>8. e \in CtxRecord
  <2>1. e = [x EXCEPT !.stopped = TRUE, !.exit = Stopped, !.left = 0, !.pids = more]
    OBVIOUS
  <2> HIDE DEF e
  <2> QED
    BY <1>3, <1>4, <1>7, <2>1, StopType
<1>9. /\ Kin(x, e) /\ e.pids = more /\ e.left = 0 /\ e.stopped
      /\ e.state = x.state
  BY <1>3 DEF CtxRecord, Kin
<1> HIDE DEF e
<1>10. /\ y \in CtxRecord /\ Kin(e, y) /\ SameRecord(e, y) /\ y.left = 0
       /\ y.pids = more
       /\ y.state = IF e.capture = "open" THEN e.state ELSE "resolved"
  BY <1>8, <1>9, FinalizeEffect
<1> HIDE DEF y
<1>11. Kin(x, y) /\ y.stopped /\ y.state = IF x.capture = "open" THEN "live" ELSE "resolved"
  BY <1>3, <1>9, <1>10 DEF Kin, SameRecord
<1>12. ReapedStop(c, p, x, y)
  BY <1>1, <1>3, <1>5, <1>6, <1>10, <1>11 DEF ReapedStop, x
<1> QED
  BY <1>3, <1>10, <1>12

-----------------------------------------------------------------------------
(* ListsInv, for the steps that only finish, count or record.              *)

\* No context begins to wait for other pids, and a result is not touched.
KeepsKinds ==
    \A c \in Ctx :
        /\ ctxs'[c].mode = ctxs[c].mode /\ ctxs'[c].want = ctxs[c].want
        /\ Spawning(c) => PidsIn(ctxs'[c].pids) = PidsIn(ctxs[c].pids)
        /\ ctxs[c].state = "resolved" => ctxs'[c] = ctxs[c]

LEMMA KindsKept ==
    ASSUME TypeOK, NEW c \in Ctx, NEW y \in CtxRecord,
           ctxs' = [ctxs EXCEPT ![c] = y],
           y.mode = ctxs[c].mode, y.want = ctxs[c].want,
           ctxs[c].state = "live",
           Spawning(c) => PidsIn(y.pids) = PidsIn(ctxs[c].pids)
    PROVE  KeepsKinds
<1>1. ctxs'[c] = y /\ \A d \in Ctx : d # c => ctxs'[d] = ctxs[d]
  BY DEF TypeOK
<1> QED
  BY <1>1 DEF KeepsKinds

LEMMA SameKinds == ASSUME ctxs' = ctxs PROVE KeepsKinds
BY DEF KeepsKinds

\* A call goes on, or ends.
CallGoesOn ==
    \/ at' \in {"idle", "reap"}
    \/ /\ UNCHANGED <<at, cur, list>> /\ pos' \in {pos, pos + 1}
       /\ at = "wait" => pos' <= Len(list) + 1
    \/ at = "spawn" /\ at' = "drain" /\ UNCHANGED <<cur, list>>

\* A pid that is waited for was so before, or is the one waitForPids is at.
OwnersStay ==
    \A p \in Pid : owner'[p] \in Ctx =>
        \/ owner'[p] = owner[p] /\ slot'[p] = slot[p]
        \/ /\ at = "wait" /\ UNCHANGED <<at, cur, list>> /\ pos' = pos + 1
           /\ pos \in DOMAIN list /\ p = list[pos]
           /\ owner'[p] = cur /\ slot'[p] = pos

LEMMA ListsFrame ==
    ASSUME IInv, ListsInv, TypeOK', KeepsKinds, held' = held, CallGoesOn, OwnersStay,
           \A p \in Pid : Born(p) => Born(p)'
    PROVE  ListsInv'
<1> USE DEF ListsInv
<1>t. TypeOK /\ pos \in Nat \ {0} /\ pos' \in Nat \ {0} /\ list \in Seq(Pid)
  BY DEF IInv, TypeOK
<1>k. \A c \in Ctx : /\ ctxs'[c].mode = ctxs[c].mode /\ ctxs'[c].want = ctxs[c].want
                     /\ Spawning(c)' <=> Spawning(c)
  BY DEF KeepsKinds, Spawning
<1>c. at' \in {"spawn", "drain", "wait"} =>
         /\ at \in {"spawn", "drain", "wait"} /\ cur \in Ctx /\ cur' = cur /\ list' = list
  BY CallCtx, <1>t DEF CallGoesOn
<1>1. CallKnown'
  <2>1. at' \in {"spawn", "drain"} => Spawning(cur)' /\ ctxs'[cur'].want = <<>>
    <3> SUFFICES ASSUME at' \in {"spawn", "drain"}
                 PROVE  Spawning(cur)' /\ ctxs'[cur'].want = <<>>
      OBVIOUS
    <3>1. at \in {"spawn", "drain"} /\ cur \in Ctx /\ cur' = cur
      BY <1>c DEF CallGoesOn
    <3> QED
      BY <3>1, <1>k DEF CallKnown, Spawning
  <2>2. at' = "wait" => /\ ctxs'[cur'].mode \in {"mixed", "resume"}
                        /\ ctxs'[cur'].want = list'
                        /\ pos' <= Len(list') + 1
    <3> SUFFICES ASSUME at' = "wait"
                 PROVE  /\ ctxs'[cur'].mode \in {"mixed", "resume"}
                        /\ ctxs'[cur'].want = list'
                        /\ pos' <= Len(list') + 1
      OBVIOUS
    <3>1. at = "wait" /\ cur \in Ctx /\ cur' = cur /\ list' = list /\ pos' <= Len(list) + 1
      BY <1>c DEF CallGoesOn
    <3> QED
      BY <3>1, <1>k DEF CallKnown
  <2> QED
    BY <2>1, <2>2 DEF CallKnown
<1>2. SlotOfPid'
  <2> SUFFICES ASSUME NEW p \in Pid, owner'[p] \in Ctx
               PROVE  /\ slot'[p] \in DOMAIN ctxs'[owner'[p]].want
                      /\ ctxs'[owner'[p]].want[slot'[p]] = p
                      /\ InCall(owner[p])' => slot'[p] < pos'
    BY DEF SlotOfPid, IsCtxBound
  <2>1. CASE owner'[p] = owner[p] /\ slot'[p] = slot[p]
    <3>1. /\ slot[p] \in DOMAIN ctxs[owner[p]].want /\ ctxs[owner[p]].want[slot[p]] = p
          /\ InCall(owner[p]) => slot[p] < pos
      BY <2>1 DEF SlotOfPid, IsCtxBound
    <3>2. InCall(owner[p])' => InCall(owner[p]) /\ (pos' = pos \/ pos' = pos + 1)
      <4> SUFFICES ASSUME InCall(owner[p])'
                   PROVE  InCall(owner[p]) /\ (pos' = pos \/ pos' = pos + 1)
        OBVIOUS
      <4>1. at' \in {"spawn", "drain", "wait"} /\ owner[p] = cur
        BY <2>1, <1>c DEF InCall
      <4>2. at = "spawn" => FALSE
        BY <4>1, <2>1 DEF IInv, SpawnUnregistered, OwnedBy
      <4> QED
        BY <4>1, <4>2, <1>c DEF InCall, CallGoesOn
    <3>3. slot[p] \in Nat
      BY <1>t DEF TypeOK
    <3> QED
      BY <2>1, <3>1, <3>2, <3>3, <1>k, <1>t
  <2>2. CASE /\ at = "wait" /\ UNCHANGED <<at, cur, list>> /\ pos' = pos + 1
             /\ pos \in DOMAIN list /\ p = list[pos]
             /\ owner'[p] = cur /\ slot'[p] = pos
    <3>1. ctxs'[cur].want = list
      BY <2>2, <1>k DEF CallKnown
    <3> QED
      BY <2>2, <3>1, <1>t DEF InCall
  <2> QED
    BY <2>1, <2>2 DEF OwnersStay
<1>3. WantsBorn'
  <2> SUFFICES ASSUME NEW c \in Ctx, NEW p \in PidsIn(ctxs'[c].want)
               PROVE  Born(p)'
    BY DEF WantsBorn
  <2>1. p \in PidsIn(ctxs[c].want) /\ Born(p)
    BY <1>k DEF WantsBorn
  <2>2. ctxs[c].want \in Seq(Pid)
    BY <1>t DEF TypeOK, CtxRecord
  <2>3. p \in Pid
    BY <2>1, <2>2, ElementOfSeq, LenProperties DEF PidsIn
  <2> QED
    BY <2>1, <2>3
<1>4. OwnedListed'
  <2> SUFFICES ASSUME NEW p \in Pid, owner'[p] \in Ctx, Spawning(owner[p])'
               PROVE  p \in PidsIn(ctxs'[owner'[p]].pids)
    BY DEF OwnedListed, IsCtxBound
  <2>1. owner'[p] = owner[p]
    <3>1. at = "wait" /\ owner'[p] = cur => FALSE
      BY <1>k DEF CallKnown, Spawning
    <3> QED
      BY <3>1 DEF OwnersStay
  <2>2. Spawning(owner[p])
    BY <2>1, <1>k DEF Spawning
  <2> QED
    BY <2>1, <2>2 DEF OwnedListed, IsCtxBound, KeepsKinds
<1>5. FreshList'
  <2> SUFFICES ASSUME at' \in {"spawn", "drain"}, NEW p \in Stages'
               PROVE  /\ p \notin PidsIn(held')
                      /\ \A c \in Ctx : /\ p \notin PidsIn(ctxs'[c].want)
                                        /\ Spawning(c)' => p \notin PidsIn(ctxs'[c].pids)
    BY DEF FreshList
  <2>1. at \in {"spawn", "drain"} /\ p \in Stages
    BY <1>c DEF CallGoesOn, Stages
  <2> QED
    BY <2>1, <1>k DEF FreshList, KeepsKinds
<1>6. PidsApart'
  BY <1>k DEF PidsApart, KeepsKinds
<1>7. ForkedApart'
  BY <1>k DEF ForkedApart, KeepsKinds
<1>8. ResumesJob'
  <2> SUFFICES ASSUME at' = "wait", ctxs'[cur'].mode = "resume"
               PROVE  \E d \in Ctx : /\ Spawning(d)' /\ ctxs'[d].state = "resolved"
                                     /\ list' = ctxs'[d].pids
    BY DEF ResumesJob
  <2>1. at = "wait" /\ cur \in Ctx /\ cur' = cur /\ list' = list
    BY <1>c DEF CallGoesOn
  <2>2. PICK d \in Ctx : Spawning(d) /\ ctxs[d].state = "resolved" /\ list = ctxs[d].pids
    BY <2>1, <1>k DEF ResumesJob
  <2> QED
    BY <2>1, <2>2, <1>k DEF KeepsKinds
<1> QED
  BY <1>1, <1>2, <1>3, <1>4, <1>5, <1>6, <1>7, <1>8

\* The steps that change no table: those of the children, of the terminal, and
\* of the main thread between the tables.
LEMMA QuietEffect ==
    ASSUME TypeOK,
           \/ UNCHANGED vars \/ Kernel \/ ReapChildren \/ TcsetpgrpShell
           \/ \E pids \in JobPids : TcsetpgrpFg(pids) \/ SendCont(pids)
           \/ SpawnFail \/ SigChldBegin \/ SigChldEnd
    PROVE  /\ UNCHANGED <<owner, slot, orphan, ctxs, held, cur, list>>
           /\ \/ UNCHANGED <<at, pos>>
              \/ at = "spawn" /\ at' = "drain"
              \/ at \in {"idle", "reap"} /\ at' \in {"idle", "reap"}
           /\ \A p \in Pid : /\ Born(p) => Born(p)'
                             /\ proc'[p] = "reaped" <=> proc[p] = "reaped"
                             /\ proc[p] = "reaped" => code'[p] = code[p]
                             /\ proc'[p] = "stopped" /\ p \notin news' =>
                                  proc[p] = "stopped" /\ p \notin news
<1>1. CASE Kernel
  <2>1. PICK q \in Pid : \/ \E c \in ExitCode : ExitProcess(q, c)
                         \/ StopProcess(q)
                         \/ ContinueProcess(q)
    BY <1>1 DEF Kernel
  <2>2. ASSUME NEW c \in ExitCode, ExitProcess(q, c)
        PROVE  \A p \in Pid : /\ Born(p) => Born(p)'
                              /\ proc'[p] = "reaped" <=> proc[p] = "reaped"
                              /\ proc[p] = "reaped" => code'[p] = code[p]
                              /\ proc'[p] = "stopped" /\ p \notin news' =>
                                   proc[p] = "stopped" /\ p \notin news
    BY <2>2 DEF ExitProcess, TypeOK, Born
  <2>3. CASE StopProcess(q)
    BY <2>3 DEF StopProcess, TypeOK, Born, tableVars, callVars
  <2>4. CASE ContinueProcess(q)
    BY <2>4 DEF ContinueProcess, TypeOK, Born, tableVars, callVars
  <2>5. ASSUME NEW c \in ExitCode, ExitProcess(q, c)
        PROVE  UNCHANGED <<owner, slot, orphan, ctxs, held, cur, list, at, pos>>
    BY <2>5 DEF ExitProcess, tableVars, callVars
  <2> QED
    BY <2>1, <2>2, <2>3, <2>4, <2>5
<1>2. ASSUME NEW pids \in JobPids, SendCont(pids)
      PROVE  /\ UNCHANGED <<owner, slot, orphan, ctxs, held, cur, list, at, pos, code>>
             /\ \A p \in Pid : /\ Born(p) => Born(p)'
                               /\ proc'[p] = "reaped" <=> proc[p] = "reaped"
                               /\ proc'[p] = "stopped" /\ p \notin news' =>
                                    proc[p] = "stopped" /\ p \notin news
  BY <1>2 DEF SendCont, Born, tableVars, callVars
<1>3. ASSUME \/ UNCHANGED vars \/ ReapChildren \/ TcsetpgrpShell
             \/ \E pids \in JobPids : TcsetpgrpFg(pids)
             \/ SpawnFail \/ SigChldBegin \/ SigChldEnd
      PROVE  /\ UNCHANGED <<owner, slot, orphan, ctxs, held, cur, list, proc, code, news>>
             /\ \/ UNCHANGED <<at, pos>>
                \/ at = "spawn" /\ at' = "drain"
                \/ at \in {"idle", "reap"} /\ at' \in {"idle", "reap"}
  BY <1>3 DEF vars, ReapChildren, TcsetpgrpShell, TcsetpgrpFg, SpawnFail,
              SigChldBegin, SigChldEnd, tableVars, callVars, kernelVars
<1> QED
  BY <1>1, <1>2, <1>3 DEF Born

LEMMA QuietLists ==
    ASSUME IInv, ListsInv, TypeOK',
           UNCHANGED <<owner, slot, orphan, ctxs, held, cur, list>>,
           \/ UNCHANGED <<at, pos>>
           \/ at = "spawn" /\ at' = "drain"
           \/ at \in {"idle", "reap"} /\ at' \in {"idle", "reap"},
           \A p \in Pid : Born(p) => Born(p)'
    PROVE  ListsInv'
<1>1. CallGoesOn
  BY DEF CallGoesOn, ListsInv, CallKnown
<1>2. OwnersStay
  BY DEF OwnersStay
<1> QED
  BY <1>1, <1>2, SameKinds, ListsFrame

LEMMA DrainStageEffect ==
    ASSUME IInv, DrainStage
    PROVE  /\ at = "drain" /\ pos' = pos + 1
           /\ UNCHANGED <<owner, orphan, code, ctxs, held, at, cur, list>>
           /\ \E p \in Pid : /\ p \in Stages /\ proc[p] = "zombie"
                             /\ proc' = [proc EXCEPT ![p] = "reaped"]
                             /\ news' = news \ {p}
                             /\ slot' = [slot EXCEPT ![p] = 1]
<1>1. PICK p \in Pid : p = list[pos] /\ owner[p] = Untracked /\ p \in Stages
  <2>1. list[pos] \in Pid /\ pos \in DOMAIN list
    BY LenProperties DEF DrainStage, IInv, TypeOK
  <2> QED
    BY <2>1 DEF DrainStage, IInv, SpawnUnregistered, Stages
<1>2. owner' = owner /\ slot' = [slot EXCEPT ![p] = 1]
  BY <1>1, CtxAssumption DEF DrainStage, ErasePending, IsCtxBound, IInv, TypeOK
<1> QED
  BY <1>1, <1>2 DEF DrainStage, Collect

LEMMA DrainLists == ASSUME IInv, ListsInv, TypeOK', DrainStage PROVE ListsInv'
<1>1. /\ at = "drain" /\ pos' = pos + 1
      /\ UNCHANGED <<owner, orphan, code, ctxs, held, at, cur, list>>
  BY DrainStageEffect
<1>2. PICK p \in Pid : /\ p \in Stages /\ proc[p] = "zombie"
                       /\ proc' = [proc EXCEPT ![p] = "reaped"]
                       /\ slot' = [slot EXCEPT ![p] = 1]
  BY DrainStageEffect
<1>3. owner[p] = Untracked
  BY <1>1, <1>2 DEF IInv, SpawnUnregistered, Stages
<1>4. OwnersStay
  BY <1>1, <1>2, <1>3, CtxAssumption DEF OwnersStay, IInv, TypeOK
<1>5. \A q \in Pid : Born(q) => Born(q)'
  BY <1>2 DEF Born, IInv, TypeOK
<1>6. CallGoesOn
  BY <1>1 DEF CallGoesOn
<1> QED
  BY <1>1, <1>4, <1>5, <1>6, SameKinds, ListsFrame

\* A spawn that failed resolves its promise, which waits for no pid.
LEMMA DrainEndEffect ==
    ASSUME IInv, DrainEnd
    PROVE  /\ at = "drain" /\ at' = "idle" /\ cur \in Ctx
           /\ UNCHANGED <<proc, code, news, held, owner, slot, orphan>>
           /\ \E y \in CtxRecord :
                /\ ctxs' = [ctxs EXCEPT ![cur] = y] /\ ctxs[cur].state = "live"
                /\ Kin(ctxs[cur], y) /\ y.pids = ctxs[cur].pids /\ y.state = "resolved"
<1> DEFINE x == ctxs[cur]
           e == [x EXCEPT !.exit = SpawnErr]
           y == Resolve(e)
<1>1. /\ at = "drain" /\ at' = "idle" /\ ctxs' = [ctxs EXCEPT ![cur] = y]
      /\ UNCHANGED <<proc, code, news, held, owner, slot, orphan>>
  BY DEF DrainEnd, Return, kernelVars, tableVars, IInv, TypeOK
<1>2. cur \in Ctx /\ x \in CtxRecord /\ x.state = "live"
  BY <1>1, CallCtx DEF IInv, CallCtxLive
<1> HIDE DEF x
<1>3. e \in CtxRecord /\ Kin(x, e) /\ e.pids = x.pids
  BY <1>2, CodeAssumption DEF CtxRecord, WaitStatus, Kin
<1> HIDE DEF e
<1>4. y \in CtxRecord /\ Kin(x, y) /\ y.pids = x.pids /\ y.state = "resolved"
  BY <1>3 DEF Resolve, CtxRecord, CtxState, Kin
<1> HIDE DEF y
<1> QED
  BY <1>1, <1>2, <1>4 DEF x

LEMMA DrainEndLists == ASSUME IInv, ListsInv, TypeOK', DrainEnd PROVE ListsInv'
<1>1. /\ at = "drain" /\ at' = "idle" /\ cur \in Ctx
      /\ UNCHANGED <<proc, code, news, held, owner, slot, orphan>>
  BY DrainEndEffect
<1>2. PICK y \in CtxRecord :
         /\ ctxs' = [ctxs EXCEPT ![cur] = y] /\ ctxs[cur].state = "live"
         /\ Kin(ctxs[cur], y) /\ y.pids = ctxs[cur].pids
  BY DrainEndEffect
<1>3. KeepsKinds
  BY <1>1, <1>2, KindsKept DEF Kin, IInv
<1>4. CallGoesOn /\ OwnersStay /\ \A q \in Pid : Born(q) => Born(q)'
  BY <1>1 DEF CallGoesOn, OwnersStay, Born
<1> QED
  BY <1>1, <1>3, <1>4, ListsFrame

LEMMA EndedLists ==
    ASSUME IInv, ListsInv, TypeOK', at' = "idle",
           UNCHANGED <<proc, code, news, held, owner, slot, orphan>>,
           NEW c \in Ctx, NEW x \in CtxRecord, NEW y \in CtxRecord, Ended(c, x, y)
    PROVE  ListsInv'
<1>1. KeepsKinds
  BY KindsKept DEF Ended, IInv
<1>2. CallGoesOn /\ OwnersStay /\ \A q \in Pid : Born(q) => Born(q)'
  BY DEF CallGoesOn, OwnersStay, Born
<1> QED
  BY <1>1, <1>2, ListsFrame

LEMMA WaitStageLists == ASSUME IInv, ListsInv, TypeOK', WaitStage PROVE ListsInv'
<1>1. /\ at = "wait" /\ pos' = pos + 1
      /\ UNCHANGED <<proc, code, news, held, at, cur, list>>
  BY WaitStageEffect
<1>2. PICK c \in Ctx, p \in Pid, x \in CtxRecord, y \in CtxRecord :
         /\ Turn(c, p, x, y)
         /\ TurnStop(p, x, y) \/ TurnExit(p, x, y) \/ TurnRegister(c, p, x, y)
  BY WaitStageEffect
<1>3. KeepsKinds
  BY <1>2, KindsKept DEF Kin, IInv, Turn
<1>4. CallGoesOn
  <2>1. pos <= Len(list) /\ pos \in Nat /\ Len(list) \in Nat
    BY CallCtx, <1>1, LenProperties DEF WaitStage, IInv
  <2> QED
    BY <1>1, <2>1 DEF CallGoesOn
<1>5. OwnersStay
  <2>1. CASE UNCHANGED <<owner, slot>>
    BY <2>1 DEF OwnersStay
  <2>2. CASE TurnRegister(c, p, x, y)
    BY <1>1, <1>2, <2>2 DEF OwnersStay, TurnRegister, Turn, IInv, TypeOK
  <2> QED
    BY <1>2, <2>1, <2>2 DEF TurnStop, TurnExit
<1>6. \A q \in Pid : Born(q) => Born(q)'
  BY <1>1 DEF Born
<1> QED
  BY <1>1, <1>3, <1>4, <1>5, <1>6, ListsFrame

\* The pids handleStopped adds to a spawned context were there already.
LEMMA StoppedPids ==
    ASSUME IInv, ListsInv, NEW p \in Pid, NEW c \in Ctx, NEW x \in CtxRecord,
           NEW y \in CtxRecord, ReapedStop(c, p, x, y), Spawning(c)
    PROVE  PidsIn(y.pids) = PidsIn(ctxs[c].pids)
<1>1. PICK order \in Orders(OwnedBy(c) \ {p}) : y.pids = x.pids \o order
  BY DEF ReapedStop
<1>2. /\ x = ctxs[c] /\ x.pids \in Seq(Pid)
      /\ \A q \in OwnedBy(c) \ {p} : q \in PidsIn(x.pids)
  BY DEF ReapedStop, CtxRecord, ListsInv, OwnedListed, OwnedBy, IsCtxBound
<1>3. order \in Seq(Pid) /\ \A i \in DOMAIN order : order[i] \in OwnedBy(c) \ {p}
  <2>1. OwnedBy(c) \ {p} \in SUBSET Pid
    BY DEF OwnedBy
  <2> QED
    BY <2>1, OrdersType
<1> DEFINE more == x.pids \o order
<1>4. /\ more \in Seq(Pid) /\ Len(more) = Len(x.pids) + Len(order)
      /\ \A i \in 1..Len(more) :
            more[i] = IF i <= Len(x.pids) THEN x.pids[i] ELSE order[i - Len(x.pids)]
  BY <1>2, <1>3, ConcatProperties
<1>5. /\ DOMAIN more = 1..Len(more) /\ Len(more) \in Nat
      /\ DOMAIN x.pids = 1..Len(x.pids) /\ Len(x.pids) \in Nat
      /\ DOMAIN order = 1..Len(order) /\ Len(order) \in Nat
  BY <1>2, <1>3, <1>4, LenProperties
<1> HIDE DEF more
<1>6. ASSUME NEW i \in DOMAIN more PROVE more[i] \in PidsIn(x.pids)
  <2>1. CASE i <= Len(x.pids)
    BY <1>4, <1>5, <1>6, <2>1 DEF PidsIn
  <2>2. CASE ~(i <= Len(x.pids))
    <3>1. i - Len(x.pids) \in DOMAIN order /\ more[i] = order[i - Len(x.pids)]
      BY <1>4, <1>5, <1>6, <2>2
    <3> QED
      BY <1>2, <1>3, <3>1
  <2> QED
    BY <2>1, <2>2
<1>7. ASSUME NEW i \in DOMAIN x.pids PROVE x.pids[i] \in PidsIn(more)
  <2>1. i \in DOMAIN more /\ more[i] = x.pids[i]
    BY <1>4, <1>5, <1>7
  <2> QED
    BY <2>1 DEF PidsIn
<1>8. PidsIn(more) = PidsIn(x.pids)
  BY <1>6, <1>7 DEF PidsIn
<1> QED
  BY <1>1, <1>2, <1>8 DEF more

LEMMA ReapLists == ASSUME IInv, ListsInv, TypeOK', NEW p \in Pid, Reap(p) PROVE ListsInv'
<1>1. /\ at' = "reap" /\ held' = held /\ \A q \in Pid : Born(q) => Born(q)'
      /\ CallGoesOn
  BY ReapFrame DEF CallGoesOn
<1>2. ASSUME UNCHANGED ctxs,
             UNCHANGED <<owner, slot>> \/ ErasePending(p)
      PROVE  ListsInv'
  <2>1. OwnersStay
    BY <1>2, CtxAssumption DEF OwnersStay, ErasePending, IInv, TypeOK
  <2> QED
    BY <1>1, <1>2, <2>1, SameKinds, ListsFrame
<1>3. CASE ReapUntracked(p)
  BY <1>2, <1>3 DEF ReapUntracked
<1>4. CASE ReapBackground(p)
  BY <1>2, <1>4 DEF ReapBackground
<1>5. CASE ReapStopped(p)
  <2>1. PICK c \in Ctx, x \in CtxRecord, y \in CtxRecord : ReapedStop(c, p, x, y)
    BY <1>5, ReapStoppedEffect
  <2>2. Spawning(c) => PidsIn(y.pids) = PidsIn(ctxs[c].pids)
    BY <2>1, StoppedPids
  <2>3. KeepsKinds
    BY <2>1, <2>2, KindsKept DEF Kin, IInv, ReapedStop
  <2>4. OwnersStay
    BY <2>1, CtxAssumption DEF OwnersStay, ReapedStop
  <2> QED
    BY <1>1, <2>3, <2>4, ListsFrame
<1>6. CASE ReapStage(p)
  <2>1. PICK c \in Ctx, x \in CtxRecord, y \in CtxRecord : ReapedOne(c, p, x, y)
    BY <1>6, ReapStageEffect
  <2>2. KeepsKinds
    BY <2>1, KindsKept DEF Kin, IInv, ReapedOne
  <2>3. OwnersStay
    BY <2>1, CtxAssumption DEF OwnersStay, ReapedOne, ErasePending, IInv, TypeOK
  <2> QED
    BY <1>1, <2>2, <2>3, ListsFrame
<1> QED
  BY <1>3, <1>4, <1>5, <1>6 DEF Reap

-----------------------------------------------------------------------------
(* ListsInv, when a call begins, starts a process, or enters its pids.     *)

LEMMA NoPids == PidsIn(<<>>) = {}
BY DEF PidsIn

\* A call has begun.
Begun(c, mode, want) ==
    /\ at = "idle" /\ ctxs[c].state = "free"
    /\ ctxs' = [ctxs EXCEPT ![c] = NewCtx(mode, want)]
    /\ cur' = c /\ pos' = 1
    /\ UNCHANGED <<proc, code, news, owner, slot, orphan>>
    /\ \/ /\ at' = "spawn" /\ mode \in {"foreground", "background", "capture"}
          /\ want = <<>> /\ list' = <<>> /\ held' = held
       \/ /\ at' = "wait" /\ mode = "mixed"
          /\ want = held /\ list' = held /\ held' = <<>>
       \/ /\ at' = "wait" /\ mode = "resume"
          /\ list' = want /\ held' = held
          /\ \E d \in Ctx : /\ Spawning(d) /\ ctxs[d].state = "resolved"
                            /\ want = ctxs[d].pids

LEMMA BeginEffect ==
    ASSUME TypeOK, NEW c \in Ctx,
           \/ \E mode \in {"foreground", "background", "capture"} : SpawnBegin(c, mode)
           \/ WaitMixed(c)
           \/ \E pids \in JobPids : WaitResume(c, pids)
    PROVE  \E mode \in Mode, want \in Seq(Pid) : Begun(c, mode, want)
<1>1. ASSUME NEW mode \in {"foreground", "background", "capture"}, SpawnBegin(c, mode)
      PROVE  \E m \in Mode, want \in Seq(Pid) : Begun(c, m, want)
  <2>1. mode \in Mode /\ <<>> \in Seq(Pid)
    BY EmptySeq DEF Mode
  <2>2. Begun(c, mode, <<>>)
    BY <1>1 DEF SpawnBegin, Begun, kernelVars, tableVars
  <2> QED
    BY <2>1, <2>2
<1>2. CASE WaitMixed(c)
  <2>1. "mixed" \in Mode /\ held \in Seq(Pid)
    BY DEF Mode, TypeOK
  <2>2. Begun(c, "mixed", held)
    BY <1>2 DEF WaitMixed, WaitBegin, Begun, kernelVars, tableVars
  <2> QED
    BY <2>1, <2>2
<1>3. ASSUME NEW pids \in JobPids, WaitResume(c, pids)
      PROVE  \E m \in Mode, want \in Seq(Pid) : Begun(c, m, want)
  <2>1. "resume" \in Mode /\ pids \in Seq(Pid)
    BY JobPidsType DEF Mode
  <2>2. \E d \in Ctx : Spawning(d) /\ ctxs[d].state = "resolved" /\ pids = ctxs[d].pids
    BY DEF JobPids, Spawning
  <2>3. Begun(c, "resume", pids)
    BY <1>3, <2>2 DEF WaitResume, WaitBegin, Begun, kernelVars, tableVars
  <2> QED
    BY <2>1, <2>3
<1> QED
  BY <1>1, <1>2, <1>3

LEMMA BeginLists ==
    ASSUME IInv, ListsInv, TypeOK', NEW c \in Ctx, NEW mode \in Mode, NEW want \in Seq(Pid),
           Begun(c, mode, want)
    PROVE  ListsInv'
<1> USE DEF ListsInv
<1> DEFINE y == NewCtx(mode, want)
<1>1. y.mode = mode /\ y.want = want /\ y.pids = <<>> /\ y.state = "live"
  BY DEF NewCtx
<1>2. ctxs'[c] = y /\ \A d \in Ctx : d # c => ctxs'[d] = ctxs[d]
  BY DEF Begun, IInv, TypeOK
<1> HIDE DEF y
<1>3. \A p \in Pid : owner'[p] \in Ctx => owner'[p] = owner[p] /\ owner[p] # c
  BY DEF Begun, IInv, NoDanglingCtx, IsCtxBound
<1>4. \A p \in PidsIn(want) : p \in Pid /\ Born(p)
  <2>1. \A p \in PidsIn(want) : p \in Pid
    BY ElementOfSeq, LenProperties DEF PidsIn
  <2>2. \/ want = <<>>
        \/ want = held
        \/ \E d \in Ctx : want = ctxs[d].pids
    BY DEF Begun
  <2>3. \A p \in PidsIn(want) : Born(p)
    BY <2>2, NoPids DEF IInv, UnbornUnknown, PidsIn
  <2> QED
    BY <2>1, <2>3
<1>5. \A d \in Ctx : Spawning(d)' => PidsIn(ctxs'[d].pids) = {} \/ (d # c /\ Spawning(d))
  BY <1>1, <1>2, NoPids DEF Spawning
<1>6. CallKnown'
  <2>1. Len(list') \in Nat /\ pos' = 1
    BY LenProperties DEF TypeOK, Begun
  <2> QED
    BY <1>1, <1>2, <2>1 DEF CallKnown, Begun, Spawning
<1>7. SlotOfPid'
  <2> SUFFICES ASSUME NEW p \in Pid, owner'[p] \in Ctx
               PROVE  /\ slot'[p] \in DOMAIN ctxs'[owner'[p]].want
                      /\ ctxs'[owner'[p]].want[slot'[p]] = p
                      /\ InCall(owner[p])' => slot'[p] < pos'
    BY DEF SlotOfPid, IsCtxBound
  <2>1. owner'[p] = owner[p] /\ owner[p] # c /\ slot'[p] = slot[p] /\ cur' = c
    BY <1>3 DEF Begun
  <2>2. slot[p] \in DOMAIN ctxs[owner[p]].want /\ ctxs[owner[p]].want[slot[p]] = p
    BY <2>1 DEF SlotOfPid, IsCtxBound
  <2> QED
    BY <1>2, <2>1, <2>2 DEF InCall
<1>8. WantsBorn'
  <2>1. \A d \in Ctx : \A p \in PidsIn(ctxs'[d].want) : Born(p)
    BY <1>1, <1>2, <1>4 DEF WantsBorn
  <2> QED
    BY <2>1 DEF WantsBorn, Born, Begun
<1>9. OwnedListed'
  BY <1>2, <1>3 DEF OwnedListed, IsCtxBound, Spawning
<1>10. FreshList'
  BY DEF Begun, FreshList, Stages
<1>11. PidsApart'
  <2> SUFFICES ASSUME NEW d \in Ctx, NEW e \in Ctx, Spawning(d)', Spawning(e)', d # e,
                      NEW p \in PidsIn(ctxs'[d].pids)
               PROVE  p \notin PidsIn(ctxs'[e].pids)
    BY DEF PidsApart
  <2> QED
    BY <1>2, <1>5 DEF PidsApart
<1>12. ForkedApart'
  <2> SUFFICES ASSUME NEW d \in Ctx, Spawning(d)', NEW p \in PidsIn(ctxs'[d].pids)
               PROVE  /\ p \notin PidsIn(held')
                      /\ \A e \in Ctx : ctxs'[e].mode = "mixed" => p \notin PidsIn(ctxs'[e].want)
    BY DEF ForkedApart
  <2>1. d # c /\ Spawning(d) /\ p \in PidsIn(ctxs[d].pids)
    BY <1>2, <1>5
  <2>2. p \notin PidsIn(held)
    BY <2>1 DEF ForkedApart
  <2>3. p \notin PidsIn(held')
    BY <2>2, NoPids DEF Begun
  <2>4. ASSUME NEW e \in Ctx, ctxs'[e].mode = "mixed" PROVE p \notin PidsIn(ctxs'[e].want)
    <3>1. CASE e = c
      BY <1>1, <1>2, <2>2, <2>4, <3>1 DEF Begun
    <3>2. CASE e # c
      BY <1>2, <2>1, <2>4, <3>2 DEF ForkedApart
    <3> QED
      BY <3>1, <3>2
  <2> QED
    BY <2>3, <2>4
<1>13. ResumesJob'
  <2> SUFFICES ASSUME at' = "wait", ctxs'[cur'].mode = "resume"
               PROVE  \E d \in Ctx : /\ Spawning(d)' /\ ctxs'[d].state = "resolved"
                                     /\ list' = ctxs'[d].pids
    BY DEF ResumesJob
  <2>1. mode = "resume" /\ list' = want
    BY <1>1, <1>2 DEF Begun
  <2>2. PICK d \in Ctx : Spawning(d) /\ ctxs[d].state = "resolved" /\ want = ctxs[d].pids
    BY <2>1 DEF Begun
  <2>3. d # c
    BY <2>2 DEF Begun
  <2> QED
    BY <1>2, <2>1, <2>2, <2>3 DEF Spawning
<1> QED
  BY <1>6, <1>7, <1>8, <1>9, <1>10, <1>11, <1>12, <1>13

\* Appending a pid to a list adds that pid and no other.
LEMMA AppendPid ==
    ASSUME NEW s \in Seq(Pid), NEW p \in Pid
    PROVE  /\ PidsIn(Append(s, p)) = PidsIn(s) \cup {p}
           /\ DOMAIN s = 1..Len(s) /\ DOMAIN Append(s, p) = 1..(Len(s) + 1)
           /\ Len(s) \in Nat
           /\ \A i \in DOMAIN s : Append(s, p)[i] = s[i]
           /\ Append(s, p)[Len(s) + 1] = p
<1> DEFINE t == Append(s, p)
<1>1. /\ t \in Seq(Pid) /\ Len(t) = Len(s) + 1
      /\ \A i \in 1..Len(s) : t[i] = s[i]
      /\ t[Len(s) + 1] = p
  BY AppendProperties
<1>2. DOMAIN s = 1..Len(s) /\ Len(s) \in Nat /\ DOMAIN t = 1..(Len(s) + 1)
  BY <1>1, LenProperties
<1> HIDE DEF t
<1>3. ASSUME NEW i \in DOMAIN t PROVE t[i] \in PidsIn(s) \cup {p}
  <2>1. CASE i = Len(s) + 1
    BY <1>1, <2>1
  <2>2. CASE i # Len(s) + 1
    <3>1. i \in DOMAIN s /\ t[i] = s[i]
      BY <1>1, <1>2, <1>3, <2>2
    <3> QED
      BY <3>1 DEF PidsIn
  <2> QED
    BY <2>1, <2>2
<1>4. ASSUME NEW i \in DOMAIN s PROVE s[i] \in PidsIn(t)
  <2>1. i \in DOMAIN t /\ t[i] = s[i]
    BY <1>1, <1>2, <1>4
  <2> QED
    BY <2>1 DEF PidsIn
<1>5. p \in PidsIn(t)
  <2>1. Len(s) + 1 \in DOMAIN t
    BY <1>2
  <2> QED
    BY <1>1, <2>1 DEF PidsIn
<1>6. PidsIn(t) = PidsIn(s) \cup {p}
  BY <1>3, <1>4, <1>5 DEF PidsIn
<1> QED
  BY <1>1, <1>2, <1>6 DEF t

LEMMA PidsInType == ASSUME NEW s \in Seq(Pid) PROVE PidsIn(s) \subseteq Pid
BY ElementOfSeq, LenProperties DEF PidsIn

\* A process not yet born is on no list of a pipeline or a promise.
LEMMA UnbornOnNoList ==
    ASSUME IInv, ListsInv, NEW p \in Pid, ~Born(p)
    PROVE  /\ p \notin PidsIn(held) /\ p \notin Stages
           /\ \A c \in Ctx : p \notin PidsIn(ctxs[c].pids) /\ p \notin PidsIn(ctxs[c].want)
BY DEF IInv, UnbornUnknown, ListsInv, WantsBorn, PidsIn, Stages

LEMMA ForkExecLists ==
    ASSUME IInv, ListsInv, TypeOK', NEW p \in Pid, NEW keep \in BOOLEAN, ForkExec(p, keep)
    PROVE  ListsInv'
<1>1. /\ at = "idle" /\ at' = "idle" /\ proc[p] = "unborn"
      /\ proc' = [proc EXCEPT ![p] = "running"]
      /\ UNCHANGED <<owner, slot, ctxs, cur, list>>
      /\ held' = IF keep THEN Append(held, p) ELSE held
  BY DEF ForkExec, callVars
<1>2. \A q \in Pid : Born(q) => Born(q)'
  BY <1>1 DEF Born, IInv, TypeOK
<1>3. PidsIn(held') \subseteq PidsIn(held) \cup {p}
  BY <1>1, AppendPid DEF IInv, TypeOK
<1>4. \A c \in Ctx : p \notin PidsIn(ctxs[c].pids)
  BY <1>1, UnbornOnNoList DEF Born
<1>5. \A c \in Ctx : ctxs[c].want \in Seq(Pid)
  BY DEF IInv, TypeOK, CtxRecord
<1>6. CallKnown' /\ SlotOfPid' /\ OwnedListed' /\ FreshList' /\ PidsApart' /\ ResumesJob'
  BY <1>1 DEF ListsInv, CallKnown, SlotOfPid, IsCtxBound, InCall, OwnedListed, Spawning,
              FreshList, PidsApart, ResumesJob
<1>7. WantsBorn'
  BY <1>1, <1>2, <1>5, PidsInType DEF ListsInv, WantsBorn
<1>8. ForkedApart'
  <2>1. \A c \in Ctx : Spawning(c)' => Spawning(c)
    BY <1>1 DEF Spawning
  <2> QED
    BY <1>1, <1>3, <1>4, <2>1 DEF ListsInv, ForkedApart
<1> QED
  BY <1>6, <1>7, <1>8 DEF ListsInv

LEMMA SpawnStageLists ==
    ASSUME IInv, ListsInv, TypeOK', NEW p \in Pid, SpawnStage(p)
    PROVE  ListsInv'
<1>1. /\ at = "spawn" /\ at' = "spawn" /\ proc[p] = "unborn"
      /\ proc' = [proc EXCEPT ![p] = "running"] /\ list' = Append(list, p)
      /\ UNCHANGED <<owner, slot, ctxs, held, cur, pos>>
  BY DEF SpawnStage, tableVars
<1>2. \A q \in Pid : Born(q) => Born(q)'
  BY <1>1 DEF Born, IInv, TypeOK
<1>3. Stages' \subseteq Stages \cup {p}
  <2>1. PidsIn(list') = PidsIn(list) \cup {p}
    BY <1>1, AppendPid DEF IInv, TypeOK
  <2> QED
    BY <2>1 DEF PidsIn, Stages
<1>4. /\ p \notin PidsIn(held)
      /\ \A c \in Ctx : p \notin PidsIn(ctxs[c].pids) /\ p \notin PidsIn(ctxs[c].want)
  BY <1>1, UnbornOnNoList DEF Born
<1>5. \A c \in Ctx : ctxs[c].want \in Seq(Pid)
  BY DEF IInv, TypeOK, CtxRecord
<1>6. CallKnown' /\ SlotOfPid' /\ OwnedListed' /\ PidsApart' /\ ForkedApart' /\ ResumesJob'
  BY <1>1 DEF ListsInv, CallKnown, SlotOfPid, IsCtxBound, InCall, OwnedListed, Spawning,
              PidsApart, ForkedApart, ResumesJob
<1>7. WantsBorn'
  BY <1>1, <1>2, <1>5, PidsInType DEF ListsInv, WantsBorn
<1>8. FreshList'
  <2>1. \A c \in Ctx : Spawning(c)' => Spawning(c)
    BY <1>1 DEF Spawning
  <2> QED
    BY <1>1, <1>3, <1>4, <2>1 DEF ListsInv, FreshList
<1> QED
  BY <1>6, <1>7, <1>8 DEF ListsInv

\* The stages of a pipeline, all started, are entered for its context y.
Entered(c, mode, y) ==
    /\ at = "spawn" /\ at' = "idle" /\ c = cur /\ list # <<>>
    /\ ctxs[c].mode = mode /\ ctxs[c].state = "live" /\ ctxs[c].want = <<>>
    /\ ctxs' = [ctxs EXCEPT ![c] = y]
    /\ y.mode = mode /\ y.want = list /\ y.pids = list
    /\ DOMAIN y.status = DOMAIN list
    /\ UNCHANGED <<proc, code, news, held, orphan>>
    /\ \/ /\ mode = "background" /\ y.state = "resolved"
          /\ owner' = [p \in Pid |-> IF p \in Stages THEN Background ELSE owner[p]]
          /\ slot' = slot
       \/ /\ mode \in {"foreground", "capture"} /\ y.state = "live"
          /\ ~y.stopped /\ y.left = Len(list)
          /\ owner' = [p \in Pid |-> IF p \in Stages THEN c ELSE owner[p]]
          /\ slot' = [p \in Pid |-> IF p \in Stages THEN StageIdx(p) ELSE slot[p]]

LEMMA SpawnEndEffect ==
    ASSUME IInv, ListsInv, SpawnEnd \/ SpawnEndBackground
    PROVE  \E c \in Ctx, mode \in Mode, y \in CtxRecord : Entered(c, mode, y)
<1> DEFINE c == cur
           mode == ctxs[c].mode
           r == SpawnedCtx(mode, list)
<1>1. at = "spawn"
  BY DEF SpawnEnd, SpawnEndBackground
<1>2. /\ c \in Ctx /\ mode \in Mode /\ list \in Seq(Pid)
      /\ mode \in {"foreground", "background", "capture"}
      /\ ctxs[c].state = "live" /\ ctxs[c].want = <<>>
  BY <1>1, CallCtx DEF IInv, CallCtxLive, ListsInv, CallKnown, Spawning, CtxRecord
<1>3. /\ r \in CtxRecord /\ Resolve(r) \in CtxRecord /\ r.state = "live"
      /\ r.want = list /\ r.pids = list
      /\ r.left = IF mode = "background" THEN 0 ELSE Len(list)
  BY <1>2, SpawnedCtxType
<1>4. r.mode = mode /\ r.stopped = FALSE /\ DOMAIN r.status = DOMAIN list
  BY DEF SpawnedCtx, NewCtx
<1>5. CASE SpawnEnd
  <2>1. /\ ctxs' = [ctxs EXCEPT ![c] = r] /\ mode # "background" /\ list # <<>>
        /\ at' = "idle" /\ UNCHANGED <<proc, code, news, held, orphan>>
        /\ owner' = [p \in Pid |-> IF p \in Stages THEN c ELSE owner[p]]
        /\ slot' = [p \in Pid |-> IF p \in Stages THEN StageIdx(p) ELSE slot[p]]
    BY <1>2, <1>5 DEF SpawnEnd, Return, kernelVars, IInv, TypeOK
  <2> HIDE DEF r
  <2>2. Entered(c, mode, r)
    BY <1>1, <1>2, <1>3, <1>4, <2>1 DEF Entered
  <2> QED
    BY <1>2, <1>3, <2>2
<1>6. CASE SpawnEndBackground
  <2>1. /\ ctxs' = [ctxs EXCEPT ![c] = Resolve(r)] /\ mode = "background" /\ list # <<>>
        /\ at' = "idle" /\ UNCHANGED <<proc, code, news, held, orphan, slot>>
        /\ owner' = [p \in Pid |-> IF p \in Stages THEN Background ELSE owner[p]]
    BY <1>2, <1>6 DEF SpawnEndBackground, Return, kernelVars, IInv, TypeOK
  <2> HIDE DEF r
  <2> DEFINE y == Resolve(r)
  <2>2. /\ y.mode = r.mode /\ y.want = r.want /\ y.pids = r.pids /\ y.state = "resolved"
        /\ y.status = r.status
    BY <1>3 DEF Resolve, CtxRecord
  <2>3. y \in CtxRecord /\ ctxs' = [ctxs EXCEPT ![c] = y]
    BY <1>3, <2>1
  <2> HIDE DEF y
  <2>4. Entered(c, mode, y)
    BY <1>1, <1>2, <1>3, <1>4, <2>1, <2>2, <2>3 DEF Entered
  <2> QED
    BY <1>2, <2>3, <2>4
<1> QED
  BY <1>5, <1>6

LEMMA EnteredLists ==
    ASSUME IInv, ListsInv, TypeOK', NEW c \in Ctx, NEW mode \in Mode, NEW y \in CtxRecord,
           Entered(c, mode, y)
    PROVE  ListsInv'
<1> USE DEF ListsInv
<1>1. ctxs'[c] = y /\ \A d \in Ctx : d # c => ctxs'[d] = ctxs[d]
  BY DEF Entered, IInv, TypeOK
<1>2. /\ at = "spawn" /\ c = cur /\ Spawning(c)
      /\ y.mode = ctxs[c].mode /\ PidsIn(y.pids) = Stages /\ PidsIn(y.want) = Stages
  BY DEF Entered, CallKnown, Spawning, PidsIn, Stages
<1>3. /\ \A p \in Stages : p \in Pid /\ Born(p) /\ owner[p] = Untracked
      /\ OwnedBy(c) = {}
  BY <1>2, StagesCount DEF IInv, SpawnUnregistered
<1>4. \A p \in Pid : owner'[p] \in Ctx =>
         \/ p \in Stages /\ owner'[p] = c /\ slot'[p] = StageIdx(p)
         \/ p \notin Stages /\ owner'[p] = owner[p] /\ slot'[p] = slot[p] /\ owner[p] # c
  BY <1>3, CtxAssumption DEF Entered, OwnedBy
<1>5. \A d \in Ctx : ctxs'[d].mode = ctxs[d].mode /\ (Spawning(d)' <=> Spawning(d))
  BY <1>1, <1>2 DEF Spawning
<1>6. \A p \in Stages :
         /\ p \notin PidsIn(held)
         /\ \A d \in Ctx : /\ p \notin PidsIn(ctxs[d].want)
                           /\ Spawning(d) => p \notin PidsIn(ctxs[d].pids)
  BY <1>2 DEF FreshList
<1>7. CallKnown' /\ FreshList' /\ ResumesJob'
  BY DEF Entered, CallKnown, FreshList, ResumesJob
<1>8. SlotOfPid'
  <2> SUFFICES ASSUME NEW p \in Pid, owner'[p] \in Ctx
               PROVE  /\ slot'[p] \in DOMAIN ctxs'[owner'[p]].want
                      /\ ctxs'[owner'[p]].want[slot'[p]] = p
    BY DEF SlotOfPid, IsCtxBound, InCall, Entered
  <2>1. CASE p \in Stages /\ owner'[p] = c /\ slot'[p] = StageIdx(p)
    <3>1. StageIdx(p) \in DOMAIN list /\ list[StageIdx(p)] = p
      BY <2>1 DEF Stages, StageIdx
    <3> QED
      BY <1>1, <2>1, <3>1 DEF Entered
  <2>2. CASE p \notin Stages /\ owner'[p] = owner[p] /\ slot'[p] = slot[p] /\ owner[p] # c
    BY <1>1, <2>2 DEF SlotOfPid, IsCtxBound
  <2> QED
    BY <1>4, <2>1, <2>2
<1>9. WantsBorn'
  <2> SUFFICES ASSUME NEW d \in Ctx, NEW p \in PidsIn(ctxs'[d].want) PROVE Born(p)
    BY DEF WantsBorn, Born, Entered
  <2> QED
    BY <1>1, <1>2, <1>3 DEF WantsBorn
<1>10. OwnedListed'
  <2> SUFFICES ASSUME NEW p \in Pid, owner'[p] \in Ctx, Spawning(owner[p])'
               PROVE  p \in PidsIn(ctxs'[owner'[p]].pids)
    BY DEF OwnedListed, IsCtxBound
  <2>1. CASE p \in Stages /\ owner'[p] = c
    BY <1>1, <1>2, <2>1
  <2>2. CASE owner'[p] = owner[p] /\ owner[p] # c
    <3>1. Spawning(owner[p])
      BY <1>5, <2>2 DEF Spawning
    <3> QED
      BY <1>1, <2>2, <3>1 DEF OwnedListed, IsCtxBound
  <2> QED
    BY <1>4, <2>1, <2>2
<1>11. PidsApart'
  <2> SUFFICES ASSUME NEW d \in Ctx, NEW e \in Ctx, Spawning(d)', Spawning(e)', d # e,
                      NEW p \in PidsIn(ctxs'[d].pids)
               PROVE  p \notin PidsIn(ctxs'[e].pids)
    BY DEF PidsApart
  <2>1. Spawning(d) /\ Spawning(e)
    BY <1>5
  <2>2. CASE d = c
    BY <1>1, <1>2, <1>6, <2>1, <2>2
  <2>3. CASE e = c
    BY <1>1, <1>2, <1>6, <2>1, <2>3
  <2>4. CASE d # c /\ e # c
    BY <1>1, <2>1, <2>4 DEF PidsApart
  <2> QED
    BY <2>2, <2>3, <2>4
<1>12. ForkedApart'
  <2> SUFFICES ASSUME NEW d \in Ctx, Spawning(d)', NEW p \in PidsIn(ctxs'[d].pids)
               PROVE  /\ p \notin PidsIn(held')
                      /\ \A e \in Ctx : ctxs'[e].mode = "mixed" => p \notin PidsIn(ctxs'[e].want)
    BY DEF ForkedApart
  <2>1. Spawning(d) /\ held' = held /\ \A e \in Ctx : ctxs'[e].mode = "mixed" => e # c
    BY <1>1, <1>2, <1>5 DEF Entered, Spawning
  <2>2. CASE d = c
    BY <1>1, <1>2, <1>6, <2>1, <2>2
  <2>3. CASE d # c
    BY <1>1, <2>1, <2>3 DEF ForkedApart
  <2> QED
    BY <2>2, <2>3
<1> QED
  BY <1>7, <1>8, <1>9, <1>10, <1>11, <1>12

-----------------------------------------------------------------------------
(* The steps, by their effect.                                             *)

Quiet == \/ UNCHANGED vars \/ Kernel \/ ReapChildren \/ TcsetpgrpShell
         \/ \E pids \in JobPids : TcsetpgrpFg(pids) \/ SendCont(pids)
         \/ SpawnFail \/ SigChldBegin \/ SigChldEnd

Begin(c) == \/ \E mode \in {"foreground", "background", "capture"} : SpawnBegin(c, mode)
            \/ WaitMixed(c)
            \/ \E pids \in JobPids : WaitResume(c, pids)

LEMMA StepKinds ==
    ASSUME [Next]_vars
    PROVE  \/ Quiet
           \/ \E c \in Ctx : Begin(c) \/ CaptureEof(c)
           \/ \E p \in Pid : SpawnStage(p) \/ Reap(p) \/ \E keep \in BOOLEAN : ForkExec(p, keep)
           \/ SpawnEnd \/ SpawnEndBackground
           \/ DrainStage \/ DrainEnd \/ WaitStage \/ WaitEnd
BY DEF Next, JsCall, CallStep, Callback, Quiet, Begin

LEMMA InitLists == ASSUME Init, TypeOK PROVE ListsInv
<1>1. /\ at = "idle" /\ held = <<>> /\ \A p \in Pid : owner[p] = Untracked
      /\ \A c \in Ctx : ctxs[c].want = <<>> /\ ctxs[c].pids = <<>>
  BY DEF Init, FreeCtx, NewCtx
<1>2. CallKnown /\ FreshList /\ ResumesJob
  BY <1>1 DEF CallKnown, FreshList, ResumesJob
<1>3. SlotOfPid /\ OwnedListed
  BY <1>1, CtxAssumption DEF SlotOfPid, OwnedListed, IsCtxBound
<1>4. WantsBorn /\ PidsApart /\ ForkedApart
  BY <1>1, NoPids DEF WantsBorn, PidsApart, ForkedApart
<1> QED
  BY <1>2, <1>3, <1>4 DEF ListsInv

LEMMA StepLists == ASSUME IInv, ListsInv, TypeOK', [Next]_vars PROVE ListsInv'
<1>1. CASE Quiet
  BY <1>1, QuietEffect, QuietLists DEF Quiet, IInv
<1>2. ASSUME NEW c \in Ctx, Begin(c) PROVE ListsInv'
  BY <1>2, BeginEffect, BeginLists DEF Begin, IInv
<1>3. ASSUME NEW c \in Ctx, CaptureEof(c) PROVE ListsInv'
  BY <1>3, CaptureEofEffect, EndedLists
<1>4. CASE WaitEnd
  BY <1>4, WaitEndEffect, EndedLists
<1>5. CASE SpawnEnd \/ SpawnEndBackground
  BY <1>5, SpawnEndEffect, EnteredLists
<1> QED
  BY <1>1, <1>2, <1>3, <1>4, <1>5, StepKinds, ReapLists, ForkExecLists, SpawnStageLists,
     DrainLists, DrainEndLists, WaitStageLists

\* No process is on the lists of two pipelines, or of a pipeline and of a
\* mixed pipeline, and waitForPids is called for what there is to wait for.
THEOREM ListsApart == Spec => []ListsInv
<1>1. Init /\ TypeOK => ListsInv
  BY InitLists
<1>2. IInv /\ ListsInv /\ TypeOK' /\ [Next]_vars => ListsInv'
  BY StepLists
<1> QED
  BY <1>1, <1>2, TypeCorrect, InductiveInvariant, PTL DEF Spec

-----------------------------------------------------------------------------
(* KeptInv.                                                                *)

\* A step that keeps what is parked for the pids a mixed pipeline holds, and
\* for those its waitForPids has yet to come to.
LEMMA KeptFrame ==
    ASSUME IInv, ListsInv, KeptInv, KeepsKinds, held' = held,
           at' = "wait" => UNCHANGED <<at, cur, list>> /\ pos' \in {pos, pos + 1},
           \A p \in PidsIn(held) : Kept(p) => Kept(p)',
           at' = "wait" /\ ctxs[cur].mode = "mixed" =>
               \A i \in DOMAIN list : i >= pos' /\ Kept(list[i]) => Kept(list[i])'
    PROVE  KeptInv'
<1>1. HeldKept'
  BY DEF KeptInv, HeldKept, OneEach
<1>2. MixedKept'
  <2> SUFFICES ASSUME at' = "wait", ctxs'[cur'].mode = "mixed"
               PROVE  /\ held' = <<>> /\ OneEach(list')
                      /\ \A i \in DOMAIN list' : i >= pos' => Kept(list[i])'
    BY DEF MixedKept, Kept
  <2>1. /\ at = "wait" /\ cur \in Ctx /\ cur' = cur /\ list' = list
        /\ pos \in Nat /\ pos' \in {pos, pos + 1} /\ list \in Seq(Pid)
    BY CallCtx DEF IInv
  <2>2. ctxs[cur].mode = "mixed"
    BY <2>1 DEF KeepsKinds
  <2>3. /\ held = <<>> /\ OneEach(list)
        /\ \A i \in DOMAIN list : i >= pos => Kept(list[i])
    BY <2>1, <2>2 DEF KeptInv, MixedKept
  <2>4. \A i \in DOMAIN list : i \in Nat /\ (i >= pos' => i >= pos)
    BY <2>1, LenProperties
  <2> QED
    BY <2>1, <2>2, <2>3, <2>4
<1> QED
  BY <1>1, <1>2 DEF KeptInv

LEMMA QuietKept == ASSUME IInv, ListsInv, KeptInv, TypeOK', Quiet PROVE KeptInv'
<1>1. /\ UNCHANGED <<owner, slot, orphan, ctxs, held, cur, list>>
      /\ \/ UNCHANGED <<at, pos>>
         \/ at = "spawn" /\ at' = "drain"
         \/ at \in {"idle", "reap"} /\ at' \in {"idle", "reap"}
      /\ \A p \in Pid : /\ Born(p) => Born(p)'
                        /\ proc'[p] = "reaped" <=> proc[p] = "reaped"
                        /\ proc[p] = "reaped" => code'[p] = code[p]
                        /\ proc'[p] = "stopped" /\ p \notin news' =>
                             proc[p] = "stopped" /\ p \notin news
  BY QuietEffect DEF Quiet, IInv
<1>2. \A p \in Pid : Kept(p) => Kept(p)'
  BY <1>1 DEF Kept
<1>3. PidsIn(held) \subseteq Pid /\ \A i \in DOMAIN list : list[i] \in Pid
  BY PidsInType, ListsOfPids DEF IInv, TypeOK
<1> QED
  BY <1>1, <1>2, <1>3, SameKinds, KeptFrame

LEMMA BeginKept ==
    ASSUME IInv, ListsInv, KeptInv, TypeOK', NEW c \in Ctx, NEW mode \in Mode,
           NEW want \in Seq(Pid), Begun(c, mode, want)
    PROVE  KeptInv'
<1>1. ctxs'[c].mode = mode
  BY DEF Begun, IInv, TypeOK, NewCtx
<1>2. \A p \in PidsIn(held) : Kept(p)'
  BY DEF Begun, KeptInv, HeldKept, Kept
<1>3. HeldKept'
  <2>1. CASE held' = held
    BY <1>2, <2>1 DEF KeptInv, HeldKept, OneEach
  <2>2. CASE held' = <<>>
    BY <2>2 DEF HeldKept, OneEach, PidsIn
  <2> QED
    BY <2>1, <2>2 DEF Begun
<1>4. MixedKept'
  <2> SUFFICES ASSUME at' = "wait", ctxs'[cur'].mode = "mixed"
               PROVE  /\ held' = <<>> /\ OneEach(list')
                      /\ \A i \in DOMAIN list' : i >= pos' => Kept(list[i])'
    BY DEF MixedKept, Kept
  <2>1. list' = held /\ held' = <<>>
    BY <1>1 DEF Begun
  <2> QED
    BY <1>2, <2>1 DEF KeptInv, HeldKept, OneEach, PidsIn
<1> QED
  BY <1>3, <1>4 DEF KeptInv

LEMMA EndedKept ==
    ASSUME IInv, ListsInv, KeptInv, TypeOK', at' = "idle",
           UNCHANGED <<proc, code, news, held, owner, slot, orphan>>,
           NEW c \in Ctx, NEW x \in CtxRecord, NEW y \in CtxRecord, Ended(c, x, y)
    PROVE  KeptInv'
<1>1. KeepsKinds
  BY KindsKept DEF Ended, IInv
<1> QED
  BY <1>1, KeptFrame DEF Kept

LEMMA DrainKept == ASSUME IInv, ListsInv, KeptInv, TypeOK', DrainStage PROVE KeptInv'
<1>1. /\ at = "drain" /\ at' = "drain"
      /\ UNCHANGED <<owner, orphan, code, ctxs, held, cur, list>>
  BY DrainStageEffect
<1>2. PICK p \in Pid : /\ p \in Stages /\ proc' = [proc EXCEPT ![p] = "reaped"]
                       /\ news' = news \ {p}
  BY DrainStageEffect
<1>3. p \notin PidsIn(held)
  BY <1>1, <1>2 DEF ListsInv, FreshList
<1>4. \A q \in Pid : q # p => proc'[q] = proc[q] /\ (q \in news' <=> q \in news)
  BY <1>2 DEF IInv, TypeOK
<1>5. PidsIn(held) \subseteq Pid
  BY PidsInType DEF IInv, TypeOK
<1>6. \A q \in PidsIn(held) : Kept(q) => Kept(q)'
  BY <1>1, <1>3, <1>4, <1>5 DEF Kept
<1> QED
  BY <1>1, <1>6, SameKinds, KeptFrame

LEMMA DrainEndKept == ASSUME IInv, ListsInv, KeptInv, TypeOK', DrainEnd PROVE KeptInv'
<1>1. /\ at' = "idle" /\ cur \in Ctx
      /\ UNCHANGED <<proc, code, news, held, owner, slot, orphan>>
  BY DrainEndEffect
<1>2. PICK y \in CtxRecord :
         /\ ctxs' = [ctxs EXCEPT ![cur] = y] /\ ctxs[cur].state = "live"
         /\ Kin(ctxs[cur], y) /\ y.pids = ctxs[cur].pids
  BY DrainEndEffect
<1>3. KeepsKinds
  BY <1>1, <1>2, KindsKept DEF Kin, IInv
<1> QED
  BY <1>1, <1>3, KeptFrame DEF Kept

\* The pid waitForPids has come to is not one a mixed pipeline still holds,
\* and no other entry of a mixed pipeline's list.
LEMMA WaitedNotHeld ==
    ASSUME IInv, ListsInv, KeptInv, at = "wait", pos \in DOMAIN list
    PROVE  /\ list[pos] \notin PidsIn(held)
           /\ ctxs[cur].mode = "mixed" =>
                \A i \in DOMAIN list : i >= pos + 1 => list[i] # list[pos]
<1>1. ctxs[cur].mode = "mixed" \/ ctxs[cur].mode = "resume"
  BY DEF ListsInv, CallKnown
<1>2. CASE ctxs[cur].mode = "mixed"
  <2>1. held = <<>> /\ OneEach(list)
    BY <1>2 DEF KeptInv, MixedKept
  <2>2. pos \in Nat
    BY DEF IInv, TypeOK
  <2> QED
    BY <2>1, <2>2, NoPids DEF OneEach
<1>3. CASE ctxs[cur].mode = "resume"
  <2>1. PICK d \in Ctx : Spawning(d) /\ list = ctxs[d].pids
    BY <1>3 DEF ListsInv, ResumesJob
  <2> QED
    BY <1>3, <2>1 DEF ListsInv, ForkedApart, PidsIn
<1> QED
  BY <1>1, <1>2, <1>3

LEMMA WaitStageKept == ASSUME IInv, ListsInv, KeptInv, TypeOK', WaitStage PROVE KeptInv'
<1>1. /\ at = "wait" /\ pos' = pos + 1
      /\ UNCHANGED <<proc, code, news, held, at, cur, list>>
  BY WaitStageEffect
<1>2. PICK c \in Ctx, p \in Pid, x \in CtxRecord, y \in CtxRecord :
         /\ Turn(c, p, x, y)
         /\ TurnStop(p, x, y) \/ TurnExit(p, x, y) \/ TurnRegister(c, p, x, y)
  BY WaitStageEffect
<1>3. KeepsKinds
  BY <1>2, KindsKept DEF Kin, IInv, Turn
<1>4. \A q \in Pid : q # p => owner'[q] = owner[q] /\ orphan'[q] = orphan[q]
  BY <1>2 DEF TurnStop, TurnExit, TurnRegister, IInv, TypeOK
<1>5. \A q \in Pid : q # p /\ Kept(q) => Kept(q)'
  BY <1>1, <1>4 DEF Kept
<1>6. /\ p = list[pos] /\ pos \in DOMAIN list /\ PidsIn(held) \subseteq Pid
      /\ \A i \in DOMAIN list : list[i] \in Pid
  BY <1>2, PidsInType, ListsOfPids DEF Turn, IInv, TypeOK
<1>7. \A q \in PidsIn(held) : Kept(q) => Kept(q)'
  BY <1>1, <1>5, <1>6, WaitedNotHeld
<1>8. ASSUME ctxs[cur].mode = "mixed", NEW i \in DOMAIN list, i >= pos', Kept(list[i])
      PROVE  Kept(list[i])'
  <2>1. list[i] \in Pid /\ list[i] # p
    BY <1>1, <1>6, <1>8, WaitedNotHeld
  <2> QED
    BY <1>1, <1>4, <1>8, <2>1 DEF Kept
<1> QED
  BY <1>1, <1>3, <1>7, <1>8, KeptFrame

\* What onSigChld does with a pid leaves its status where waitForPids finds
\* it, if no promise waits for it.
LEMMA ReapKept == ASSUME IInv, ListsInv, KeptInv, TypeOK', NEW p \in Pid, Reap(p) PROVE KeptInv'
<1>1. at' = "reap" /\ held' = held
  BY ReapFrame
<1>2. /\ code' = code
      /\ \A q \in Pid : q # p => proc'[q] = proc[q] /\ (q \in news' <=> q \in news)
      /\ proc'[p] = IF proc[p] = "zombie" THEN "reaped" ELSE proc[p]
      /\ proc[p] \in {"zombie", "stopped"}
  BY DEF Reap, Collect, Reportable, IInv, TypeOK
<1>3. PidsIn(held) \subseteq Pid
  BY PidsInType DEF IInv, TypeOK
<1>4. ASSUME \A q \in Pid : Kept(q) => Kept(q)', KeepsKinds
      PROVE  KeptInv'
  BY <1>1, <1>3, <1>4, KeptFrame
<1>5. CASE ReapUntracked(p)
  <2>1. /\ UNCHANGED <<owner, ctxs>>
        /\ \A q \in Pid : q # p => orphan'[q] = orphan[q]
        /\ orphan[p] # NoEntry => orphan'[p] = StatusOf(p)
    BY <1>5 DEF ReapUntracked, IInv, TypeOK
  <2>2. code[p] # NoEntry /\ Stopped # NoEntry
    BY CodeAssumption DEF IInv, TypeOK, Stopped, NoEntry
  <2>3. ASSUME NEW q \in Pid, Kept(q) PROVE Kept(q)'
    <3>1. CASE q = p
      BY <1>2, <2>1, <2>2, <2>3, <3>1 DEF Kept, StatusOf
    <3>2. CASE q # p
      BY <1>2, <2>1, <2>3, <3>2 DEF Kept
    <3> QED
      BY <3>1, <3>2
  <2> QED
    BY <1>4, <2>1, <2>3, SameKinds
<1>6. ASSUME owner[p] # Untracked, KeepsKinds,
             \A q \in Pid : owner[q] = Untracked => owner'[q] = Untracked /\ orphan'[q] = orphan[q]
      PROVE  KeptInv'
  BY <1>2, <1>4, <1>6 DEF Kept
<1>7. CASE ReapBackground(p)
  <2>1. \A q \in Pid : owner[q] = Untracked => owner'[q] = Untracked /\ orphan'[q] = orphan[q]
    BY <1>7 DEF ReapBackground, ErasePending, IInv, TypeOK
  <2> QED
    BY <1>6, <1>7, <2>1, CtxAssumption, SameKinds DEF ReapBackground, Background, Untracked
<1>8. CASE ReapStopped(p)
  <2>1. PICK c \in Ctx, x \in CtxRecord, y \in CtxRecord : ReapedStop(c, p, x, y)
    BY <1>8, ReapStoppedEffect
  <2>2. Spawning(c) => PidsIn(y.pids) = PidsIn(ctxs[c].pids)
    BY <2>1, StoppedPids
  <2>3. KeepsKinds
    BY <2>1, <2>2, KindsKept DEF Kin, IInv, ReapedStop
  <2>4. \A q \in Pid : owner[q] = Untracked => owner'[q] = Untracked /\ orphan'[q] = orphan[q]
    BY <2>1, CtxAssumption DEF ReapedStop, OwnedBy
  <2> QED
    BY <1>6, <2>1, <2>3, <2>4, CtxAssumption DEF ReapedStop
<1>9. CASE ReapStage(p)
  <2>1. PICK c \in Ctx, x \in CtxRecord, y \in CtxRecord : ReapedOne(c, p, x, y)
    BY <1>9, ReapStageEffect
  <2>2. KeepsKinds
    BY <2>1, KindsKept DEF Kin, IInv, ReapedOne
  <2>3. \A q \in Pid : owner[q] = Untracked => owner'[q] = Untracked /\ orphan'[q] = orphan[q]
    BY <2>1 DEF ReapedOne, ErasePending, IInv, TypeOK
  <2> QED
    BY <1>6, <2>1, <2>2, <2>3, CtxAssumption DEF ReapedOne
<1> QED
  BY <1>5, <1>7, <1>8, <1>9 DEF Reap

LEMMA ForkExecKept ==
    ASSUME IInv, ListsInv, KeptInv, TypeOK', NEW p \in Pid, NEW keep \in BOOLEAN, ForkExec(p, keep)
    PROVE  KeptInv'
<1>1. /\ at' = "idle" /\ proc[p] = "unborn"
      /\ proc' = [proc EXCEPT ![p] = "running"]
      /\ orphan' = [orphan EXCEPT ![p] = Unreaped]
      /\ UNCHANGED <<owner, code, news, ctxs>>
      /\ held' = IF keep THEN Append(held, p) ELSE held
  BY DEF ForkExec, callVars
<1>2. p \notin PidsIn(held) /\ owner[p] = Untracked
  BY <1>1, UnbornOnNoList DEF Born, IInv, UnbornUnknown
<1>3. held \in Seq(Pid) /\ PidsIn(held) \subseteq Pid
  BY PidsInType DEF IInv, TypeOK
<1>4. Kept(p)'
  BY <1>1, <1>2, CodeAssumption DEF Kept, IInv, TypeOK, Unreaped, NoEntry
<1>5. \A q \in PidsIn(held) : Kept(q)'
  BY <1>1, <1>2, <1>3 DEF KeptInv, HeldKept, Kept, IInv, TypeOK
<1>6. OneEach(held')
  <2>1. CASE keep
    <3>1. /\ DOMAIN held = 1..Len(held) /\ DOMAIN held' = 1..(Len(held) + 1)
          /\ Len(held) \in Nat
          /\ \A i \in DOMAIN held : held'[i] = held[i] /\ held[i] # p
          /\ held'[Len(held) + 1] = p
      BY <1>1, <1>2, <1>3, <2>1, AppendPid DEF PidsIn
    <3>2. \A i, j \in DOMAIN held : held[i] = held[j] => i = j
      BY DEF KeptInv, HeldKept, OneEach
    <3>3. \A i \in DOMAIN held' : i \in DOMAIN held \/ i = Len(held) + 1
      BY <3>1
    <3> QED
      BY <3>1, <3>2, <3>3 DEF OneEach
  <2>2. CASE ~keep
    BY <1>1, <2>2 DEF KeptInv, HeldKept
  <2> QED
    BY <2>1, <2>2
<1>7. PidsIn(held') \subseteq PidsIn(held) \cup {p}
  BY <1>1, <1>3, AppendPid
<1>8. HeldKept'
  BY <1>4, <1>5, <1>6, <1>7 DEF HeldKept, OneEach
<1>9. MixedKept'
  BY <1>1 DEF MixedKept
<1> QED
  BY <1>8, <1>9 DEF KeptInv

LEMMA SpawnStageKept ==
    ASSUME IInv, ListsInv, KeptInv, TypeOK', NEW p \in Pid, SpawnStage(p)
    PROVE  KeptInv'
<1>1. /\ at' = "spawn" /\ proc[p] = "unborn"
      /\ proc' = [proc EXCEPT ![p] = "running"]
      /\ UNCHANGED <<owner, orphan, code, news, ctxs, held>>
  BY DEF SpawnStage, tableVars
<1>2. p \notin PidsIn(held) /\ PidsIn(held) \subseteq Pid
  BY <1>1, UnbornOnNoList, PidsInType DEF Born, IInv, TypeOK
<1>3. \A q \in PidsIn(held) : Kept(q) => Kept(q)'
  BY <1>1, <1>2 DEF Kept, IInv, TypeOK
<1> QED
  BY <1>1, <1>3, SameKinds, KeptFrame

LEMMA EnteredKept ==
    ASSUME IInv, ListsInv, KeptInv, TypeOK', NEW c \in Ctx, NEW mode \in Mode,
           NEW y \in CtxRecord, Entered(c, mode, y)
    PROVE  KeptInv'
<1>1. at = "spawn" /\ at' = "idle" /\ UNCHANGED <<proc, code, news, held, orphan>>
  BY DEF Entered
<1>2. PidsIn(held) \subseteq Pid /\ \A p \in PidsIn(held) : p \notin Stages
  BY <1>1, PidsInType DEF IInv, TypeOK, ListsInv, FreshList
<1>3. \A p \in PidsIn(held) : owner'[p] = owner[p]
  BY <1>2 DEF Entered
<1>4. HeldKept'
  BY <1>1, <1>3 DEF KeptInv, HeldKept, Kept
<1>5. MixedKept'
  BY <1>1 DEF MixedKept
<1> QED
  BY <1>4, <1>5 DEF KeptInv

LEMMA InitKept == ASSUME Init PROVE KeptInv
BY NoPids DEF Init, KeptInv, HeldKept, MixedKept, OneEach

LEMMA StepKept == ASSUME IInv, ListsInv, KeptInv, TypeOK', [Next]_vars PROVE KeptInv'
<1>1. CASE Quiet
  BY <1>1, QuietKept
<1>2. ASSUME NEW c \in Ctx, Begin(c) PROVE KeptInv'
  BY <1>2, BeginEffect, BeginKept DEF Begin, IInv
<1>3. ASSUME NEW c \in Ctx, CaptureEof(c) PROVE KeptInv'
  BY <1>3, CaptureEofEffect, EndedKept
<1>4. CASE WaitEnd
  BY <1>4, WaitEndEffect, EndedKept
<1>5. CASE SpawnEnd \/ SpawnEndBackground
  BY <1>5, SpawnEndEffect, EnteredKept
<1> QED
  BY <1>1, <1>2, <1>3, <1>4, <1>5, StepKinds, ReapKept, ForkExecKept, SpawnStageKept,
     DrainKept, DrainEndKept, WaitStageKept

\* Whatever is parked for the pids of forkExec is what became of them.
THEOREM ParkedStatusKept == Spec => []KeptInv
<1>1. Init => KeptInv
  BY InitKept
<1>2. IInv /\ ListsInv /\ KeptInv /\ TypeOK' /\ [Next]_vars => KeptInv'
  BY StepKept
<1> QED
  BY <1>1, <1>2, TypeCorrect, InductiveInvariant, ListsApart, PTL DEF Spec

\* No SIGCHLD handled between forkExec and waitForPids loses the status of a
\* pid a mixed pipeline still holds.
THEOREM NoStatusLost == Spec => []HeldStatusKept
<1>1. KeptInv => HeldStatusKept
  BY DEF KeptInv, HeldKept, Kept, PidsIn, HeldStatusKept
<1> QED
  BY <1>1, ParkedStatusKept, PTL

-----------------------------------------------------------------------------
(* SlotsInv.                                                               *)

\* What SlotsInv says of one context.
Counted(c) == LET x == ctxs[c]
              IN x.state = "live" /\ ~x.stopped => x.left >= Cardinality(OpenSlots(c))

Faithful(c) ==
    LET x == ctxs[c]
    IN x.state = "resolved" /\ ~x.stopped /\ x.want # <<>> /\ x.mode # "background" =>
         /\ \A i \in DOMAIN x.want : proc[x.want[i]] = "reaped" /\ x.status[i] = code[x.want[i]]
         /\ x.exit = code[x.want[Len(x.want)]]

SlotsOf(c) == DOMAIN ctxs[c].status = DOMAIN ctxs[c].want /\ Counted(c) /\ Faithful(c)

LEMMA SlotsOfEach ==
    /\ SlotsInv <=> ParkedFaithful /\ \A c \in Ctx : SlotsOf(c)
    /\ SlotsInv' <=> ParkedFaithful' /\ \A c \in Ctx : SlotsOf(c)'
BY DEF SlotsInv, SlotEach, OpenCounted, StatusFaithful, SlotsOf, Counted, Faithful

LEMMA WantPids ==
    ASSUME TypeOK, NEW c \in Ctx
    PROVE  /\ ctxs[c].want \in Seq(Pid) /\ Len(ctxs[c].want) \in Nat
           /\ DOMAIN ctxs[c].want = 1..Len(ctxs[c].want)
           /\ \A i \in DOMAIN ctxs[c].want : ctxs[c].want[i] \in Pid
           /\ IsFiniteSet(OpenSlots(c)) /\ Cardinality(OpenSlots(c)) \in Nat
<1>1. ctxs[c].want \in Seq(Pid)
  BY DEF TypeOK, CtxRecord
<1>2. /\ Len(ctxs[c].want) \in Nat /\ DOMAIN ctxs[c].want = 1..Len(ctxs[c].want)
      /\ \A i \in DOMAIN ctxs[c].want : ctxs[c].want[i] \in Pid
  BY <1>1, ElementOfSeq, LenProperties
<1>3. OpenSlots(c) \in SUBSET (1..Len(ctxs[c].want)) /\ IsFiniteSet(1..Len(ctxs[c].want))
  BY <1>2, FS_Interval DEF OpenSlots, Seen
<1> QED
  BY <1>1, <1>2, <1>3, FS_Subset, FS_CardinalityType

\* Who has been reaped stays so, with the code it exited with.
ReapedStays == \A p \in Pid : proc[p] = "reaped" => proc'[p] = "reaped" /\ code'[p] = code[p]

LEMMA ReapedForGood == ASSUME TypeOK, [Next]_vars PROVE ReapedStays
<1>1. CASE Quiet
  BY <1>1, QuietEffect DEF Quiet, ReapedStays
<1>2. ASSUME NEW p \in Pid, SpawnStage(p) \/ Reap(p) \/ \E keep \in BOOLEAN : ForkExec(p, keep)
      PROVE  ReapedStays
  BY <1>2 DEF SpawnStage, Reap, Collect, Reportable, ForkExec, ReapedStays, TypeOK
<1>3. CASE DrainStage
  BY <1>3 DEF DrainStage, Collect, ReapedStays, TypeOK
<1>4. CASE SpawnEnd \/ SpawnEndBackground \/ DrainEnd \/ WaitStage \/ WaitEnd
  BY <1>4 DEF SpawnEnd, SpawnEndBackground, DrainEnd, WaitStage, WaitEnd, kernelVars, ReapedStays
<1>5. ASSUME NEW c \in Ctx, Begin(c) \/ CaptureEof(c) PROVE ReapedStays
  BY <1>5 DEF Begin, SpawnBegin, WaitMixed, WaitResume, WaitBegin, CaptureEof, kernelVars,
              ReapedStays
<1> QED
  BY <1>1, <1>2, <1>3, <1>4, <1>5, StepKinds

LEMMA ParkedStays ==
    ASSUME IInv, ListsInv, ParkedFaithful, TypeOK', [Next]_vars
    PROVE  ParkedFaithful'
<1>0. ReapedStays /\ TypeOK
  BY ReapedForGood DEF IInv
<1>1. ASSUME \A p \in Pid : orphan'[p] \in ExitCode =>
                \/ orphan'[p] = orphan[p]
                \/ proc'[p] = "reaped" /\ orphan'[p] = code'[p]
      PROVE  ParkedFaithful'
  BY <1>0, <1>1 DEF ParkedFaithful, ReapedStays
<1>2. ASSUME UNCHANGED orphan PROVE ParkedFaithful'
  BY <1>1, <1>2
<1>3. CASE Quiet
  BY <1>0, <1>2, <1>3, QuietEffect DEF Quiet
<1>4. ASSUME NEW p \in Pid, SpawnStage(p) PROVE ParkedFaithful'
  BY <1>2, <1>4 DEF SpawnStage, tableVars
<1>5. ASSUME NEW p \in Pid, NEW keep \in BOOLEAN, ForkExec(p, keep) PROVE ParkedFaithful'
  <2>1. orphan' = [orphan EXCEPT ![p] = Unreaped]
    BY <1>5 DEF ForkExec
  <2> QED
    BY <1>0, <1>1, <2>1, CodeAssumption DEF TypeOK
<1>6. ASSUME NEW p \in Pid, Reap(p) PROVE ParkedFaithful'
  <2>1. proc'[p] = IF proc[p] = "zombie" THEN "reaped" ELSE proc[p]
    BY <1>0, <1>6 DEF Reap, Collect, TypeOK
  <2>2. CASE ReapUntracked(p)
    <3>1. code' = code /\ \A q \in Pid : orphan'[q] = orphan[q] \/ (q = p /\ orphan'[q] = StatusOf(p))
      BY <1>0, <1>6, <2>2 DEF ReapUntracked, TypeOK, Reap, Collect
    <3> QED
      BY <1>1, <2>1, <3>1, CodeAssumption DEF StatusOf
  <2>3. CASE ReapBackground(p) \/ ReapStage(p)
    BY <1>2, <2>3 DEF ReapBackground, ReapStage
  <2>4. CASE ReapStopped(p)
    <3>1. \A q \in Pid : orphan'[q] \in {orphan[q], Unreaped}
      BY <2>4 DEF ReapStopped
    <3> QED
      BY <1>1, <3>1, CodeAssumption
  <2> QED
    BY <1>6, <2>2, <2>3, <2>4 DEF Reap
<1>7. CASE WaitStage
  <2>1. PICK c \in Ctx, p \in Pid, x \in CtxRecord, y \in CtxRecord :
           TurnStop(p, x, y) \/ TurnExit(p, x, y) \/ TurnRegister(c, p, x, y)
    BY <1>7, WaitStageEffect
  <2>2. \A q \in Pid : orphan'[q] \in {orphan[q], Unreaped, NoEntry}
    BY <1>0, <2>1 DEF TurnStop, TurnExit, TurnRegister, TypeOK
  <2> QED
    BY <1>1, <2>2, CodeAssumption
<1>8. CASE SpawnEnd \/ SpawnEndBackground \/ DrainStage \/ DrainEnd \/ WaitEnd
  BY <1>2, <1>8 DEF SpawnEnd, SpawnEndBackground, DrainStage, DrainEnd, WaitEnd, tableVars
<1>9. ASSUME NEW c \in Ctx, Begin(c) \/ CaptureEof(c) PROVE ParkedFaithful'
  BY <1>2, <1>9 DEF Begin, SpawnBegin, WaitMixed, WaitResume, WaitBegin, CaptureEof, tableVars
<1> QED
  BY <1>3, <1>4, <1>5, <1>6, <1>7, <1>8, <1>9, StepKinds

\* A slot that is filled stays so, if its context is left alone.
LEMMA OtherSlots ==
    ASSUME TypeOK, ReapedStays, NEW d \in Ctx, SlotsOf(d), ctxs'[d] = ctxs[d],
           InCall(d) => InCall(d)' /\ (pos' = pos \/ ctxs[d].want = <<>>)
    PROVE  SlotsOf(d)'
<1>1. \A i \in DOMAIN ctxs[d].want : Filled(d, i) => Filled(d, i)'
  BY WantPids DEF Filled, ReapedStays
<1>2. Seen(d)' \subseteq Seen(d)
  BY DEF Seen
<1>3. OpenSlots(d)' \subseteq OpenSlots(d)
  BY <1>1, <1>2 DEF OpenSlots, Seen
<1>4. Cardinality(OpenSlots(d)') <= Cardinality(OpenSlots(d)) /\ Cardinality(OpenSlots(d)') \in Nat
  BY <1>3, WantPids, FS_Subset, FS_CardinalityType
<1>5. Counted(d)'
  <2>1. ctxs[d].left \in Int /\ Cardinality(OpenSlots(d)) \in Nat
    BY WantPids DEF TypeOK, CtxRecord
  <2> QED
    BY <1>4, <2>1 DEF SlotsOf, Counted
<1>6. Faithful(d)'
  <2>1. ctxs[d].want # <<>> => Len(ctxs[d].want) \in DOMAIN ctxs[d].want
    BY WantPids, EmptySeq
  <2> QED
    BY <2>1, WantPids DEF SlotsOf, Faithful, ReapedStays
<1> QED
  BY <1>5, <1>6 DEF SlotsOf

LEMMA SlotsFrame ==
    ASSUME IInv, SlotsInv, TypeOK', ReapedStays, ParkedFaithful', ctxs' = ctxs,
           \A d \in Ctx : InCall(d) => InCall(d)' /\ (pos' = pos \/ ctxs[d].want = <<>>)
    PROVE  SlotsInv'
<1>1. \A d \in Ctx : SlotsOf(d)
  BY SlotsOfEach
<1>2. ASSUME NEW d \in Ctx PROVE SlotsOf(d)'
  BY <1>1, OtherSlots DEF IInv
<1> QED
  BY <1>2, SlotsOfEach

LEMMA SlotsWritten ==
    ASSUME IInv, SlotsInv, TypeOK', ReapedStays, ParkedFaithful',
           NEW c \in Ctx, NEW y \in CtxRecord, ctxs' = [ctxs EXCEPT ![c] = y], SlotsOf(c)',
           at \in {"spawn", "drain", "wait"} => c = cur
    PROVE  SlotsInv'
<1>1. \A d \in Ctx : SlotsOf(d)
  BY SlotsOfEach
<1>2. ASSUME NEW d \in Ctx, d # c PROVE SlotsOf(d)'
  <2>1. ~InCall(d) /\ ctxs'[d] = ctxs[d] /\ TypeOK
    BY <1>2 DEF InCall, IInv, TypeOK
  <2> QED
    BY <1>1, <2>1, OtherSlots
<1> QED
  BY <1>2, SlotsOfEach

\* The steps that write no context.
LEMMA UnwrittenSlots ==
    ASSUME IInv, ListsInv, SlotsInv, TypeOK', ReapedStays, ParkedFaithful',
           \/ Quiet \/ DrainStage
           \/ \E p \in Pid : \/ SpawnStage(p)
                             \/ \E keep \in BOOLEAN : ForkExec(p, keep)
                             \/ Reap(p) /\ (ReapUntracked(p) \/ ReapBackground(p))
    PROVE  SlotsInv'
<1>1. \A d \in Ctx : InCall(d) /\ at \in {"spawn", "drain"} => ctxs[d].want = <<>>
  BY DEF ListsInv, CallKnown, InCall
<1>2. CASE Quiet
  <2>1. /\ UNCHANGED <<ctxs, cur>>
        /\ \/ UNCHANGED <<at, pos>>
           \/ at = "spawn" /\ at' = "drain"
           \/ at \in {"idle", "reap"} /\ at' \in {"idle", "reap"}
    BY <1>2, QuietEffect DEF Quiet, IInv
  <2>2. \A d \in Ctx : InCall(d) => InCall(d)' /\ (pos' = pos \/ ctxs[d].want = <<>>)
    BY <1>1, <2>1 DEF InCall
  <2> QED
    BY <2>1, <2>2, SlotsFrame
<1>3. CASE DrainStage
  <2>1. at = "drain" /\ UNCHANGED <<ctxs, at, cur>>
    BY <1>3, DrainStageEffect
  <2> QED
    BY <1>1, <2>1, SlotsFrame DEF InCall
<1>4. ASSUME NEW p \in Pid,
             \/ SpawnStage(p)
             \/ \E keep \in BOOLEAN : ForkExec(p, keep)
             \/ Reap(p) /\ (ReapUntracked(p) \/ ReapBackground(p))
      PROVE  SlotsInv'
  <2>1. UNCHANGED <<ctxs, at, cur, pos>>
    BY <1>4 DEF SpawnStage, ForkExec, Reap, ReapUntracked, ReapBackground, callVars
  <2> QED
    BY <2>1, SlotsFrame DEF InCall
<1> QED
  BY <1>2, <1>3, <1>4

LEMMA BeginSlots ==
    ASSUME IInv, ListsInv, SlotsInv, TypeOK', ReapedStays, ParkedFaithful',
           NEW c \in Ctx, NEW mode \in Mode, NEW want \in Seq(Pid), Begun(c, mode, want)
    PROVE  SlotsInv'
<1> DEFINE y == NewCtx(mode, want)
<1>1. /\ y \in CtxRecord /\ y.state = "live" /\ y.left = 0
      /\ y.want = want /\ DOMAIN y.status = DOMAIN want
  BY NewCtxType DEF NewCtx
<1> HIDE DEF y
<1>2. ctxs' = [ctxs EXCEPT ![c] = y] /\ ctxs'[c] = y
  BY DEF Begun, IInv, TypeOK, y
<1>3. OpenSlots(c)' = {}
  <2>1. InCall(c)' /\ pos' = 1
    BY DEF Begun, InCall
  <2>2. \A i \in DOMAIN ctxs'[c].want : ~(i < 1)
    BY <1>1, <1>2, LenProperties
  <2> QED
    BY <2>1, <2>2 DEF OpenSlots, Seen
<1>4. SlotsOf(c)'
  <2>1. Counted(c)'
    BY <1>1, <1>2, <1>3, FS_EmptySet DEF Counted
  <2> QED
    BY <1>1, <1>2, <2>1 DEF SlotsOf, Faithful
<1> QED
  BY <1>1, <1>2, <1>4, SlotsWritten DEF Begun

\* A promise that waits for no more pids has all its slots filled.
LEMMA AllFilled ==
    ASSUME TypeOK, NEW c \in Ctx, OpenSlots(c) = {}, Seen(c) = DOMAIN ctxs[c].want
    PROVE  Faithful(c)
<1>1. \A i \in DOMAIN ctxs[c].want : Filled(c, i)
  BY DEF OpenSlots
<1>2. ctxs[c].want # <<>> => Len(ctxs[c].want) \in DOMAIN ctxs[c].want
  BY WantPids, EmptySeq
<1> QED
  BY <1>1, <1>2 DEF Faithful, Filled

LEMMA AllFilledNext ==
    ASSUME TypeOK', NEW c \in Ctx, OpenSlots(c)' = {}, Seen(c)' = DOMAIN ctxs'[c].want
    PROVE  Faithful(c)'
<1>1. \A i \in DOMAIN ctxs'[c].want : Filled(c, i)'
  BY DEF OpenSlots
<1>2. ctxs'[c].want \in Seq(Pid)
  BY DEF TypeOK, CtxRecord
<1>3. ctxs'[c].want # <<>> => Len(ctxs'[c].want) \in DOMAIN ctxs'[c].want
  BY <1>2, EmptySeq, LenProperties
<1> QED
  BY <1>1, <1>3 DEF Faithful, Filled

LEMMA EndedSlots ==
    ASSUME IInv, ListsInv, SlotsInv, TypeOK', ReapedStays, ParkedFaithful', at' = "idle",
           UNCHANGED <<proc, code, news, held, owner, slot, orphan>>,
           NEW c \in Ctx, NEW x \in CtxRecord, NEW y \in CtxRecord, Ended(c, x, y),
           at = "idle" \/ (at = "wait" /\ c = cur /\ pos > Len(list))
    PROVE  SlotsInv'
<1>1. ctxs'[c] = y /\ ctxs[c] = x /\ TypeOK
  BY DEF Ended, IInv, TypeOK
<1>2. /\ y.want = x.want /\ y.status = x.status /\ y.exit = x.exit /\ y.left = x.left
      /\ y.stopped = x.stopped /\ x.state = "live"
      /\ y.state = IF x.left > 0 THEN "live" ELSE "resolved"
      /\ x.left \in Int
  BY DEF Ended, SameRecord, CtxRecord
<1>3. Seen(c) = DOMAIN x.want /\ Seen(c)' = DOMAIN x.want
  <2>1. at = "wait" => ctxs[c].want = list
    BY DEF ListsInv, CallKnown
  <2>2. /\ list \in Seq(Pid) /\ pos \in Nat
        /\ DOMAIN list = 1..Len(list) /\ Len(list) \in Nat
    BY LenProperties DEF IInv, TypeOK
  <2>3. at = "wait" => \A i \in DOMAIN x.want : i < pos
    BY <1>1, <2>1, <2>2
  <2> QED
    BY <1>1, <1>2, <2>3 DEF Seen, InCall
<1>4. OpenSlots(c)' = OpenSlots(c)
  BY <1>1, <1>2, <1>3 DEF OpenSlots, Filled
<1>5. Counted(c) /\ DOMAIN x.status = DOMAIN x.want
  BY <1>1, SlotsOfEach DEF SlotsOf
<1>6. SlotsOf(c)'
  <2>1. Counted(c)'
    BY <1>1, <1>2, <1>4, <1>5 DEF Counted
  <2>2. Faithful(c)'
    <3> SUFFICES ASSUME y.state = "resolved", ~y.stopped PROVE Faithful(c)'
      BY <1>1 DEF Faithful
    <3>1. x.left >= Cardinality(OpenSlots(c)) /\ ~(x.left > 0)
      BY <1>1, <1>2, <1>5 DEF Counted
    <3>2. OpenSlots(c)' = {}
      BY <1>1, <1>2, <1>4, <3>1, WantPids, FS_EmptySet
    <3> QED
      BY <1>1, <1>2, <1>3, <3>2, AllFilledNext
  <2> QED
    BY <1>1, <1>2, <1>5, <2>1, <2>2 DEF SlotsOf
<1> QED
  BY <1>6, SlotsWritten DEF Ended

LEMMA DrainEndSlots ==
    ASSUME IInv, ListsInv, SlotsInv, TypeOK', ReapedStays, ParkedFaithful', DrainEnd
    PROVE  SlotsInv'
<1>1. at = "drain" /\ cur \in Ctx
  BY DrainEndEffect
<1>2. PICK y \in CtxRecord : /\ ctxs' = [ctxs EXCEPT ![cur] = y]
                             /\ Kin(ctxs[cur], y) /\ y.state = "resolved"
  BY DrainEndEffect
<1>3. PICK c \in Ctx : c = cur
  BY <1>1
<1>4. ctxs'[c] = y
  BY <1>2, <1>3 DEF IInv, TypeOK
<1>5. y.want = <<>> /\ DOMAIN y.status = DOMAIN y.want
  BY <1>1, <1>2, <1>3, SlotsOfEach DEF Kin, ListsInv, CallKnown, SlotsOf
<1>6. SlotsOf(c)'
  BY <1>2, <1>4, <1>5 DEF SlotsOf, Counted, Faithful
<1> QED
  BY <1>2, <1>3, <1>6, SlotsWritten

\* The slot at pos is filled, or counted from now on.
LEMMA WaitStageSlots ==
    ASSUME IInv, ListsInv, SlotsInv, TypeOK', ReapedStays, ParkedFaithful', WaitStage
    PROVE  SlotsInv'
<1>1. /\ at = "wait" /\ pos' = pos + 1
      /\ UNCHANGED <<proc, code, news, held, at, cur, list>>
  BY WaitStageEffect
<1>2. PICK c \in Ctx, p \in Pid, x \in CtxRecord, y \in CtxRecord :
         /\ Turn(c, p, x, y)
         /\ TurnStop(p, x, y) \/ TurnExit(p, x, y) \/ TurnRegister(c, p, x, y)
  BY WaitStageEffect
<1>3. /\ ctxs'[c] = y /\ ctxs[c] = x /\ TypeOK /\ c = cur /\ p = list[pos] /\ pos \in DOMAIN list
      /\ x.state = "live" /\ y.state = "live" /\ y.want = x.want /\ x.want = list
      /\ DOMAIN y.status = DOMAIN x.status /\ DOMAIN x.status = DOMAIN x.want
      /\ ctxs' = [ctxs EXCEPT ![c] = y]
  <2>1. ctxs'[c] = y /\ ctxs[c] = x /\ TypeOK
    BY <1>2 DEF Turn, IInv, TypeOK
  <2>2. DOMAIN x.status = DOMAIN x.want
    BY <2>1, SlotsOfEach DEF SlotsOf
  <2> QED
    BY <1>1, <1>2, <2>1, <2>2 DEF Turn, Kin, ListsInv, CallKnown
<1>4. /\ pos \in Nat /\ Len(list) \in Nat /\ DOMAIN list = 1..Len(list)
      /\ x.left \in Int
  BY <1>3, LenProperties DEF TypeOK, CtxRecord
<1>k. PICK k \in Nat : k = pos
  BY <1>4
<1>5. Seen(c) = {i \in DOMAIN list : i < pos} /\ Seen(c)' = {i \in DOMAIN list : i < pos + 1}
  BY <1>1, <1>3 DEF Seen, InCall
<1>6. Seen(c)' = Seen(c) \cup {k}
  BY <1>3, <1>4, <1>5, <1>k
<1>7. Counted(c)
  BY SlotsOfEach DEF SlotsOf
<1>8. Counted(c)'
  <2>1. CASE TurnStop(p, x, y)
    BY <1>3, <2>1 DEF Counted, TurnStop
  <2>2. CASE TurnExit(p, x, y)
    <3>1. proc[p] = "reaped" /\ orphan[p] = code[p]
      BY <2>2 DEF TurnExit, SlotsInv, ParkedFaithful
    <3>2. Filled(c, k)'
      <4>1. /\ y.status[k] = code[p] /\ (k = Len(x.want) => y.exit = code[p])
            /\ x.want[k] = p /\ k \in DOMAIN list
        BY <1>3, <1>k, <2>2, <3>1 DEF TurnExit, CtxRecord
      <4> QED
        BY <1>1, <1>3, <3>1, <4>1 DEF Filled
    <3>3. ASSUME NEW i \in Seen(c), Filled(c, i) PROVE Filled(c, i)'
      <4>1. i \in DOMAIN list /\ i < pos /\ i # pos /\ i # Len(list)
        BY <1>3, <1>4, <1>5
      <4>2. y.status[i] = x.status[i]
        BY <2>2, <4>1 DEF TurnExit, CtxRecord
      <4> QED
        BY <1>1, <1>3, <3>3, <4>1, <4>2 DEF Filled
    <3>4. OpenSlots(c)' \subseteq OpenSlots(c)
      BY <1>6, <3>2, <3>3 DEF OpenSlots
    <3>5. Cardinality(OpenSlots(c)') <= Cardinality(OpenSlots(c)) /\ Cardinality(OpenSlots(c)') \in Nat
      BY <1>3, <3>4, WantPids, FS_Subset, FS_CardinalityType
    <3> QED
      BY <1>3, <1>4, <1>7, <2>2, <3>5, WantPids DEF Counted, TurnExit
  <2>3. CASE TurnRegister(c, p, x, y)
    <3>1. y.left = x.left + 1 /\ SameRecord(x, y)
      BY <2>3 DEF TurnRegister
    <3>2. ASSUME NEW i \in Seen(c), Filled(c, i) PROVE Filled(c, i)'
      BY <1>1, <1>3, <3>1, <3>2 DEF Filled, SameRecord
    <3>3. OpenSlots(c)' \subseteq OpenSlots(c) \cup {k}
      BY <1>6, <3>2 DEF OpenSlots
    <3>4. /\ IsFiniteSet(OpenSlots(c) \cup {k})
          /\ Cardinality(OpenSlots(c) \cup {k}) <= Cardinality(OpenSlots(c)) + 1
      <4>1. IsFiniteSet(OpenSlots(c)) /\ Cardinality(OpenSlots(c)) \in Nat
        BY <1>3, WantPids
      <4>2. /\ IsFiniteSet(OpenSlots(c) \cup {k})
            /\ Cardinality(OpenSlots(c) \cup {k}) =
                 IF k \in OpenSlots(c) THEN Cardinality(OpenSlots(c))
                                       ELSE Cardinality(OpenSlots(c)) + 1
        BY <4>1, FS_AddElement
      <4> QED
        BY <4>1, <4>2
    <3>5. /\ Cardinality(OpenSlots(c)') <= Cardinality(OpenSlots(c) \cup {k})
          /\ Cardinality(OpenSlots(c)') \in Nat /\ Cardinality(OpenSlots(c) \cup {k}) \in Nat
      BY <3>3, <3>4, FS_Subset, FS_CardinalityType
    <3> QED
      BY <1>3, <1>4, <1>7, <3>1, <3>4, <3>5, WantPids DEF Counted, SameRecord
  <2> QED
    BY <1>2, <2>1, <2>2, <2>3
<1>9. SlotsOf(c)'
  BY <1>3, <1>8 DEF SlotsOf, Faithful
<1> QED
  BY <1>1, <1>3, <1>9, SlotsWritten

\* The slot of a stage that died is filled, and no more counted.
LEMMA ReapStageSlots ==
    ASSUME IInv, ListsInv, SlotsInv, TypeOK', ReapedStays, ParkedFaithful',
           NEW p \in Pid, Reap(p), ReapStage(p)
    PROVE  SlotsInv'
<1>1. PICK c \in Ctx, x \in CtxRecord, y \in CtxRecord : ReapedOne(c, p, x, y)
  BY ReapStageEffect
<1>2. PICK s \in Nat : s = slot[p]
  BY DEF IInv, TypeOK
<1>3. /\ at = "reap" /\ at' = "reap" /\ code' = code /\ proc[p] = "zombie"
      /\ proc'[p] = "reaped"
      /\ \A q \in Pid : q # p => proc'[q] = proc[q]
  BY <1>1 DEF ReapedOne, Reap, Collect, callVars, IInv, TypeOK
<1>4. /\ ctxs'[c] = y /\ ctxs[c] = x /\ TypeOK /\ x.state = "live"
      /\ ctxs' = [ctxs EXCEPT ![c] = y]
      /\ y.want = x.want /\ y.stopped = x.stopped /\ y.left = x.left - 1
      /\ DOMAIN y.status = DOMAIN x.status
      /\ y.status = [x.status EXCEPT ![s] = code[p]]
      /\ y.exit = IF s = Len(x.want) THEN code[p] ELSE x.exit
      /\ y.state = "live" \/ y.left = 0
  BY <1>1, <1>2 DEF ReapedOne, Kin, IInv, TypeOK
<1>5. s \in DOMAIN x.want /\ x.want[s] = p
  BY <1>1, <1>2, <1>4 DEF ListsInv, SlotOfPid, IsCtxBound, ReapedOne
<1>6. Counted(c) /\ DOMAIN x.status = DOMAIN x.want
  BY <1>4, SlotsOfEach DEF SlotsOf
<1>7. Seen(c) = DOMAIN x.want /\ Seen(c)' = DOMAIN x.want
  BY <1>3, <1>4 DEF Seen, InCall
<1>8. s \in OpenSlots(c)
  BY <1>3, <1>4, <1>5, <1>7 DEF OpenSlots, Filled
<1>9. Filled(c, s)'
  BY <1>3, <1>4, <1>5, <1>6 DEF Filled
<1>10. ASSUME NEW i \in DOMAIN x.want, i # s, Filled(c, i) PROVE Filled(c, i)'
  <2>1. /\ y.status[i] = x.status[i] /\ proc'[x.want[i]] = "reaped"
        /\ i = Len(x.want) => y.exit = x.exit
    <3>1. proc[x.want[i]] = "reaped" /\ x.want[i] \in Pid
      BY <1>4, <1>10, WantPids DEF Filled
    <3> QED
      BY SMTT(30), <1>3, <1>4, <1>6, <1>10, <3>1 DEF CtxRecord
  <2> QED
    BY <1>3, <1>4, <1>10, <2>1 DEF Filled
<1>11. OpenSlots(c)' \subseteq OpenSlots(c) \ {s}
  BY <1>7, <1>9, <1>10 DEF OpenSlots
<1>12. /\ Cardinality(OpenSlots(c)') <= Cardinality(OpenSlots(c)) - 1
       /\ IsFiniteSet(OpenSlots(c)') /\ Cardinality(OpenSlots(c)') \in Nat
       /\ Cardinality(OpenSlots(c)) \in Nat
  <2>1. IsFiniteSet(OpenSlots(c)) /\ Cardinality(OpenSlots(c)) \in Nat
    BY <1>4, WantPids
  <2>2. /\ IsFiniteSet(OpenSlots(c) \ {s})
        /\ Cardinality(OpenSlots(c) \ {s}) = Cardinality(OpenSlots(c)) - 1
    BY <1>8, <2>1, FS_RemoveElement
  <2>3. /\ IsFiniteSet(OpenSlots(c)') /\ Cardinality(OpenSlots(c)') \in Nat
        /\ Cardinality(OpenSlots(c)') <= Cardinality(OpenSlots(c) \ {s})
    BY <1>11, <2>2, FS_Subset, FS_CardinalityType
  <2> QED
    BY <2>1, <2>2, <2>3
<1>13. Counted(c)' /\ (y.left = 0 /\ ~y.stopped => OpenSlots(c)' = {})
  <2> SUFFICES ASSUME ~y.stopped
               PROVE  /\ y.left >= Cardinality(OpenSlots(c)')
                      /\ y.left = 0 => OpenSlots(c)' = {}
    BY <1>4 DEF Counted
  <2>1. x.left >= Cardinality(OpenSlots(c)) /\ x.left \in Int
    BY <1>4, <1>6 DEF Counted, CtxRecord
  <2>2. y.left >= Cardinality(OpenSlots(c)')
    BY <1>4, <1>12, <2>1
  <2>3. y.left = 0 => Cardinality(OpenSlots(c)') = 0
    BY <1>12, <2>2
  <2> QED
    BY <1>12, <2>2, <2>3, FS_EmptySet
<1>14. Faithful(c)'
  <2>1. y.left = 0 /\ ~y.stopped => Faithful(c)'
    BY <1>4, <1>7, <1>13, AllFilledNext
  <2> QED
    BY <1>4, <2>1 DEF Faithful
<1>15. SlotsOf(c)'
  BY <1>4, <1>6, <1>13, <1>14 DEF SlotsOf
<1> QED
  BY <1>3, <1>4, <1>15, SlotsWritten

LEMMA ReapStoppedSlots ==
    ASSUME IInv, ListsInv, SlotsInv, TypeOK', ReapedStays, ParkedFaithful',
           NEW p \in Pid, Reap(p), ReapStopped(p)
    PROVE  SlotsInv'
<1>1. PICK c \in Ctx, x \in CtxRecord, y \in CtxRecord : ReapedStop(c, p, x, y)
  BY ReapStoppedEffect
<1>2. /\ ctxs' = [ctxs EXCEPT ![c] = y] /\ ctxs'[c] = y
      /\ Kin(ctxs[c], y) /\ y.stopped
  BY <1>1 DEF ReapedStop, IInv, TypeOK
<1>3. SlotsOf(c)'
  BY <1>2, SlotsOfEach DEF SlotsOf, Counted, Faithful, Kin
<1> QED
  BY <1>2, <1>3, SlotsWritten DEF Reap

LEMMA EnteredSlots ==
    ASSUME IInv, ListsInv, SlotsInv, TypeOK', ReapedStays, ParkedFaithful',
           NEW c \in Ctx, NEW mode \in Mode, NEW y \in CtxRecord, Entered(c, mode, y)
    PROVE  SlotsInv'
<1>1. /\ ctxs' = [ctxs EXCEPT ![c] = y] /\ ctxs'[c] = y /\ c = cur
      /\ y.want = list /\ DOMAIN y.status = DOMAIN list /\ y.mode = mode
  BY DEF Entered, IInv, TypeOK
<1>2. y.state = "live" => y.left >= Cardinality(OpenSlots(c)')
  <2> SUFFICES ASSUME y.state = "live" PROVE Len(list) >= Cardinality(OpenSlots(c)')
    BY DEF Entered
  <2>1. DOMAIN list = 1..Len(list) /\ Len(list) \in Nat
    BY LenProperties DEF IInv, TypeOK
  <2>2. OpenSlots(c)' \subseteq 1..Len(list)
    BY <1>1, <2>1 DEF OpenSlots, Seen
  <2>3. IsFiniteSet(1..Len(list)) /\ Cardinality(1..Len(list)) = Len(list)
    <3>1. ASSUME NEW n \in Nat PROVE IsFiniteSet(1..n) /\ Cardinality(1..n) = n
      <4>1. /\ IsFiniteSet(1..n)
            /\ Cardinality(1..n) = IF 1 > n THEN 0 ELSE n - 1 + 1
        BY FS_Interval
      <4> QED
        BY <4>1
    <3> QED
      BY <2>1, <3>1
  <2>4. Cardinality(OpenSlots(c)') <= Len(list) /\ Cardinality(OpenSlots(c)') \in Nat
    BY <2>2, <2>3, FS_Subset, FS_CardinalityType
  <2> QED
    BY <2>1, <2>4
<1>3. y.state = "resolved" => y.mode = "background"
  BY <1>1 DEF Entered
<1>4. SlotsOf(c)'
  BY <1>1, <1>2, <1>3 DEF SlotsOf, Counted, Faithful
<1> QED
  BY <1>1, <1>4, SlotsWritten

LEMMA InitSlots == ASSUME Init PROVE SlotsInv
<1>1. /\ \A c \in Ctx : /\ ctxs[c].state = "free" /\ ctxs[c].want = <<>>
                        /\ DOMAIN ctxs[c].status = DOMAIN ctxs[c].want
      /\ \A p \in Pid : orphan[p] = NoEntry
  BY DEF Init, FreeCtx, NewCtx
<1>2. ParkedFaithful
  BY <1>1, CodeAssumption DEF ParkedFaithful
<1>3. \A c \in Ctx : SlotsOf(c)
  BY <1>1 DEF SlotsOf, Counted, Faithful
<1> QED
  BY <1>2, <1>3, SlotsOfEach

LEMMA StepSlots == ASSUME IInv, ListsInv, SlotsInv, TypeOK', [Next]_vars PROVE SlotsInv'
<1>0. ReapedStays /\ ParkedFaithful'
  BY ReapedForGood, ParkedStays DEF SlotsInv, IInv
<1>1. CASE Quiet \/ DrainStage
  BY <1>0, <1>1, UnwrittenSlots
<1>2. ASSUME NEW p \in Pid, SpawnStage(p) \/ \E keep \in BOOLEAN : ForkExec(p, keep)
      PROVE  SlotsInv'
  BY <1>0, <1>2, UnwrittenSlots
<1>3. ASSUME NEW p \in Pid, Reap(p) PROVE SlotsInv'
  <2>1. CASE ReapUntracked(p) \/ ReapBackground(p)
    BY <1>0, <1>3, <2>1, UnwrittenSlots
  <2> QED
    BY <1>0, <1>3, <2>1, ReapStageSlots, ReapStoppedSlots DEF Reap
<1>4. ASSUME NEW c \in Ctx, Begin(c) PROVE SlotsInv'
  BY <1>0, <1>4, BeginEffect, BeginSlots DEF Begin, IInv
<1>5. ASSUME NEW c \in Ctx, CaptureEof(c) PROVE SlotsInv'
  BY <1>0, <1>5, CaptureEofEffect, EndedSlots
<1>6. CASE WaitEnd
  BY <1>0, <1>6, WaitEndEffect, EndedSlots
<1>7. CASE SpawnEnd \/ SpawnEndBackground
  BY <1>0, <1>7, SpawnEndEffect, EnteredSlots
<1>8. CASE DrainEnd \/ WaitStage
  BY <1>0, <1>8, DrainEndSlots, WaitStageSlots
<1> QED
  BY <1>1, <1>2, <1>3, <1>4, <1>5, <1>6, <1>7, <1>8, StepKinds

\* A slot is either filled with the code its process exited with, or counted
\* among those the promise waits for.
THEOREM SlotsAccounted == Spec => []SlotsInv
<1>1. Init => SlotsInv
  BY InitSlots
<1>2. IInv /\ ListsInv /\ SlotsInv /\ TypeOK' /\ [Next]_vars => SlotsInv'
  BY StepSlots
<1> QED
  BY <1>1, <1>2, TypeCorrect, InductiveInvariant, ListsApart, PTL DEF Spec

\* A promise that does not report a stop reports the codes its processes
\* really exited with.
THEOREM CodesFaithful == Spec => []StatusFaithful
<1>1. SlotsInv => StatusFaithful
  BY DEF SlotsInv
<1> QED
  BY <1>1, SlotsAccounted, PTL

-----------------------------------------------------------------------------
(* CountInv.                                                               *)

\* What CountInv says of one context.
CountOf(c) ==
    LET x == ctxs[c]
    IN /\ x.state = "live" /\ ~InCall(c) /\ x.capture # "open" => x.left > 0
       /\ x.state = "live" /\ x.mode # "resume" => x.left = Cardinality(OwnedBy(c))

LEMMA CountOfEach ==
    /\ CountInv <=> OwnedAlive /\ \A c \in Ctx : CountOf(c)
    /\ CountInv' <=> OwnedAlive' /\ \A c \in Ctx : CountOf(c)'
BY DEF CountInv, LiveCounted, CountExact, CountOf

LEMMA CountFrame ==
    ASSUME CountInv, OwnedAlive', ctxs' = ctxs, owner' = owner,
           \A d \in Ctx : InCall(d) => InCall(d)'
    PROVE  CountInv'
BY CountOfEach DEF CountOf, OwnedBy

LEMMA CountWritten ==
    ASSUME TypeOK, CountInv, OwnedAlive', NEW c \in Ctx, NEW y \in CtxRecord,
           ctxs' = [ctxs EXCEPT ![c] = y], CountOf(c)',
           \A d \in Ctx : d # c => OwnedBy(d)' = OwnedBy(d) \/ ctxs[d].mode = "resume",
           at \in {"spawn", "drain", "wait"} => c = cur
    PROVE  CountInv'
<1>1. ASSUME NEW d \in Ctx, d # c PROVE CountOf(d)'
  <2>1. ~InCall(d) /\ ctxs'[d] = ctxs[d]
    BY <1>1 DEF InCall, TypeOK
  <2> QED
    BY <1>1, <2>1, CountOfEach DEF CountOf
<1> QED
  BY <1>1, CountOfEach

\* A pid a pipeline owns is not reaped, if it has just got it, or if no other
\* pipeline's pid is reaped.
LEMMA AliveFrame ==
    ASSUME CountInv,
           \A p \in Pid : owner'[p] \in Ctx =>
               \/ proc'[p] # "reaped"
               \/ ctxs'[owner'[p]].mode = "resume"
               \/ /\ owner'[p] = owner[p] /\ ctxs'[owner[p]].mode = ctxs[owner[p]].mode
                  /\ proc[p] = "reaped",
           at' = "spawn" => \A p \in Stages' : proc'[p] # "reaped"
    PROVE  OwnedAlive'
BY DEF CountInv, OwnedAlive, IsCtxBound

LEMMA QuietCounts == ASSUME IInv, ListsInv, CountInv, TypeOK', Quiet PROVE CountInv'
<1>1. /\ UNCHANGED <<owner, ctxs, cur, list>>
      /\ \/ UNCHANGED <<at, pos>>
         \/ at = "spawn" /\ at' = "drain"
         \/ at \in {"idle", "reap"} /\ at' \in {"idle", "reap"}
      /\ \A p \in Pid : proc'[p] = "reaped" <=> proc[p] = "reaped"
  BY QuietEffect DEF Quiet, IInv
<1>2. at' = "spawn" => \A p \in Stages' : proc'[p] # "reaped"
  <2>1. at' = "spawn" => at = "spawn" /\ Stages' = Stages
    BY <1>1 DEF Stages
  <2>2. \A i \in DOMAIN list : list[i] \in Pid
    BY ListsOfPids DEF IInv
  <2> QED
    BY <1>1, <2>1, <2>2 DEF CountInv, OwnedAlive, Stages
<1>3. OwnedAlive'
  BY <1>1, <1>2, AliveFrame
<1> QED
  BY <1>1, <1>3, CountFrame DEF InCall

LEMMA DrainCounts == ASSUME IInv, ListsInv, CountInv, TypeOK', DrainStage PROVE CountInv'
<1>1. at = "drain" /\ UNCHANGED <<owner, ctxs, at, cur, list>>
  BY DrainStageEffect
<1>2. PICK p \in Pid : p \in Stages /\ proc' = [proc EXCEPT ![p] = "reaped"]
  BY DrainStageEffect
<1>3. owner[p] = Untracked
  BY <1>1, <1>2 DEF IInv, SpawnUnregistered, Stages
<1>4. \A q \in Pid : q # p => proc'[q] = proc[q]
  BY <1>2 DEF IInv, TypeOK
<1>5. OwnedAlive'
  BY <1>1, <1>3, <1>4, CtxAssumption, AliveFrame
<1> QED
  BY <1>1, <1>5, CountFrame DEF InCall

LEMMA BornCounts ==
    ASSUME IInv, ListsInv, CountInv, TypeOK', NEW p \in Pid,
           SpawnStage(p) \/ \E keep \in BOOLEAN : ForkExec(p, keep)
    PROVE  CountInv'
<1>1. /\ UNCHANGED <<owner, ctxs, at, cur>> /\ proc' = [proc EXCEPT ![p] = "running"]
      /\ list' = list \/ list' = Append(list, p)
  BY DEF SpawnStage, ForkExec, tableVars, callVars
<1>2. \A q \in Pid : proc'[q] = proc[q] \/ (q = p /\ proc'[q] = "running")
  BY <1>1 DEF IInv, TypeOK
<1>3. at' = "spawn" => \A q \in Stages' : proc'[q] # "reaped"
  <2> SUFFICES ASSUME at' = "spawn", NEW q \in Stages' PROVE proc'[q] # "reaped"
    OBVIOUS
  <2>1. Stages' \subseteq Stages \cup {p} /\ Stages \subseteq Pid
    <3>1. list \in Seq(Pid)
      BY DEF IInv, TypeOK
    <3>2. PidsIn(list') \subseteq PidsIn(list) \cup {p} /\ PidsIn(list) \subseteq Pid
      BY <1>1, <3>1, AppendPid, PidsInType
    <3> QED
      BY <3>2 DEF PidsIn, Stages
  <2>2. \A r \in Stages : proc[r] # "reaped"
    BY <1>1 DEF CountInv, OwnedAlive
  <2>3. q \in Pid /\ (q \in Stages \/ q = p)
    BY <2>1
  <2>4. proc'[q] = proc[q] \/ proc'[q] = "running"
    BY <1>2, <2>3
  <2>5. q = p => proc'[q] = "running"
    BY <1>1 DEF IInv, TypeOK
  <2> QED
    BY <2>2, <2>3, <2>4, <2>5
<1>4. OwnedAlive'
  BY <1>1, <1>2, <1>3, AliveFrame
<1> QED
  BY <1>1, <1>4, CountFrame DEF InCall

LEMMA DrainEndCounts == ASSUME IInv, ListsInv, CountInv, TypeOK', DrainEnd PROVE CountInv'
<1>1. /\ at = "drain" /\ at' = "idle" /\ cur \in Ctx
      /\ UNCHANGED <<proc, owner>>
  BY DrainEndEffect
<1>2. PICK y \in CtxRecord : /\ ctxs' = [ctxs EXCEPT ![cur] = y]
                             /\ Kin(ctxs[cur], y) /\ y.state = "resolved"
  BY DrainEndEffect
<1>3. PICK c \in Ctx : c = cur
  BY <1>1
<1>4. /\ ctxs'[c] = y /\ y.mode = ctxs[c].mode /\ TypeOK
      /\ \A d \in Ctx : d # c => ctxs'[d] = ctxs[d]
  BY <1>2, <1>3 DEF Kin, IInv, TypeOK
<1>5. OwnedAlive'
  BY <1>1, <1>4, AliveFrame
<1>6. CountOf(c)'
  BY <1>2, <1>4 DEF CountOf
<1>7. \A d \in Ctx : OwnedBy(d)' = OwnedBy(d)
  BY <1>1 DEF OwnedBy
<1> QED
  BY <1>2, <1>3, <1>4, <1>5, <1>6, <1>7, CountWritten

LEMMA EndedCounts ==
    ASSUME IInv, ListsInv, CountInv, TypeOK', at' = "idle",
           UNCHANGED <<proc, owner>>,
           NEW c \in Ctx, NEW x \in CtxRecord, NEW y \in CtxRecord, Ended(c, x, y),
           at \in {"spawn", "drain", "wait"} => c = cur
    PROVE  CountInv'
<1>1. /\ ctxs'[c] = y /\ ctxs[c] = x /\ TypeOK /\ ctxs' = [ctxs EXCEPT ![c] = y]
      /\ y.mode = x.mode /\ y.left = x.left /\ x.state = "live"
      /\ y.state = "live" => x.left > 0
      /\ \A d \in Ctx : d # c => ctxs'[d] = ctxs[d]
  BY DEF Ended, IInv, TypeOK
<1>2. OwnedAlive'
  BY <1>1, AliveFrame
<1>3. \A d \in Ctx : OwnedBy(d)' = OwnedBy(d)
  BY DEF OwnedBy
<1>4. CountOf(c)'
  BY <1>1, <1>3, CountOfEach DEF CountOf
<1> QED
  BY <1>1, <1>2, <1>3, <1>4, CountWritten

LEMMA BeginCounts ==
    ASSUME IInv, ListsInv, CountInv, TypeOK', NEW c \in Ctx, NEW mode \in Mode,
           NEW want \in Seq(Pid), Begun(c, mode, want)
    PROVE  CountInv'
<1> DEFINE y == NewCtx(mode, want)
<1>1. y \in CtxRecord /\ y.left = 0
  BY NewCtxType
<1> HIDE DEF y
<1>2. /\ ctxs' = [ctxs EXCEPT ![c] = y] /\ ctxs'[c] = y
      /\ \A d \in Ctx : d # c => ctxs'[d] = ctxs[d]
      /\ at = "idle" /\ UNCHANGED <<proc, owner>>
      /\ at' = "spawn" => list' = <<>>
  BY DEF Begun, IInv, TypeOK, y
<1>3. \A p \in Pid : owner[p] # c
  BY DEF Begun, IInv, NoDanglingCtx, IsCtxBound
<1>4. \A d \in Ctx : OwnedBy(d)' = OwnedBy(d)
  BY <1>2 DEF OwnedBy
<1>5. CountOf(c)'
  <2>1. OwnedBy(c)' = {} /\ InCall(c)'
    BY <1>3, <1>4 DEF OwnedBy, Begun, InCall
  <2> QED
    BY <1>1, <1>2, <2>1, FS_EmptySet DEF CountOf
<1>6. OwnedAlive'
  <2>1. at' = "spawn" => \A p \in Stages' : proc'[p] # "reaped"
    BY <1>2 DEF Stages
  <2> QED
    BY <1>2, <1>3, <2>1, AliveFrame
<1> QED
  BY <1>1, <1>2, <1>4, <1>5, <1>6, CountWritten DEF IInv

LEMMA EnteredCounts ==
    ASSUME IInv, ListsInv, CountInv, TypeOK', NEW c \in Ctx, NEW mode \in Mode,
           NEW y \in CtxRecord, Entered(c, mode, y)
    PROVE  CountInv'
<1>1. /\ ctxs' = [ctxs EXCEPT ![c] = y] /\ ctxs'[c] = y
      /\ \A d \in Ctx : d # c => ctxs'[d] = ctxs[d]
      /\ at = "spawn" /\ at' = "idle" /\ c = cur /\ proc' = proc /\ TypeOK
      /\ y.mode = ctxs[c].mode
  BY DEF Entered, IInv, TypeOK
<1>2. /\ Stages \subseteq Pid /\ \A p \in Stages : owner[p] = Untracked
      /\ Cardinality(Stages) = Len(list) /\ Len(list) \in Nat
      /\ OwnedBy(c) = {}
  BY <1>1, StagesCount DEF IInv, SpawnUnregistered
<1>3. \A d \in Ctx : d # c => OwnedBy(d)' = OwnedBy(d)
  BY <1>2, CtxAssumption DEF Entered, OwnedBy
<1>4. OwnedAlive'
  <2>1. \A p \in Stages : proc'[p] # "reaped"
    BY <1>1 DEF CountInv, OwnedAlive
  <2>2. \A p \in Pid : p \notin Stages => owner'[p] = owner[p] /\ owner[p] # c
    BY <1>2 DEF Entered, OwnedBy
  <2> QED
    BY <1>1, <2>1, <2>2, AliveFrame
<1>5. CountOf(c)'
  <2> SUFFICES ASSUME y.state = "live"
               PROVE  y.left > 0 /\ y.left = Cardinality(OwnedBy(c)')
    BY <1>1 DEF CountOf
  <2>1. y.left = Len(list) /\ owner' = [p \in Pid |-> IF p \in Stages THEN c ELSE owner[p]]
    BY DEF Entered
  <2>2. OwnedBy(c)' = Stages
    BY <1>2, <2>1 DEF OwnedBy
  <2>3. Len(list) > 0
    BY <1>2, EmptySeq DEF Entered, IInv, TypeOK
  <2> QED
    BY <1>2, <2>1, <2>2, <2>3
<1> QED
  BY <1>1, <1>3, <1>4, <1>5, CountWritten

\* waitForPids takes no pid from a pipeline, nor from a mixed one: what a
\* resumed pipeline waits for belongs to it, or to an earlier resume of it.
LEMMA ResumedPid ==
    ASSUME IInv, ListsInv, at = "wait", ctxs[cur].mode = "resume",
           NEW p \in PidsIn(list), p \in Pid, IsCtxBound(p)
    PROVE  ctxs[owner[p]].mode = "resume"
<1>1. PICK d \in Ctx : Spawning(d) /\ ctxs[d].state = "resolved" /\ list = ctxs[d].pids
  BY DEF ListsInv, ResumesJob
<1>2. PICK e \in Ctx : e = owner[p] /\ ctxs[e].state = "live" /\ ctxs[e].mode \in Mode
  BY DEF IsCtxBound, IInv, NoDanglingCtx, TypeOK, CtxRecord
<1>3. ~Spawning(e)
  <2> SUFFICES ASSUME Spawning(e) PROVE FALSE
    OBVIOUS
  <2>1. p \in PidsIn(ctxs[e].pids) /\ e # d
    BY <1>1, <1>2 DEF ListsInv, OwnedListed
  <2> QED
    BY <1>1, <2>1 DEF ListsInv, PidsApart
<1>4. ctxs[e].mode # "mixed"
  <2>1. p \in PidsIn(ctxs[e].want)
    BY <1>2 DEF ListsInv, SlotOfPid, PidsIn
  <2> QED
    BY <1>1, <2>1 DEF ListsInv, ForkedApart
<1> QED
  BY <1>2, <1>3, <1>4 DEF Spawning, Mode

LEMMA WaitStageCounts ==
    ASSUME IInv, ListsInv, KeptInv, CountInv, TypeOK', WaitStage PROVE CountInv'
<1>1. /\ at = "wait" /\ at' = "wait"
      /\ UNCHANGED <<proc, code, news, held, at, cur, list>>
  BY WaitStageEffect
<1>2. PICK c \in Ctx, p \in Pid, x \in CtxRecord, y \in CtxRecord :
         /\ Turn(c, p, x, y)
         /\ TurnStop(p, x, y) \/ TurnExit(p, x, y) \/ TurnRegister(c, p, x, y)
  BY WaitStageEffect
<1>3. /\ ctxs'[c] = y /\ ctxs[c] = x /\ TypeOK /\ ctxs' = [ctxs EXCEPT ![c] = y]
      /\ y.mode = x.mode /\ x.state = "live" /\ c = cur
      /\ p = list[pos] /\ pos \in DOMAIN list
      /\ \A d \in Ctx : d # c => ctxs'[d] = ctxs[d]
  BY <1>2 DEF Turn, Kin, IInv, TypeOK
<1>4. InCall(c)'
  BY <1>1, <1>3 DEF InCall
<1>5. CASE UNCHANGED owner /\ y.left = x.left
  <2>1. OwnedAlive'
    BY <1>1, <1>3, <1>5, AliveFrame
  <2>2. \A d \in Ctx : OwnedBy(d)' = OwnedBy(d)
    BY <1>5 DEF OwnedBy
  <2>3. CountOf(c)'
    BY <1>3, <1>4, <1>5, <2>2, CountOfEach DEF CountOf
  <2> QED
    BY <1>3, <2>1, <2>2, <2>3, CountWritten
<1>6. CASE TurnRegister(c, p, x, y)
  <2>1. /\ owner' = [owner EXCEPT ![p] = c] /\ y.left = x.left + 1
        /\ orphan[p] \in {Unreaped, NoEntry}
    BY <1>6 DEF TurnRegister
  <2>2. x.mode = "mixed" \/ x.mode = "resume"
    BY <1>1, <1>3 DEF ListsInv, CallKnown
  <2>3. CASE x.mode = "mixed"
    <3>1. Kept(p)
      <4>1. pos >= pos
        BY <1>3 DEF TypeOK
      <4> QED
        BY <1>1, <1>3, <2>3, <4>1 DEF KeptInv, MixedKept
    <3>2. owner[p] = Untracked /\ proc[p] # "reaped"
      BY <2>1, <3>1, CodeAssumption DEF Kept, IInv, TypeOK
    <3>3. /\ OwnedBy(c)' = OwnedBy(c) \cup {p} /\ p \notin OwnedBy(c)
          /\ \A d \in Ctx : d # c => OwnedBy(d)' = OwnedBy(d)
      BY <2>1, <3>2, CtxAssumption DEF OwnedBy, IInv, TypeOK
    <3>4. Cardinality(OwnedBy(c)') = Cardinality(OwnedBy(c)) + 1
      <4>1. IsFiniteSet(OwnedBy(c))
        BY FiniteSets
      <4> QED
        BY <3>3, <4>1, FS_AddElement
    <3>5. OwnedAlive'
      <4>1. \A q \in Pid : q # p => owner'[q] = owner[q]
        BY <2>1 DEF IInv, TypeOK
      <4> QED
        BY <1>1, <1>3, <3>2, <4>1, AliveFrame
    <3>6. CountOf(c)'
      <4>1. x.left = Cardinality(OwnedBy(c))
        BY <1>3, <2>3, CountOfEach DEF CountOf
      <4> QED
        BY <1>3, <1>4, <2>1, <3>4, <4>1 DEF CountOf
    <3> QED
      BY <1>3, <3>3, <3>5, <3>6, CountWritten
  <2>4. CASE x.mode = "resume"
    <3>1. IsCtxBound(p) => ctxs[owner[p]].mode = "resume"
      BY <1>1, <1>3, <2>4, ResumedPid DEF PidsIn
    <3>2. \A d \in Ctx : d # c => OwnedBy(d)' = OwnedBy(d) \/ ctxs[d].mode = "resume"
      <4> SUFFICES ASSUME NEW d \in Ctx, d # c, ctxs[d].mode # "resume"
                   PROVE  OwnedBy(d)' = OwnedBy(d)
        OBVIOUS
      <4>1. owner[p] # d
        BY <3>1 DEF IsCtxBound
      <4> QED
        BY <2>1, <4>1 DEF OwnedBy, IInv, TypeOK
    <3>3. OwnedAlive'
      <4>1. \A q \in Pid : q # p => owner'[q] = owner[q]
        BY <2>1 DEF IInv, TypeOK
      <4>2. owner'[p] = c /\ ctxs'[c].mode = "resume"
        BY <1>3, <2>1, <2>4 DEF IInv, TypeOK
      <4> QED
        BY <1>1, <1>3, <4>1, <4>2, AliveFrame
    <3>4. CountOf(c)'
      BY <1>3, <1>4, <2>4 DEF CountOf
    <3> QED
      BY <1>3, <3>2, <3>3, <3>4, CountWritten
  <2> QED
    BY <2>2, <2>3, <2>4
<1> QED
  BY <1>2, <1>5, <1>6 DEF TurnStop, TurnExit

LEMMA ReapCounts == ASSUME IInv, ListsInv, CountInv, TypeOK', NEW p \in Pid, Reap(p), IInv'
                    PROVE  CountInv'
<1>1. /\ at = "reap" /\ at' = "reap" /\ cur' = cur /\ TypeOK
      /\ \A q \in Pid : q # p => proc'[q] = proc[q]
  BY DEF Reap, Collect, callVars, IInv, TypeOK
<1>2. \A d \in Ctx : ~InCall(d) /\ ~InCall(d)'
  BY <1>1 DEF InCall
<1>3. CASE ReapUntracked(p) \/ ReapBackground(p)
  <2>1. /\ ctxs' = ctxs /\ owner[p] \notin Ctx /\ owner'[p] \notin Ctx
        /\ \A q \in Pid : q # p => owner'[q] = owner[q]
    BY <1>3, CtxAssumption DEF ReapUntracked, ReapBackground, ErasePending, IInv, TypeOK
  <2>2. OwnedAlive'
    BY <1>1, <2>1, AliveFrame
  <2>3. \A d \in Ctx : OwnedBy(d)' = OwnedBy(d)
    BY <2>1 DEF OwnedBy
  <2> QED
    BY <1>2, <2>1, <2>2, <2>3, CountOfEach DEF CountOf
<1>4. CASE ReapStopped(p)
  <2>1. PICK c \in Ctx, x \in CtxRecord, y \in CtxRecord : ReapedStop(c, p, x, y)
    BY <1>4, ReapStoppedEffect
  <2>2. /\ ctxs' = [ctxs EXCEPT ![c] = y] /\ ctxs'[c] = y /\ ctxs[c] = x
        /\ owner[p] = c /\ y.left = 0 /\ y.mode = x.mode /\ y.capture = x.capture
        /\ y.state = IF x.capture = "open" THEN "live" ELSE "resolved"
        /\ \A d \in Ctx : d # c => ctxs'[d] = ctxs[d]
        /\ owner' = [q \in Pid |-> IF owner[q] = c THEN Untracked ELSE owner[q]]
    BY <2>1 DEF ReapedStop, Kin, IInv, TypeOK
  <2>3. /\ OwnedBy(c)' = {}
        /\ \A d \in Ctx : d # c => OwnedBy(d)' = OwnedBy(d)
    BY <2>2, CtxAssumption DEF OwnedBy
  <2>4. OwnedAlive'
    BY <1>1, <2>2, CtxAssumption, AliveFrame
  <2>5. CountOf(c)'
    BY <2>2, <2>3, FS_EmptySet DEF CountOf
  <2> QED
    BY <1>1, <2>2, <2>3, <2>4, <2>5, CountWritten
<1>5. CASE ReapStage(p)
  <2>1. PICK c \in Ctx, x \in CtxRecord, y \in CtxRecord : ReapedOne(c, p, x, y)
    BY <1>5, ReapStageEffect
  <2>2. /\ ctxs' = [ctxs EXCEPT ![c] = y] /\ ctxs'[c] = y /\ ctxs[c] = x
        /\ owner[p] = c /\ y.left = x.left - 1 /\ y.mode = x.mode /\ y.capture = x.capture
        /\ x.state = "live"
        /\ y.state = IF y.left = 0 /\ x.capture # "open" THEN "resolved" ELSE "live"
        /\ \A d \in Ctx : d # c => ctxs'[d] = ctxs[d]
        /\ ErasePending(p)
    BY <2>1 DEF ReapedOne, Kin, IInv, TypeOK
  <2>3. /\ owner'[p] = Untracked
        /\ \A q \in Pid : q # p => owner'[q] = owner[q]
        /\ \A d \in Ctx : d # c => OwnedBy(d)' = OwnedBy(d)
    BY <2>2, CtxAssumption DEF ErasePending, OwnedBy, IInv, TypeOK
  <2>4. OwnedAlive'
    BY <1>1, <2>2, <2>3, CtxAssumption, AliveFrame
  <2>5. CountOf(c)'
    <3>1. Cardinality(OwnedBy(c)') = Cardinality(OwnedBy(c)) - 1
      BY <2>2, EraseCounts
    <3>2. y.left >= Cardinality(OwnedBy(c)') /\ Cardinality(OwnedBy(c)') \in Nat
      BY <2>2, NextFiniteSets DEF IInv, CountCovers
    <3>3. y.left \in Int
      BY DEF CtxRecord
    <3>4. y.state = "live" /\ y.capture # "open" => y.left > 0
      <4>1. y.state = "live" /\ y.capture # "open" => y.left # 0
        BY <2>2
      <4>2. y.left # 0 => y.left > 0
        BY <3>2, <3>3
      <4> QED
        BY <4>1, <4>2
    <3>5. x.mode # "resume" => x.left = Cardinality(OwnedBy(c))
      BY <2>2, CountOfEach DEF CountOf
    <3> QED
      BY <2>2, <3>1, <3>4, <3>5 DEF CountOf
  <2> QED
    BY <1>1, <2>2, <2>3, <2>4, <2>5, CountWritten
<1> QED
  BY <1>3, <1>4, <1>5 DEF Reap

LEMMA InitCounts == ASSUME Init PROVE CountInv
<1>1. /\ \A c \in Ctx : ctxs[c].state = "free"
      /\ \A p \in Pid : owner[p] = Untracked
      /\ at = "idle"
  BY DEF Init, FreeCtx, NewCtx
<1> QED
  BY <1>1, CtxAssumption DEF CountInv, LiveCounted, CountExact, OwnedAlive, IsCtxBound

LEMMA StepCounts ==
    ASSUME IInv, IInv', ListsInv, KeptInv, CountInv, TypeOK', [Next]_vars PROVE CountInv'
<1>1. CASE Quiet \/ DrainStage \/ DrainEnd \/ WaitStage
  BY <1>1, QuietCounts, DrainCounts, DrainEndCounts, WaitStageCounts
<1>2. ASSUME NEW p \in Pid,
             Reap(p) \/ SpawnStage(p) \/ \E keep \in BOOLEAN : ForkExec(p, keep)
      PROVE  CountInv'
  BY <1>2, ReapCounts, BornCounts
<1>3. ASSUME NEW c \in Ctx, Begin(c) PROVE CountInv'
  BY <1>3, BeginEffect, BeginCounts DEF Begin, IInv
<1>4. ASSUME NEW c \in Ctx, CaptureEof(c) PROVE CountInv'
  BY <1>4, CaptureEofEffect, EndedCounts
<1>5. CASE WaitEnd
  BY <1>5, WaitEndEffect, EndedCounts
<1>6. CASE SpawnEnd \/ SpawnEndBackground
  BY <1>6, SpawnEndEffect, EnteredCounts
<1> QED
  BY <1>1, <1>2, <1>3, <1>4, <1>5, <1>6, StepKinds

\* A promise counts the pids g_pending holds for it, and they can all still
\* be reaped.
THEOREM PipelinesCounted == Spec => []CountInv
<1>1. Init => CountInv
  BY InitCounts
<1>2. IInv /\ IInv' /\ ListsInv /\ KeptInv /\ CountInv /\ TypeOK' /\ [Next]_vars => CountInv'
  BY StepCounts
<1> QED
  BY <1>1, <1>2, TypeCorrect, InductiveInvariant, ListsApart, ParkedStatusKept, PTL DEF Spec

\* No pipeline is left waiting for processes that have all been reaped.
THEOREM NoneStuck == Spec => []NeverStuck
<1>1. IInv /\ ListsInv /\ CountInv => NeverStuck
  <2> SUFFICES ASSUME IInv, ListsInv, CountInv, NEW c \in Ctx,
                      ctxs[c].state = "live", ctxs[c].want # <<>>, ctxs[c].mode # "resume",
                      ~(at = "wait" /\ cur = c), ctxs[c].capture # "open"
               PROVE  \E i \in DOMAIN ctxs[c].want : proc[ctxs[c].want[i]] # "reaped"
    BY DEF NeverStuck
  <2>1. ~InCall(c)
    BY DEF InCall, ListsInv, CallKnown
  <2>2. ctxs[c].left > 0 /\ ctxs[c].left = Cardinality(OwnedBy(c))
    BY <2>1 DEF CountInv, LiveCounted, CountExact
  <2>3. OwnedBy(c) # {}
    <3> SUFFICES ASSUME OwnedBy(c) = {} PROVE FALSE
      OBVIOUS
    <3>1. Cardinality(OwnedBy(c)) = 0
      BY FS_EmptySet
    <3> QED
      BY <2>2, <3>1
  <2>4. PICK p \in Pid : owner[p] = c
    BY <2>3 DEF OwnedBy
  <2>5. slot[p] \in DOMAIN ctxs[c].want /\ ctxs[c].want[slot[p]] = p /\ proc[p] # "reaped"
    BY <2>4 DEF ListsInv, SlotOfPid, IsCtxBound, CountInv, OwnedAlive
  <2> QED
    BY <2>5
<1> QED
  BY <1>1, InductiveInvariant, ListsApart, PipelinesCounted, PTL

\* The whole invariant holds in every reachable state.
THEOREM StatusInvariant == Spec => []StatusInv
BY InductiveInvariant, ListsApart, ParkedStatusKept, SlotsAccounted, PipelinesCounted, PTL
   DEF StatusInv

=============================================================================
