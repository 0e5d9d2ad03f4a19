--------------------------- MODULE ExecutorProofs ---------------------------
(***************************************************************************)
(* What executeNode keeps in balance, for every program, any number of     *)
(* stages, descriptors, files and variables: the scopes and the snapshots  *)
(* of the variables, the stack of positional parameters, and the           *)
(* descriptors above 2.                                                    *)
(*                                                                         *)
(* The stack of a thread holds one frame for every construct that is under *)
(* way. Most steps move no frame that matters (Quiet); the others put one  *)
(* on top, take one off, or drop them all when the shell exits. So the     *)
(* proofs sort the actions by what they do to the frames, and count.       *)
(***************************************************************************)
EXTENDS Executor, TLAPS, FiniteSetTheorems, SequenceTheorems, WellFoundedInduction

-----------------------------------------------------------------------------
(* Stacks.                                                                 *)

IsSeq(s) == s \in Seq(Range(s))

LEMMA EmptyStack == IsSeq(<<>>) /\ DOMAIN <<>> = {} /\ Len(<<>>) = 0
<1>1. DOMAIN <<>> = {} /\ Len(<<>>) = 0
  OBVIOUS
<1> QED BY <1>1, EmptySeq DEF IsSeq

LEMMA Stack ==
    ASSUME NEW s, IsSeq(s)
    PROVE  /\ Len(s) \in Nat /\ DOMAIN s = 1..Len(s)
           /\ s = <<>> <=> Len(s) = 0
BY DEF IsSeq

LEMMA Pushed ==
    ASSUME NEW s, IsSeq(s), NEW e
    PROVE  /\ IsSeq(Append(s, e))
           /\ DOMAIN Append(s, e) = 1..(Len(s) + 1) /\ Len(Append(s, e)) = Len(s) + 1
           /\ \A i \in 1..Len(s) : Append(s, e)[i] = s[i]
           /\ Append(s, e)[Len(s) + 1] = e
           /\ Append(s, e) # <<>>
<1> DEFINE T == Range(s) \cup {e}
<1>1. s \in Seq(T)
  BY SeqMonotonic DEF IsSeq
<1>2. /\ Append(s, e) \in Seq(T) /\ Append(s, e) # <<>> /\ Len(Append(s, e)) = Len(s) + 1
      /\ \A i \in 1..Len(s) : Append(s, e)[i] = s[i]
      /\ Append(s, e)[Len(s) + 1] = e
  BY <1>1, AppendProperties
<1>3. IsSeq(Append(s, e))
  BY <1>2, SeqOfRange DEF IsSeq
<1>4. DOMAIN Append(s, e) = 1..(Len(s) + 1)
  BY <1>2
<1> QED BY <1>2, <1>3, <1>4

LEMMA Popped ==
    ASSUME NEW s, IsSeq(s), s # <<>>
    PROVE  /\ Len(s) \in Nat \ {0} /\ Len(s) \in DOMAIN s /\ Last(s) = s[Len(s)]
           /\ IsSeq(Front(s))
           /\ DOMAIN Front(s) = 1..(Len(s) - 1) /\ Len(Front(s)) = Len(s) - 1
           /\ \A i \in 1..(Len(s) - 1) : Front(s)[i] = s[i]
<1> DEFINE T == Range(s)
<1>1. s \in Seq(T) /\ Len(s) \in Nat \ {0} /\ DOMAIN s = 1..Len(s)
  BY DEF IsSeq
<1> HIDE DEF T
<1>2. /\ Front(s) \in Seq(T) /\ Len(Front(s)) = Len(s) - 1
      /\ \A i \in 1..(Len(s) - 1) : Front(s)[i] = s[i]
  BY <1>1, SubSeqProperties DEF Front
<1>3. IsSeq(Front(s)) /\ DOMAIN Front(s) = 1..(Len(s) - 1)
  BY <1>1, <1>2, SeqOfRange DEF IsSeq
<1> QED BY <1>1, <1>2, <1>3 DEF Last

LEMMA Written ==
    ASSUME NEW s, IsSeq(s), NEW k, NEW e
    PROVE  IsSeq([s EXCEPT ![k] = e]) /\ Len([s EXCEPT ![k] = e]) = Len(s)
<1> DEFINE T == Range(s) \cup {e}
           r == [s EXCEPT ![k] = e]
<1>1. s \in Seq(T) /\ Len(s) \in Nat /\ DOMAIN s = 1..Len(s) /\ s \in [1..Len(s) -> T]
  BY SeqMonotonic DEF IsSeq
<1>2. r \in [1..Len(s) -> T]
  BY <1>1
<1>3. r \in Seq(T) /\ Len(r) = Len(s)
  BY <1>1, <1>2
<1> QED BY <1>3, SeqOfRange DEF IsSeq

-----------------------------------------------------------------------------
(* The shell: what keeps the three stacks of the process at their heights. *)

ShellFields == {"store", "env", "ro", "scopes", "snaps", "params", "opts", "cwd", "oldpwd", "dirs",
                "funs", "aliases", "trap", "fds", "bufs", "made", "status", "pst", "exited", "crashed"}
ShellOK(s) ==
    /\ DOMAIN s = ShellFields
    /\ IsSeq(s.scopes) /\ IsSeq(s.snaps) /\ IsSeq(s.params) /\ s.params # <<>>
\* r is s with the same heights, and still running only if s is.
Level(s, r) ==
    /\ ShellOK(r)
    /\ Len(r.scopes) = Len(s.scopes) /\ Len(r.snaps) = Len(s.snaps) /\ Len(r.params) = Len(s.params)
    /\ r.exited = <<>> => s.exited = <<>>
Kin(s, r) == Level(s, r) /\ r.fds = s.fds

LEMMA KinSelf == ASSUME NEW s, ShellOK(s) PROVE Kin(s, s)
BY DEF Kin, Level

LEMMA KinTwice ==
    ASSUME NEW s, NEW q, NEW r, Kin(s, q), Kin(q, r) PROVE Kin(s, r)
BY DEF Kin, Level

LEMMA SetVarKin == ASSUME NEW s, ShellOK(s), NEW x, NEW v PROVE Kin(s, SetVar(s, x, v))
BY DEF SetVar, Kin, Level, ShellOK, ShellFields

LEMMA UnsetVarKin == ASSUME NEW s, ShellOK(s), NEW x PROVE Kin(s, UnsetVar(s, x))
BY DEF UnsetVar, Kin, Level, ShellOK, ShellFields

LEMMA DeclareLocalKin == ASSUME NEW s, ShellOK(s), NEW x PROVE Kin(s, DeclareLocal(s, x))
<1> DEFINE k == Len(s.scopes)
           v == [s.scopes[k] EXCEPT ![x] = s.store[x]]
           r == [s EXCEPT !.scopes[k][x] = s.store[x]]
<1>1. r = [s EXCEPT !.scopes = [@ EXCEPT ![k] = v]]
  OBVIOUS
<1>2. IsSeq([s.scopes EXCEPT ![k] = v]) /\ Len([s.scopes EXCEPT ![k] = v]) = Len(s.scopes)
  BY Written DEF ShellOK
<1>3. Kin(s, r)
  BY <1>1, <1>2 DEF Kin, Level, ShellOK, ShellFields
<1> QED BY <1>3, KinSelf DEF DeclareLocal

LEMMA SetParamsKin == ASSUME NEW s, ShellOK(s), NEW args PROVE Kin(s, SetParams(s, args))
<1> DEFINE k == Len(s.params)
           r == [s EXCEPT !.params = [@ EXCEPT ![k] = args]]
<1>1. SetParams(s, args) = r
  BY DEF SetParams
<1>2. /\ IsSeq([s.params EXCEPT ![k] = args]) /\ Len([s.params EXCEPT ![k] = args]) = Len(s.params)
  BY Written DEF ShellOK
<1>3. [s.params EXCEPT ![k] = args] # <<>>
  BY <1>2, Stack DEF ShellOK
<1> QED BY <1>1, <1>2, <1>3 DEF Kin, Level, ShellOK, ShellFields

\* What a builtin comes to: a shell of the same heights, and a value or an exception.
Comes(s, r) == Kin(s, r.s) /\ r.c.k \in {"ret", "throw"}

LEMMA OkComes == ASSUME NEW s, NEW r, Kin(s, r) PROVE Comes(s, Ok(r)) /\ Comes(s, Fails(r))
BY DEF Comes, Ok, Fails, Ret

LEMMA ChangeDirComes == ASSUME NEW s, ShellOK(s), NEW args PROVE Comes(s, ChangeDir(s, args))
<1>1. \A to : Kin(s, [s EXCEPT !.cwd = to, !.oldpwd = s.cwd])
  BY DEF Kin, Level, ShellOK, ShellFields
<1> QED BY <1>1, KinSelf, OkComes DEF ChangeDir

LEMMA PushDirComes == ASSUME NEW s, ShellOK(s), NEW args PROVE Comes(s, PushDir(s, args))
<1>1. Kin(s, [s EXCEPT !.cwd = args[1], !.dirs = Append(@, s.cwd)])
  BY DEF Kin, Level, ShellOK, ShellFields
<1> QED BY <1>1, KinSelf, OkComes DEF PushDir

LEMMA PopDirComes == ASSUME NEW s, ShellOK(s) PROVE Comes(s, PopDir(s))
<1>1. Kin(s, [s EXCEPT !.cwd = Last(s.dirs), !.dirs = Front(@)])
  BY DEF Kin, Level, ShellOK, ShellFields
<1> QED BY <1>1, KinSelf, OkComes DEF PopDir

LEMMA ExportComes == ASSUME NEW s, ShellOK(s), NEW args PROVE Comes(s, Export(s, args))
<1>1. \A r, x, v : ShellOK(r) => Kin(r, [r EXCEPT !.env[x] = v])
  BY DEF Kin, Level, ShellOK, ShellFields
<1>2. Kin(s, SetVar(s, args[1], <<args[2]>>)) /\ ShellOK(SetVar(s, args[1], <<args[2]>>))
  BY SetVarKin DEF Kin, Level
<1>3. Kin(s, [SetVar(s, args[1], <<args[2]>>) EXCEPT !.env[args[1]] = <<args[2]>>])
  BY <1>1, <1>2, KinTwice
<1>4. Kin(s, [s EXCEPT !.env[args[1]] = s.store[args[1]]])
  BY <1>1
<1> QED BY <1>3, <1>4, KinSelf, OkComes DEF Export

LEMMA UnsetsComes == ASSUME NEW s, ShellOK(s), NEW args PROVE Comes(s, Unsets(s, args))
<1>1. Kin(s, [s EXCEPT !.funs = Restrict(@, DOMAIN @ \ {args[2]})])
  BY DEF Kin, Level, ShellOK, ShellFields
<1> QED BY <1>1, UnsetVarKin, OkComes DEF Unsets

LEMMA LocalComes == ASSUME NEW s, ShellOK(s), NEW args PROVE Comes(s, Local(s, args))
<1> DEFINE d == DeclareLocal(s, args[1])
<1>1. Kin(s, d) /\ ShellOK(d)
  BY DeclareLocalKin DEF Kin, Level
<1>2. Kin(s, SetVar(d, args[1], <<args[2]>>))
  BY <1>1, SetVarKin, KinTwice
<1> QED BY <1>1, <1>2, OkComes DEF Local

LEMMA ShiftComes == ASSUME NEW s, ShellOK(s), NEW args PROVE Comes(s, Shift(s, args))
BY KinSelf, SetParamsKin, OkComes DEF Shift

LEMMA ReadonlyComes == ASSUME NEW s, ShellOK(s), NEW args PROVE Comes(s, Readonly(s, args))
<1>1. \A v : Kin(s, [s EXCEPT !.ro = @ \cup {args[1]}, !.store[args[1]] = v])
  BY DEF Kin, Level, ShellOK, ShellFields
<1> QED BY <1>1, OkComes DEF Readonly

LEMMA SetComes == ASSUME NEW s, ShellOK(s), NEW args PROVE Comes(s, Set(s, args))
<1>1. \A o : Kin(s, [s EXCEPT !.opts = o])
  BY DEF Kin, Level, ShellOK, ShellFields
<1> QED BY <1>1, KinSelf, SetParamsKin, OkComes DEF Set

LEMMA AliasComes == ASSUME NEW s, ShellOK(s), NEW args PROVE Comes(s, Alias(s, args)) /\ Comes(s, Unalias(s, args))
<1>1. \A a : Kin(s, [s EXCEPT !.aliases = a])
  BY DEF Kin, Level, ShellOK, ShellFields
<1> QED BY <1>1, KinSelf, OkComes DEF Alias, Unalias

LEMMA JumpComes ==
    ASSUME NEW s, ShellOK(s), NEW name \in {"return", "break", "continue"}, NEW args
    PROVE  Comes(s, Jump(s, name, args))
BY KinSelf DEF Jump, Comes, Throw

LEMMA BuiltinComes ==
    ASSUME NEW s, ShellOK(s), NEW name \in StateBuiltins, NEW args
    PROVE  Comes(s, Builtin(s, name, args))
<1>1. Comes(s, Ok(s)) /\ Comes(s, Fails(s))
  BY KinSelf, OkComes
<1> QED BY <1>1, ChangeDirComes, PushDirComes, PopDirComes, ExportComes, UnsetsComes, LocalComes,
           ShiftComes, ReadonlyComes, SetComes, AliasComes, JumpComes DEF Builtin, StateBuiltins

-----------------------------------------------------------------------------
(* Threads: what a step does to the stack of one.                          *)

Sleeping == {"idle", "process", "exited"}
Asleep(th) == th.c.k \in Sleeping
Wakes(c) == c.k \in {"eval", "ret", "throw", "await", "exec"}
ThreadFields == {"par", "stack", "c", "io", "fds"}
Loops == {"while", "for", "cfor", "select"}
FrameOK(fr) ==
    /\ "f" \in DOMAIN fr
    /\ fr.f = "capture" => DOMAIN fr = {"f", "x", "rfd", "p", "copy", "text"}
    /\ fr.f = "mixed" => DOMAIN fr = {"f", "kids", "neg", "codes", "left"}
    /\ fr.f = "loop" => DOMAIN fr = {"f", "n", "rest", "last", "in"} /\ fr.n.t \in Loops
    /\ fr.f = "subshell" => /\ DOMAIN fr = {"f", "cwd", "opts", "params"}
                            /\ IsSeq(fr.params) /\ fr.params # <<>>
    /\ fr.f = "redir" => DOMAIN fr = {"f", "saved", "opened"}
    /\ fr.f = "stage" => DOMAIN fr = {"f", "close", "js"}
WellFormed(th) ==
    /\ DOMAIN th = ThreadFields
    /\ IsSeq(th.stack)
    /\ Asleep(th) => th.stack = <<>> /\ "k" \in DOMAIN th.c
    /\ \A i \in DOMAIN th.stack : FrameOK(th.stack[i]) /\ (th.stack[i].f = "stage" => i = 1)
    /\ th.c.k = "redirect" => th.stack # <<>> /\ Last(th.stack).f = "redir"

\* The frames of the kinds N are the same, at the same places, in two stacks.
Marks == {"call", "source", "subshell", "exit"}
Noted == Marks \cup {"redir", "stage", "capture", "mixed"}
Alike(fr, gr) ==
    gr = fr \/ (fr.f = "capture" /\ gr.f = "capture" /\ gr.rfd = fr.rfd /\ gr.copy = fr.copy)
Steady(N, s, r) ==
    /\ \A i : (i \in DOMAIN r /\ r[i].f \in N) <=> (i \in DOMAIN s /\ s[i].f \in N)
    /\ \A i \in DOMAIN s : s[i].f \in N => Alike(s[i], r[i])
Calm(th, ti) ==
    /\ WellFormed(ti)
    /\ Asleep(ti) <=> Asleep(th)
    /\ Steady(Noted, th.stack, ti.stack)

LEMMA SteadySelf == ASSUME NEW N, NEW s PROVE Steady(N, s, s)
BY DEF Steady, Alike

LEMMA SteadyTwice ==
    ASSUME NEW N, NEW s, NEW q, NEW r, Steady(N, s, q), Steady(N, q, r) PROVE Steady(N, s, r)
BY DEF Steady, Alike

LEMMA SteadyPush ==
    ASSUME NEW N, NEW s, IsSeq(s), NEW fr, fr.f \notin N PROVE Steady(N, s, Append(s, fr))
<1>1. /\ Len(s) \in Nat /\ DOMAIN s = 1..Len(s) /\ DOMAIN Append(s, fr) = 1..(Len(s) + 1)
      /\ \A i \in 1..Len(s) : Append(s, fr)[i] = s[i]
      /\ Append(s, fr)[Len(s) + 1] = fr
  BY Stack, Pushed
<1>2. \A i : i \in 1..(Len(s) + 1) <=> i \in 1..Len(s) \/ i = Len(s) + 1
  BY <1>1
<1> QED BY <1>1, <1>2, Zenon DEF Steady, Alike

LEMMA SteadyPop ==
    ASSUME NEW N, NEW s, IsSeq(s), s # <<>>, Last(s).f \notin N PROVE Steady(N, s, Front(s))
<1>1. /\ Len(s) \in Nat \ {0} /\ DOMAIN s = 1..Len(s) /\ DOMAIN Front(s) = 1..(Len(s) - 1)
      /\ \A i \in 1..(Len(s) - 1) : Front(s)[i] = s[i]
      /\ Last(s) = s[Len(s)]
  BY Stack, Popped
<1>2. \A i : i \in 1..Len(s) <=> i \in 1..(Len(s) - 1) \/ i = Len(s)
  BY <1>1
<1> QED BY <1>1, <1>2, Zenon DEF Steady, Alike

LEMMA SteadySwap ==
    ASSUME NEW N, NEW s, IsSeq(s), s # <<>>, NEW fr,
           fr.f = Last(s).f, fr.f \in N => Alike(Last(s), fr)
    PROVE  Steady(N, s, Append(Front(s), fr))
<1>1. /\ Len(s) \in Nat \ {0} /\ DOMAIN s = 1..Len(s) /\ Len(Front(s)) = Len(s) - 1 /\ IsSeq(Front(s))
      /\ \A i \in 1..(Len(s) - 1) : Front(s)[i] = s[i]
      /\ Last(s) = s[Len(s)]
  BY Stack, Popped
<1> DEFINE r == Append(Front(s), fr)
<1>2. DOMAIN r = 1..Len(s) /\ r[Len(s)] = fr /\ \A i \in 1..(Len(s) - 1) : r[i] = s[i]
  <2>1. DOMAIN r = 1..(Len(Front(s)) + 1)
    BY <1>1, Pushed
  <2>2. r[Len(Front(s)) + 1] = fr
    BY <1>1, Pushed
  <2>3. \A i \in 1..Len(Front(s)) : r[i] = Front(s)[i]
    BY <1>1, Pushed
  <2> HIDE DEF r
  <2> QED BY <1>1, <2>1, <2>2, <2>3
<1>3. \A i : i \in 1..Len(s) <=> i \in 1..(Len(s) - 1) \/ i = Len(s)
  BY <1>1
<1> HIDE DEF r
<1>4. \A i \in DOMAIN s : r[i].f = s[i].f /\ (s[i].f \in N => Alike(s[i], r[i]))
  BY <1>1, <1>2, <1>3, Zenon DEF Alike
<1>5. Steady(N, s, r)
  BY <1>1, <1>2, <1>4, Zenon DEF Steady
<1> QED BY <1>5 DEF r

\* The five ways in which a step treats the stack of its thread.
LEMMA WellFormedFacts ==
    ASSUME NEW th, WellFormed(th)
    PROVE  /\ DOMAIN th = ThreadFields /\ IsSeq(th.stack)
           /\ Len(th.stack) \in Nat /\ DOMAIN th.stack = 1..Len(th.stack)
           /\ th.stack # <<>> => ~Asleep(th) /\ FrameOK(Last(th.stack))
BY Stack, Popped DEF WellFormed

LEMMA CalmSelf == ASSUME NEW th, WellFormed(th) PROVE Calm(th, th)
BY SteadySelf DEF Calm

LEMMA CalmTwice ==
    ASSUME NEW th, NEW ti, NEW tj, Calm(th, ti), Calm(ti, tj) PROVE Calm(th, tj)
BY SteadyTwice DEF Calm

LEMMA BecomeFits ==
    ASSUME NEW th, WellFormed(th), NEW c, Wakes(c)
    PROVE  LET ti == Become(th, c)
           IN  WellFormed(ti) /\ ~Asleep(ti) /\ ti.stack = th.stack /\ ti.c = c
BY DEF Become, WellFormed, Asleep, Sleeping, Wakes, ThreadFields

Push(th, fr, c) == [th EXCEPT !.stack = Append(@, fr), !.c = c]

LEMMA PushFits ==
    ASSUME NEW th, WellFormed(th), NEW c, Wakes(c), NEW fr, FrameOK(fr), fr.f # "stage"
    PROVE  LET ti == Push(th, fr, c)
           IN  WellFormed(ti) /\ ~Asleep(ti) /\ ti.stack = Append(th.stack, fr) /\ ti.c = c
<1> DEFINE ti == Push(th, fr, c)
<1>1. DOMAIN ti = ThreadFields /\ ti.stack = Append(th.stack, fr) /\ ti.c = c
  BY DEF WellFormed, ThreadFields, Push
<1>2. /\ IsSeq(ti.stack) /\ Len(th.stack) \in Nat /\ DOMAIN th.stack = 1..Len(th.stack)
      /\ DOMAIN ti.stack = 1..(Len(th.stack) + 1)
      /\ \A i \in 1..Len(th.stack) : ti.stack[i] = th.stack[i]
      /\ ti.stack[Len(th.stack) + 1] = fr
  BY <1>1, Stack, Pushed DEF WellFormed
<1>3. \A i \in DOMAIN ti.stack : FrameOK(ti.stack[i]) /\ (ti.stack[i].f = "stage" => i = 1)
  BY <1>2 DEF WellFormed
<1>4. ~Asleep(ti) /\ ti.c.k # "redirect"
  BY <1>1 DEF Asleep, Sleeping, Wakes
<1> HIDE DEF ti
<1>5. WellFormed(ti)
  BY <1>1, <1>2, <1>3, <1>4 DEF WellFormed
<1> QED BY <1>1, <1>4, <1>5 DEF ti

LEMMA PopFits ==
    ASSUME NEW th, WellFormed(th), NEW c, Wakes(c), th.stack # <<>>
    PROVE  LET ti == Return(th, c)
           IN  WellFormed(ti) /\ ~Asleep(ti) /\ ti.stack = Front(th.stack) /\ ti.c = c
<1> DEFINE ti == Return(th, c)
<1>1. DOMAIN ti = ThreadFields /\ ti.stack = Front(th.stack) /\ ti.c = c
  BY DEF WellFormed, ThreadFields, Return
<1>2. /\ IsSeq(ti.stack) /\ Len(th.stack) \in Nat /\ DOMAIN th.stack = 1..Len(th.stack)
      /\ DOMAIN ti.stack = 1..(Len(th.stack) - 1)
      /\ \A i \in 1..(Len(th.stack) - 1) : ti.stack[i] = th.stack[i]
  BY <1>1, Stack, Popped DEF WellFormed
<1>3. \A i \in DOMAIN ti.stack : FrameOK(ti.stack[i]) /\ (ti.stack[i].f = "stage" => i = 1)
  BY <1>2 DEF WellFormed
<1>4. ~Asleep(ti) /\ ti.c.k # "redirect"
  BY <1>1 DEF Asleep, Sleeping, Wakes
<1> HIDE DEF ti
<1>5. WellFormed(ti)
  BY <1>1, <1>2, <1>3, <1>4 DEF WellFormed
<1> QED BY <1>1, <1>4, <1>5 DEF ti

LEMMA CalmBecome ==
    ASSUME NEW th, WellFormed(th), ~Asleep(th), NEW c, Wakes(c) PROVE Calm(th, Become(th, c))
BY BecomeFits, SteadySelf DEF Calm

LEMMA CalmPush ==
    ASSUME NEW th, WellFormed(th), ~Asleep(th), NEW c, Wakes(c),
           NEW fr, FrameOK(fr), fr.f \notin Noted
    PROVE  Calm(th, Push(th, fr, c))
<1>1. fr.f # "stage"
  BY DEF Noted
<1>2. Steady(Noted, th.stack, Append(th.stack, fr))
  BY SteadyPush DEF WellFormed
<1>3. WellFormed(Push(th, fr, c)) /\ ~Asleep(Push(th, fr, c))
  BY <1>1, PushFits
<1>4. Push(th, fr, c).stack = Append(th.stack, fr)
  BY <1>1, PushFits
<1> QED BY <1>2, <1>3, <1>4 DEF Calm

LEMMA CalmCall ==
    ASSUME NEW th, WellFormed(th), ~Asleep(th), NEW n, NEW fr, FrameOK(fr), fr.f \notin Noted
    PROVE  Calm(th, Call(th, fr, n))
<1>1. Wakes(Eval(n))
  BY DEF Wakes, Eval
<1> QED BY <1>1, CalmPush DEF Call, Push

LEMMA CalmReturn ==
    ASSUME NEW th, WellFormed(th), NEW c, Wakes(c), th.stack # <<>>, Last(th.stack).f \notin Noted
    PROVE  Calm(th, Return(th, c)) /\ WellFormed(Return(th, c)) /\ ~Asleep(Return(th, c))
<1>1. Steady(Noted, th.stack, Front(th.stack))
  BY SteadyPop DEF WellFormed
<1>2. ~Asleep(th)
  BY WellFormedFacts
<1> QED BY <1>1, <1>2, PopFits DEF Calm

\* A frame goes and another one comes: the next round, the next entry.
LEMMA CalmNext ==
    ASSUME NEW th, WellFormed(th), NEW n, th.stack # <<>>, Last(th.stack).f \notin Noted,
           NEW fr, FrameOK(fr), fr.f \notin Noted
    PROVE  Calm(th, Call(Return(th, Await), fr, n))
<1>1. Wakes(Await)
  BY DEF Wakes, Await
<1> QED BY <1>1, CalmReturn, CalmCall, CalmTwice

-----------------------------------------------------------------------------
(* Steps that leave the descriptors and the noted frames alone.            *)

Shape ==
    /\ ShellOK(sh)
    /\ DOMAIN threads = Thread
    /\ \A u \in Thread : WellFormed(threads[u])
Quiet ==
    /\ Kin(sh, sh')
    /\ DOMAIN threads' = Thread
    /\ \A u \in Thread : Calm(threads[u], threads'[u])

LEMMA WakingControls ==
    /\ \A n : Wakes(Eval(n)) /\ \A v : Wakes(Ret(v)) /\ \A e, w : Wakes(Throw(e, w)) /\ Wakes(Await)
BY DEF Wakes, Eval, Ret, Throw, Await

LEMMA PutQuiet ==
    ASSUME Shape, NEW t \in Thread, NEW s, NEW th,
           Kin(sh, s), Calm(threads[t], th), Put(t, s, th)
    PROVE  Quiet
<1>1. DOMAIN threads' = Thread /\ threads'[t] = th
  BY DEF Put, Shape
<1>2. \A u \in Thread : u # t => threads'[u] = threads[u]
  BY DEF Put, Shape
<1>3. \A u \in Thread : Calm(threads[u], threads'[u])
  BY <1>1, <1>2, CalmSelf DEF Shape
<1> QED BY <1>1, <1>3 DEF Quiet, Put

LEMMA BecomeQuiet ==
    ASSUME Shape, NEW t \in Thread, NEW s, NEW c,
           Kin(sh, s), ~Asleep(threads[t]), Wakes(c), Put(t, s, Become(threads[t], c))
    PROVE  Quiet
BY CalmBecome, PutQuiet DEF Shape

LEMMA CallQuiet ==
    ASSUME Shape, NEW t \in Thread, NEW s, NEW fr, NEW n,
           Kin(sh, s), ~Asleep(threads[t]), FrameOK(fr), fr.f \notin Noted,
           Put(t, s, Call(threads[t], fr, n))
    PROVE  Quiet
BY CalmCall, PutQuiet DEF Shape

LEMMA ReturnQuiet ==
    ASSUME Shape, NEW t \in Thread, NEW s, NEW c,
           Kin(sh, s), Wakes(c), threads[t].stack # <<>>, Top(threads[t]).f \notin Noted,
           Put(t, s, Return(threads[t], c))
    PROVE  Quiet
BY CalmReturn, PutQuiet DEF Shape, Top

LEMMA NextQuiet ==
    ASSUME Shape, NEW t \in Thread, NEW s, NEW fr, NEW n,
           Kin(sh, s), threads[t].stack # <<>>, Top(threads[t]).f \notin Noted,
           FrameOK(fr), fr.f \notin Noted,
           Put(t, s, Call(Return(threads[t], Await), fr, n))
    PROVE  Quiet
BY CalmNext, PutQuiet DEF Shape, Top

LEMMA Awake ==
    ASSUME NEW t, threads[t].c.k \in {"eval", "ret", "throw", "await", "redirect", "exec"}
    PROVE  ~Asleep(threads[t])
BY DEF Asleep, Sleeping

LEMMA SameShell == ASSUME Shape PROVE ShellOK(sh) /\ Kin(sh, sh)
BY KinSelf DEF Shape

-----------------------------------------------------------------------------
(* Simple commands.                                                        *)

LEMMA ReadyAwake == ASSUME NEW t, Ready(t) PROVE ~Asleep(threads[t])
BY Awake DEF Ready, Evaluating

LEMMA ExpandAliasQuiet == ASSUME Shape, NEW t \in Thread, ExpandAlias(t) PROVE Quiet
<1>1. ~Asleep(threads[t])
  BY Awake DEF ExpandAlias, Evaluating
<1> QED BY <1>1, SameShell, BecomeQuiet, WakingControls DEF ExpandAlias, Only

LEMMA AssignQuiet == ASSUME Shape, NEW t \in Thread, Assign(t) PROVE Quiet
<1> DEFINE n == Node(t)
           x == Head(n.as)[1]
           v == ExpandAll(sh, Head(n.as)[2])
           s == SetVar(sh, x, v)
           r == IF "allexport" \in sh.opts THEN [s EXCEPT !.env[x] = v] ELSE s
<1>1. ~Asleep(threads[t])
  BY ReadyAwake DEF Assign
<1>2. Kin(sh, s) /\ ShellOK(s)
  BY SameShell, SetVarKin DEF Kin, Level
<1>3. Kin(s, [s EXCEPT !.env[x] = v])
  <2> HIDE DEF s
  <2> QED BY <1>2 DEF Kin, Level, ShellOK, ShellFields
<1>4. Kin(sh, r)
  BY <1>2, <1>3, KinTwice
<1>5. CASE x \in sh.ro
  BY <1>1, <1>5, SameShell, BecomeQuiet, WakingControls DEF Assign, Only
<1>6. CASE x \notin sh.ro
  <2>1. Put(t, r, Become(threads[t], Eval([n EXCEPT !.t = "assigning", !.as = Tail(@)])))
    BY <1>6 DEF Assign, Only
  <2> QED BY <2>1, <1>1, <1>4, BecomeQuiet, WakingControls
<1> QED BY <1>5, <1>6

LEMMA OnlyAssignQuiet == ASSUME Shape, NEW t \in Thread, OnlyAssign(t) PROVE Quiet
<1>1. ~Asleep(threads[t])
  BY ReadyAwake DEF OnlyAssign, Command
<1> QED BY <1>1, SameShell, BecomeQuiet, WakingControls DEF OnlyAssign, Only

LEMMA CallJsQuiet == ASSUME Shape, NEW t \in Thread, CallJs(t) PROVE Quiet
<1>1. ~Asleep(threads[t])
  BY ReadyAwake DEF CallJs, Command
<1>2. FrameOK([f |-> "pipestatus"]) /\ [f |-> "pipestatus"].f \notin Noted
  BY DEF FrameOK, Noted, Marks
<1> QED BY <1>1, <1>2, SameShell, CallQuiet DEF CallJs, Only

LEMMA ExecRedirectionsQuiet == ASSUME Shape, NEW t \in Thread, ExecRedirections(t) PROVE Quiet
<1>1. ~Asleep(threads[t])
  BY ReadyAwake DEF ExecRedirections, Command
<1>2. Wakes([k |-> "exec", rs |-> Node(t).rs])
  BY DEF Wakes
<1> QED BY <1>1, <1>2, SameShell, BecomeQuiet DEF ExecRedirections, Only

LEMMA ExecAppliedQuiet == ASSUME Shape, NEW t \in Thread, ExecApplied(t) PROVE Quiet
<1>1. ~Asleep(threads[t])
  BY Awake DEF ExecApplied, Controlled
<1>2. Kin(sh, [sh EXCEPT !.pst = <<0>>])
  BY SameShell DEF Kin, Level, ShellOK, ShellFields
<1> QED BY <1>1, <1>2, BecomeQuiet, WakingControls DEF ExecApplied, Only

LEMMA CallBuiltinQuiet == ASSUME Shape, NEW t \in Thread, CallBuiltin(t) PROVE Quiet
<1>1. ~Asleep(threads[t])
  BY ReadyAwake DEF CallBuiltin, Command
<1>2. FrameOK([f |-> "pipestatus"]) /\ [f |-> "pipestatus"].f \notin Noted
  BY DEF FrameOK, Noted, Marks
<1>3. PICK n : Put(t, sh, Call(threads[t], [f |-> "pipestatus"], n))
  BY DEF CallBuiltin, Only
<1> QED BY <1>1, <1>2, <1>3, SameShell, CallQuiet

LEMMA RedirectedQuiet == ASSUME Shape, NEW t \in Thread, Redirected(t) PROVE Quiet
<1>1. ~Asleep(threads[t])
  BY Awake DEF Redirected, Controlled
<1> QED BY <1>1, SameShell, BecomeQuiet, WakingControls DEF Redirected, Only

LEMMA ExternalQuiet == ASSUME Shape, NEW t \in Thread, External(t) PROVE Quiet
<1>1. ~Asleep(threads[t])
  BY ReadyAwake DEF External, Command
<1>2. PICK n : Put(t, sh, Become(threads[t], Eval(n)))
  BY DEF External, Only
<1> QED BY <1>1, <1>2, SameShell, BecomeQuiet, WakingControls

-----------------------------------------------------------------------------
(* Builtins at work.                                                       *)

LEMMA RunAwake == ASSUME NEW t, NEW names, Running1(t, names) PROVE ~Asleep(threads[t])
BY Awake DEF Running1, Evaluating

LEMMA RunBuiltinQuiet == ASSUME Shape, NEW t \in Thread, RunBuiltin(t) PROVE Quiet
<1> DEFINE r == Builtin(sh, Node(t).ws[1], RunArgs(t))
<1>1. ~Asleep(threads[t]) /\ Node(t).ws[1] \in StateBuiltins
  BY RunAwake DEF RunBuiltin, Running1
<1>2. Comes(sh, r)
  BY <1>1, SameShell, BuiltinComes
<1>3. Put(t, r.s, Become(threads[t], r.c))
  BY DEF RunBuiltin, Only
<1> HIDE DEF r
<1>4. Kin(sh, r.s) /\ Wakes(r.c)
  BY <1>2 DEF Comes, Wakes
<1> QED BY <1>1, <1>3, <1>4, BecomeQuiet

LEMMA EchoQuiet == ASSUME Shape, NEW t \in Thread, Echo(t) PROVE Quiet
<1>1. ~Asleep(threads[t])
  BY RunAwake DEF Echo
<1>2. PICK end : Put(t, sh, Become(threads[t], WriteResult(end)))
  BY DEF Echo
<1>3. Wakes(WriteResult(end))
  BY WakingControls DEF WriteResult
<1> QED BY <1>1, <1>2, <1>3, SameShell, BecomeQuiet

LEMMA ReadLineQuiet ==
    ASSUME Shape, NEW t \in Thread, ~Asleep(threads[t]), NEW fd, NEW ls, ReadLine(t, fd, ls)
    PROVE  Quiet
<1> DEFINE x == RunArgs(t)[1]
           s == IF ls = <<>> THEN sh ELSE SetVar(sh, x, <<ls[1]>>)
           r == IF fd = -1 \/ ls = <<>> THEN s ELSE [s EXCEPT !.bufs[fd] = Tail(ls)]
           c == Ret(IF ls = <<>> THEN 1 ELSE 0)
<1>1. Kin(sh, s) /\ ShellOK(s)
  BY SameShell, SetVarKin DEF Kin, Level
<1>2. Kin(s, [s EXCEPT !.bufs[fd] = Tail(ls)])
  <2> HIDE DEF s
  <2> QED BY <1>1 DEF Kin, Level, ShellOK, ShellFields
<1>3. Kin(sh, r)
  BY <1>1, <1>2, KinTwice
<1>4. Put(t, r, Become(threads[t], c))
  BY DEF ReadLine, Put
<1> QED BY <1>3, <1>4, BecomeQuiet, WakingControls

LEMMA ReadQuiet == ASSUME Shape, NEW t \in Thread, ReadFile(t) \/ Read(t) PROVE Quiet
<1>1. ~Asleep(threads[t])
  BY RunAwake DEF ReadFile, Read
<1>2. \E fd, ls : ReadLine(t, fd, ls)
  BY DEF ReadFile, Read
<1> QED BY <1>1, <1>2, ReadLineQuiet

\* source with arguments has parameters of its own; the others are quiet.
Sourcing(t) ==
    /\ Running1(t, {"source"})
    /\ Only(t, PushParams(sh, RunArgs(t)), Call(threads[t], [f |-> "source"], Node(t).sub))

LEMMA RunTreeCases == ASSUME Shape, NEW t \in Thread, RunTree(t) PROVE Quiet \/ Sourcing(t)
<1> DEFINE n == Node(t)
           th == threads[t]
<1>1. ~Asleep(th) /\ n.ws[1] \in {"eval", "time", "source"}
  BY RunAwake DEF RunTree, Running1
<1>2. CASE n.ws[1] = "eval"
  <2>1. Put(t, sh, Call(th, [f |-> "eval"], n.sub))
    BY <1>2 DEF RunTree, Only
  <2>2. FrameOK([f |-> "eval"]) /\ [f |-> "eval"].f \notin Noted
    BY DEF FrameOK, Noted, Marks
  <2> QED BY <1>1, <2>1, <2>2, SameShell, CallQuiet
<1>3. CASE n.ws[1] = "time" \/ (n.ws[1] = "source" /\ Len(n.ws) = 1)
  <2>1. Put(t, sh, Become(th, Eval(n.sub)))
    BY <1>3 DEF RunTree, Only
  <2> QED BY <1>1, <2>1, SameShell, BecomeQuiet, WakingControls
<1>4. CASE n.ws[1] = "source" /\ Len(n.ws) # 1
  BY <1>4 DEF RunTree, Sourcing, Running1
<1> QED BY <1>1, <1>2, <1>3, <1>4

LEMMA RunCommandQuiet == ASSUME Shape, NEW t \in Thread, RunCommand(t) PROVE Quiet
<1>1. ~Asleep(threads[t])
  BY RunAwake DEF RunCommand
<1>2. PICK c : Put(t, sh, Become(threads[t], c)) /\ Wakes(c)
  BY WakingControls DEF RunCommand, Only
<1> QED BY <1>1, <1>2, SameShell, BecomeQuiet

LEMMA SetTrapQuiet == ASSUME Shape, NEW t \in Thread, SetTrap(t) PROVE Quiet
<1>1. ~Asleep(threads[t])
  BY RunAwake DEF SetTrap
<1>2. Kin(sh, [sh EXCEPT !.trap = Node(t).sub])
  BY SameShell DEF Kin, Level, ShellOK, ShellFields
<1> QED BY <1>1, <1>2, BecomeQuiet, WakingControls DEF SetTrap, Only

-----------------------------------------------------------------------------
(* Processes and pipelines of processes.                                   *)

LEMMA SleepFits ==
    ASSUME NEW th, DOMAIN th = ThreadFields, th.stack = <<>>, Asleep(th), "k" \in DOMAIN th.c
    PROVE  WellFormed(th)
<1>1. th.c.k # "redirect"
  BY DEF Asleep, Sleeping
<1> QED BY <1>1, EmptyStack DEF WellFormed

LEMMA CalmSleep ==
    ASSUME NEW th, NEW ti, WellFormed(th), WellFormed(ti), Asleep(th), Asleep(ti) PROVE Calm(th, ti)
<1>1. th.stack = <<>> /\ ti.stack = <<>>
  BY DEF WellFormed
<1> QED BY <1>1, SteadySelf DEF Calm

LEMMA IdleFits == WellFormed(Idle) /\ Asleep(Idle) /\ Idle.stack = <<>> /\ DOMAIN Idle = ThreadFields
<1>1. Asleep(Idle) /\ Idle.stack = <<>> /\ DOMAIN Idle = ThreadFields /\ "k" \in DOMAIN Idle.c
  BY DEF Idle, Asleep, Sleeping, ThreadFields
<1> QED BY <1>1, SleepFits

LEMMA ForkFits ==
    ASSUME NEW par, NEW cmd, NEW in, NEW out, NEW err
    PROVE  WellFormed(Fork(par, cmd, in, out, err)) /\ Asleep(Fork(par, cmd, in, out, err))
<1> DEFINE th == Fork(par, cmd, in, out, err)
<1>1. DOMAIN th = ThreadFields
  BY DEF Fork, Idle, ThreadFields
<1>2. th.stack = <<>>
  BY DEF Fork, Idle
<1>3. th.c.k = "process" /\ "k" \in DOMAIN th.c
  BY DEF Fork, Idle
<1> QED BY <1>1, <1>2, <1>3, SleepFits DEF Asleep, Sleeping

LEMMA LowestIn ==
    ASSUME NEW S, NEW n, Enough(S, n)
    PROVE  /\ DOMAIN Lowest(S, n) = 1..n /\ Range(Lowest(S, n)) \subseteq S
           /\ \A i \in 1..n : Lowest(S, n)[i] \in S /\ Nth(S, i) \in S /\ IsNth(S, i, Nth(S, i))
<1>1. \A i \in 1..n : Nth(S, i) \in S /\ IsNth(S, i, Nth(S, i))
  BY DEF Enough, Nth, IsNth
<1> QED BY <1>1 DEF Lowest, Range

LEMMA FreeAsleep ==
    ASSUME Shape, NEW u \in FreeThreads PROVE u \in Thread /\ Asleep(threads[u]) /\ ~AskedFor(u)
BY DEF FreeThreads, Asleep, Sleeping

LEMMA SpawnAllCalm ==
    ASSUME Shape, NEW ths, DOMAIN ths = Thread, NEW par, NEW cmds, NEW kids, NEW ps, NEW in, NEW out, NEW err,
           Range(kids) \subseteq FreeThreads,
           \A u \in Thread \ Range(kids) : Calm(threads[u], ths[u]),
           threads' = SpawnAll(ths, par, cmds, kids, ps, in, out, err)
    PROVE  DOMAIN threads' = Thread /\ \A u \in Thread : Calm(threads[u], threads'[u])
<1>1. DOMAIN threads' = Thread
  BY DEF SpawnAll
<1>2. ASSUME NEW u \in Thread \ Range(kids) PROVE Calm(threads[u], threads'[u])
  <2>1. threads'[u] = ths[u]
    BY DEF SpawnAll
  <2> QED BY <2>1
<1>3. ASSUME NEW u \in Range(kids) PROVE u \in Thread => Calm(threads[u], threads'[u])
  <2>1. u \in Thread /\ Asleep(threads[u]) /\ WellFormed(threads[u])
    BY FreeAsleep DEF Shape
  <2>2. PICK cmd, i, o : threads'[u] = Fork(par, cmd, i, o, err)
    BY <2>1 DEF SpawnAll
  <2> QED BY <2>1, <2>2, ForkFits, CalmSleep
<1> QED BY <1>1, <1>2, <1>3

LEMMA SpawnQuiet == ASSUME Shape, NEW t \in Thread, Spawn(t) PROVE Quiet
<1> DEFINE n == Node(t)
           k == Len(n.ns)
           kids == Lowest(FreeThreads, k)
           fr == [f |-> "wait", kids |-> kids, neg |-> n.neg, quiet |-> n.quiet, pipe |-> n.pipe]
           th == Push(threads[t], fr, Await)
           ths == [threads EXCEPT ![t] = th]
<1>1. threads[t].c.k = "eval" /\ ~Asleep(threads[t]) /\ Enough(FreeThreads, k) /\ sh' = sh
  BY Awake DEF Spawn, Evaluating
<1>2. Range(kids) \subseteq FreeThreads
  BY <1>1, LowestIn
<1>3. \E cmds, ps, in, out, err : threads' = SpawnAll(ths, t, cmds, kids, ps, in, out, err)
  BY DEF Spawn, Push
<1>4. FrameOK(fr) /\ fr.f \notin Noted
  BY DEF FrameOK, Noted, Marks
<1> HIDE DEF fr, kids
<1>5. Calm(threads[t], th)
  BY <1>1, <1>4, CalmPush, WakingControls DEF Shape
<1>6. DOMAIN ths = Thread /\ \A u \in Thread : Calm(threads[u], ths[u])
  <2> HIDE DEF th
  <2>1. DOMAIN ths = Thread /\ ths[t] = th /\ \A u \in Thread : u # t => ths[u] = threads[u]
    BY DEF Shape
  <2> QED BY <1>5, <2>1, CalmSelf DEF Shape
<1> HIDE DEF ths
<1> QED BY <1>1, <1>2, <1>3, <1>6, SpawnAllCalm, SameShell DEF Quiet

LEMMA BackgroundQuiet == ASSUME Shape, NEW t \in Thread, Background(t) PROVE Quiet
<1>1. threads[t].c.k = "eval" /\ ~Asleep(threads[t])
  BY Awake DEF Background, Evaluating
<1>2. CASE Only(t, sh, Become(threads[t], Eval(Node(t).n)))
  BY <1>1, <1>2, SameShell, BecomeQuiet, WakingControls DEF Only
<1>3. ASSUME NEW k, NEW cmds, NEW ps, NEW in, NEW out, NEW err, Enough(FreeThreads, k), sh' = sh,
             threads' = SpawnAll([threads EXCEPT ![t] = Become(@, Ret(0))], 0, cmds,
                                 Lowest(FreeThreads, k), ps, in, out, err)
      PROVE  Quiet
  <2> DEFINE ths == [threads EXCEPT ![t] = Become(@, Ret(0))]
  <2>1. Range(Lowest(FreeThreads, k)) \subseteq FreeThreads
    BY <1>3, LowestIn
  <2>2. Calm(threads[t], Become(threads[t], Ret(0)))
    BY <1>1, CalmBecome, WakingControls DEF Shape
  <2>3. DOMAIN ths = Thread /\ \A u \in Thread : Calm(threads[u], ths[u])
    <3>1. DOMAIN ths = Thread /\ ths[t] = Become(threads[t], Ret(0)) /\ \A u \in Thread : u # t => ths[u] = threads[u]
      BY DEF Shape
    <3> QED BY <2>2, <3>1, CalmSelf DEF Shape
  <2>4. threads' = SpawnAll(ths, 0, cmds, Lowest(FreeThreads, k), ps, in, out, err)
    BY <1>3
  <2> HIDE DEF ths
  <2>5. DOMAIN threads' = Thread /\ \A u \in Thread : Calm(threads[u], threads'[u])
    BY <2>1, <2>3, <2>4, SpawnAllCalm
  <2> QED BY <1>3, <2>5, SameShell DEF Quiet
<1>4. \/ Only(t, sh, Become(threads[t], Eval(Node(t).n)))
      \/ \E k, cmds, ps, in, out, err :
            /\ Enough(FreeThreads, k) /\ sh' = sh
            /\ threads' = SpawnAll([threads EXCEPT ![t] = Become(@, Ret(0))], 0, cmds,
                                   Lowest(FreeThreads, k), ps, in, out, err)
  BY DEF Background
<1> QED BY <1>2, <1>3, <1>4

LEMMA PurePipelineQuiet == ASSUME Shape, NEW t \in Thread, PurePipeline(t) PROVE Quiet
<1>1. ~Asleep(threads[t])
  BY Awake DEF PurePipeline, Evaluating
<1>2. PICK n : Put(t, sh, Become(threads[t], Eval(n)))
  BY DEF PurePipeline, Only
<1> QED BY <1>1, <1>2, SameShell, BecomeQuiet, WakingControls

\* The processes a pipeline waited for are given up; they are asleep.
LEMMA CollectCalm ==
    ASSUME Shape, NEW t \in Thread, NEW th, NEW kids, Collect(t, th, kids),
           Calm(threads[t], th), \A u \in kids : u \in Thread => u = t \/ Asleep(threads[u])
    PROVE  DOMAIN threads' = Thread /\ \A u \in Thread : Calm(threads[u], threads'[u])
<1>1. DOMAIN threads' = Thread /\ threads'[t] = th
  BY DEF Collect
<1>2. ASSUME NEW u \in Thread, u # t PROVE Calm(threads[u], threads'[u])
  <2>1. CASE u \in kids
    <3>1. threads'[u] = Idle
      BY <1>2, <2>1 DEF Collect
    <3> QED BY <1>2, <2>1, <3>1, IdleFits, CalmSleep DEF Shape
  <2>2. CASE u \notin kids
    <3>1. threads'[u] = threads[u]
      BY <1>2, <2>2 DEF Collect
    <3> QED BY <3>1, CalmSelf DEF Shape
  <2> QED BY <2>1, <2>2
<1> QED BY <1>1, <1>2

LEMMA SpawnedQuiet == ASSUME Shape, NEW t \in Thread, Spawned(t) PROVE Quiet
<1> DEFINE fr == Top(threads[t])
           codes == [i \in DOMAIN fr.kids |-> threads[fr.kids[i]].c.v]
<1>1. /\ threads[t].stack # <<>> /\ fr.f = "wait" /\ fr.f \notin Noted
      /\ \A i \in DOMAIN fr.kids : threads[fr.kids[i]].c.k = "exited"
  BY DEF Spawned, Awaiting, Noted, Marks
<1>2. PICK v : Collect(t, Return(threads[t], Ret(v)), Range(fr.kids))
  BY DEF Spawned
<1>3. Calm(threads[t], Return(threads[t], Ret(v)))
  BY <1>1, CalmReturn, WakingControls DEF Shape, Top
<1>4. \A u \in Range(fr.kids) : Asleep(threads[u])
  BY <1>1 DEF Range, Asleep, Sleeping
<1>5. DOMAIN threads' = Thread /\ \A u \in Thread : Calm(threads[u], threads'[u])
  <2> HIDE DEF fr
  <2> QED BY <1>2, <1>3, <1>4, CollectCalm
<1>6. Kin(sh, [sh EXCEPT !.pst = codes])
  BY SameShell DEF Kin, Level, ShellOK, ShellFields
<1>7. sh' = sh \/ sh' = [sh EXCEPT !.pst = codes]
  BY DEF Spawned
<1> QED BY <1>5, <1>6, <1>7, SameShell DEF Quiet

LEMMA SleeperQuiet ==
    ASSUME Shape, NEW t \in Thread, NEW th, Asleep(threads[t]), DOMAIN th = ThreadFields,
           th.stack = <<>>, Asleep(th), "k" \in DOMAIN th.c, threads' = [threads EXCEPT ![t] = th], sh' = sh
    PROVE  Quiet
<1>1. Calm(threads[t], th)
  BY SleepFits, CalmSleep DEF Shape
<1>2. Put(t, sh, th)
  BY DEF Put
<1> QED BY <1>1, <1>2, SameShell, PutQuiet

Moved(th, c, fds) == [th EXCEPT !.c = c, !.fds = fds]

LEMMA MovedQuiet ==
    ASSUME Shape, NEW t \in Thread, IsProcess(threads[t]), NEW c, NEW fds,
           c.k \in {"process", "exited"}, "k" \in DOMAIN c,
           Put(t, sh, Moved(threads[t], c, fds))
    PROVE  Quiet
<1> DEFINE th == Moved(threads[t], c, fds)
<1>1. /\ Asleep(threads[t]) /\ DOMAIN threads[t] = ThreadFields /\ threads[t].stack = <<>>
  BY DEF IsProcess, Asleep, Sleeping, Shape, WellFormed
<1>2. DOMAIN th = ThreadFields /\ th.stack = <<>> /\ th.c = c
  BY <1>1 DEF ThreadFields, Moved
<1>3. sh' = sh /\ threads' = [threads EXCEPT ![t] = th]
  BY DEF Put
<1> HIDE DEF th
<1>4. Asleep(th)
  BY <1>2 DEF Asleep, Sleeping
<1> QED BY <1>1, <1>2, <1>3, <1>4, SleeperQuiet

LEMMA ProcessQuiet == ASSUME Shape, NEW t \in Thread, Process(t) PROVE Quiet
<1>1. IsProcess(threads[t])
  BY DEF Process, ProcessReads, ProcessWrites, ProcessExits
<1>2. /\ Asleep(threads[t]) /\ DOMAIN threads[t] = ThreadFields /\ threads[t].stack = <<>>
      /\ threads[t].c.k = "process" /\ "k" \in DOMAIN threads[t].c
  BY <1>1 DEF IsProcess, Asleep, Sleeping, Shape, WellFormed
<1>3. CASE ProcessReads(t)
  <2> DEFINE c == threads[t].c
             end == threads[t].fds[1]
             line == IF end.o = "reader" THEN chan[end.id] ELSE <<>>
             d == IF line = <<>> THEN [c EXCEPT !.eof = TRUE]
                  ELSE [c EXCEPT !.out = <<line[1]>>, !.eof = c.name = "head"]
  <2>1. Put(t, sh, [threads[t] EXCEPT !.c = d])
    BY <1>3 DEF ProcessReads, Shape, Put
  <2>2. [threads[t] EXCEPT !.c = d] = Moved(threads[t], d, threads[t].fds)
    <3> HIDE DEF d
    <3> QED BY <1>2 DEF ThreadFields, Moved
  <2>3. d.k = "process" /\ "k" \in DOMAIN d
    BY <1>2
  <2>4. Put(t, sh, Moved(threads[t], d, threads[t].fds))
    BY <2>1, <2>2
  <2> HIDE DEF d
  <2> QED BY <1>1, MovedQuiet, <2>4, <2>3
<1>4. CASE ProcessWrites(t)
  <2> DEFINE c == threads[t].c
             end == threads[t].fds[2]
             d == IF Broken(end) THEN Exited(141) ELSE [c EXCEPT !.out = <<>>]
             fds == IF Broken(end) THEN <<>> ELSE threads[t].fds
  <2>1. Put(t, sh, Moved(threads[t], d, fds))
    BY <1>2, <1>4 DEF ProcessWrites, Shape, ThreadFields, Moved, Put
  <2>2. d.k \in {"process", "exited"} /\ "k" \in DOMAIN d
    BY <1>2 DEF Exited
  <2> HIDE DEF d, fds
  <2> QED BY <1>1, MovedQuiet, <2>1, <2>2
<1>5. CASE ProcessExits(t)
  <2> DEFINE d == Exited(threads[t].c.v)
  <2>1. Put(t, sh, Moved(threads[t], d, <<>>))
    BY <1>2, <1>5 DEF ProcessExits, Shape, ThreadFields, Moved, Put
  <2>2. d.k \in {"process", "exited"} /\ "k" \in DOMAIN d
    BY DEF Exited
  <2> HIDE DEF d
  <2> QED BY <1>1, MovedQuiet, <2>1, <2>2
<1> QED BY <1>3, <1>4, <1>5 DEF Process

LEMMA ForgottenQuiet == ASSUME Shape, NEW t \in Thread, Forgotten(t) PROVE Quiet
<1>1. Asleep(threads[t])
  BY DEF Forgotten, Asleep, Sleeping
<1>2. "k" \in DOMAIN Idle.c
  BY DEF Idle
<1> QED BY <1>1, <1>2, IdleFits, SleeperQuiet DEF Forgotten


-----------------------------------------------------------------------------
(* JavaScript stages, and reading what a command substitution writes.      *)

LEMMA JsQuiet ==
    ASSUME Shape, NEW t \in Thread, JsThrows(t) \/ JsReads(t) \/ JsWrites(t) \/ JsEnds(t) PROVE Quiet
<1> USE DEF Put, Only
<1>1. ~Asleep(threads[t])
  BY Awake DEF JsThrows, JsReads, JsWrites, JsEnds, Evaluating
<1>2. CASE JsThrows(t) \/ JsWrites(t) \/ JsEnds(t)
  <2>1. \E c : Wakes(c) /\ Put(t, sh, Become(threads[t], c))
    BY <1>2, WakingControls DEF JsThrows, JsWrites, JsEnds
  <2> HIDE DEF Put
  <2> QED BY <1>1, <2>1, SameShell, BecomeQuiet
<1>3. CASE JsReads(t)
  <2>1. PICK n : sh' = sh /\ threads' = [threads EXCEPT ![t].c = Eval(n)]
    BY <1>3 DEF JsReads
  <2>2. Put(t, sh, Become(threads[t], Eval(n)))
    BY <2>1 DEF Become
  <2> HIDE DEF Put
  <2> QED BY <1>1, <2>2, SameShell, BecomeQuiet, WakingControls
<1> QED BY <1>2, <1>3

LEMMA JsBrokenQuiet == ASSUME Shape, NEW t \in Thread, JsBroken(t) PROVE Quiet
<1>1. ~Asleep(threads[t]) /\ sh.exited = <<>>
  BY Awake DEF JsBroken, Evaluating, Running
<1>2. CASE Node(t).eof
  BY <1>1, <1>2, SameShell, BecomeQuiet, WakingControls DEF JsBroken, Only
<1>3. CASE ~Node(t).eof
  <2>1. Put(t, [sh EXCEPT !.exited = <<1>>, !.crashed = TRUE], threads[t])
    BY <1>3 DEF JsBroken, Only
  <2>2. Kin(sh, [sh EXCEPT !.exited = <<1>>, !.crashed = TRUE])
    BY <1>1, SameShell DEF Kin, Level, ShellOK, ShellFields
  <2> QED BY <2>1, <2>2, CalmSelf, PutQuiet DEF Shape
<1> QED BY <1>2, <1>3

\* One frame is written over by one of its kind.
Over1(th, i, fr) == [th EXCEPT !.stack = [@ EXCEPT ![i] = fr]]

LEMMA Over1Calm ==
    ASSUME NEW th, WellFormed(th), NEW i \in DOMAIN th.stack, NEW fr, FrameOK(fr),
           fr.f = th.stack[i].f, Alike(th.stack[i], fr), fr.f # "redir", fr.f # "stage"
    PROVE  Calm(th, Over1(th, i, fr))
<1> DEFINE ti == Over1(th, i, fr)
<1>1. DOMAIN ti = ThreadFields /\ ti.c = th.c /\ ti.stack = [th.stack EXCEPT ![i] = fr]
  BY DEF WellFormed, ThreadFields, Over1
<1>2. /\ IsSeq(ti.stack) /\ Len(ti.stack) = Len(th.stack) /\ DOMAIN ti.stack = DOMAIN th.stack
      /\ ti.stack[i] = fr /\ \A j \in DOMAIN th.stack : j # i => ti.stack[j] = th.stack[j]
  BY <1>1, Written DEF WellFormed
<1>3. th.stack # <<>> /\ ~Asleep(th)
  BY EmptyStack DEF WellFormed
<1>4. /\ Last(th.stack) = th.stack[Len(th.stack)] /\ Last(ti.stack) = ti.stack[Len(ti.stack)]
      /\ Len(th.stack) \in DOMAIN th.stack /\ ti.stack # <<>>
  BY <1>2, <1>3, Popped, Stack DEF WellFormed, Last
<1> HIDE DEF ti
<1>5. \A j \in DOMAIN ti.stack : FrameOK(ti.stack[j]) /\ (ti.stack[j].f = "stage" => j = 1)
  BY <1>2 DEF WellFormed
<1>6. th.c.k = "redirect" => Last(ti.stack).f = "redir"
  BY <1>2, <1>4 DEF WellFormed
<1>7. WellFormed(ti) /\ ~Asleep(ti)
  BY <1>1, <1>2, <1>3, <1>4, <1>5, <1>6 DEF WellFormed, Asleep
<1>8. Steady(Noted, th.stack, ti.stack)
  <2>1. \A j \in DOMAIN th.stack : ti.stack[j].f = th.stack[j].f /\ Alike(th.stack[j], ti.stack[j])
    BY <1>2 DEF Alike
  <2> QED BY <1>2, <2>1, Zenon DEF Steady
<1> QED BY <1>3, <1>7, <1>8 DEF ti, Calm

LEMMA CaptureReadsQuiet ==
    ASSUME Shape, NEW t \in Thread, NEW i \in DOMAIN threads[t].stack, CaptureReads(t, i) PROVE Quiet
<1> DEFINE fr == threads[t].stack[i]
           gr == [fr EXCEPT !.text = @ \o chan[fr.p]]
           th == Over1(threads[t], i, gr)
<1>1. FrameOK(fr) /\ fr.f = "capture" /\ WellFormed(threads[t])
  BY DEF CaptureReads, Shape, WellFormed
<1>2. FrameOK(gr) /\ gr.f = "capture" /\ Alike(fr, gr)
  BY <1>1 DEF FrameOK, Alike
<1>3. Put(t, sh, th)
  BY DEF CaptureReads, Put, Over1
<1>4. Calm(threads[t], th)
  <2> HIDE DEF gr
  <2> QED BY <1>1, <1>2, Over1Calm
<1> HIDE DEF th
<1> QED BY <1>3, <1>4, SameShell, PutQuiet

-----------------------------------------------------------------------------
(* Compound commands.                                                      *)

LEMMA EntriesFrame == ASSUME NEW ns PROVE FrameOK(Entries(ns)) /\ Entries(ns).f \notin Noted
BY DEF Entries, FrameOK, Noted, Marks

LEMMA CompoundQuiet ==
    ASSUME Shape, NEW t \in Thread,
           AndOr(t) \/ List(t) \/ If(t) \/ Case(t) \/ FunctionDef(t) \/ (Group(t) /\ Node(t).rs = <<>>)
    PROVE  Quiet
<1>1. ~Asleep(threads[t])
  <2>1. AndOr(t) \/ List(t) => \E type : Evaluating(t, type)
    BY Zenon DEF AndOr, List
  <2>2. If(t) \/ Case(t) => \E type : Evaluating(t, type)
    BY Zenon DEF If, Case
  <2>3. FunctionDef(t) \/ Group(t) => \E type : Evaluating(t, type)
    BY Zenon DEF FunctionDef, Group
  <2> QED BY <2>1, <2>2, <2>3, Awake DEF Evaluating
<1>2. CASE AndOr(t)
  <2> DEFINE fr == [f |-> "andor", op |-> Node(t).op, r |-> Node(t).r]
  <2>1. FrameOK(fr) /\ fr.f \notin Noted
    BY DEF FrameOK, Noted, Marks
  <2>2. Put(t, sh, Call(threads[t], fr, Node(t).l))
    BY <1>2 DEF AndOr, Only
  <2> QED BY <1>1, <2>1, <2>2, SameShell, CallQuiet
<1>3. CASE List(t)
  <2>1. Put(t, sh, Call(threads[t], Entries(Node(t).ns), Head(Node(t).ns)))
    BY <1>3 DEF List, Only
  <2> QED BY <1>1, <2>1, EntriesFrame, SameShell, CallQuiet
<1>4. CASE If(t)
  <2> DEFINE fr == [f |-> "if", y |-> Node(t).y, n |-> Node(t).n]
  <2>1. FrameOK(fr) /\ fr.f \notin Noted
    BY DEF FrameOK, Noted, Marks
  <2>2. Put(t, sh, Call(threads[t], fr, Node(t).c))
    BY <1>4 DEF If, Only
  <2> QED BY <1>1, <2>1, <2>2, SameShell, CallQuiet
<1>5. CASE Case(t) \/ (Group(t) /\ Node(t).rs = <<>>)
  <2>1. PICK c : Wakes(c) /\ Put(t, sh, Become(threads[t], c))
    BY <1>5, WakingControls DEF Case, Group, Only
  <2> QED BY <1>1, <2>1, SameShell, BecomeQuiet
<1>6. CASE FunctionDef(t)
  <2> DEFINE s == [sh EXCEPT !.funs = (Node(t).name :> Node(t).n) @@ @]
  <2>1. Kin(sh, s)
    BY SameShell DEF Kin, Level, ShellOK, ShellFields
  <2>2. Put(t, s, Become(threads[t], Ret(0)))
    BY <1>6 DEF FunctionDef, Only
  <2> QED BY <1>1, <2>1, <2>2, BecomeQuiet, WakingControls
<1> QED BY <1>2, <1>3, <1>4, <1>5, <1>6

-----------------------------------------------------------------------------
(* Loops, and values that come back.                                       *)

\* A round ends the loop, or leaves its frame for the next evaluation.
LEMMA RoundComes ==
    ASSUME NEW s, ShellOK(s), NEW n, n.t \in Loops, NEW rest, NEW last, NEW stack
    PROVE  LET r == Round(s, n, rest, last, stack)
           IN  /\ Kin(s, r.s)
               /\ \/ r.stack = stack /\ Wakes(r.c)
                  \/ \E fr, m : FrameOK(fr) /\ fr.f = "loop" /\ r.stack = Append(stack, fr) /\ r.c = Eval(m)
<1> DEFINE fr(part, r) == [f |-> "loop", n |-> n, rest |-> r, last |-> last, in |-> part]
           ends == [s |-> s, stack |-> stack, c |-> Ret(last)]
           Fine(r) == /\ Kin(s, r.s)
                      /\ \/ r.stack = stack /\ Wakes(r.c)
                         \/ \E gr, m : FrameOK(gr) /\ gr.f = "loop" /\ r.stack = Append(stack, gr) /\ r.c = Eval(m)
<1>1. Fine(ends)
  BY KinSelf, WakingControls
<1>2. \A part, r : FrameOK(fr(part, r)) /\ fr(part, r).f = "loop"
  BY DEF FrameOK
<1>3. ASSUME NEW q, Kin(s, q), NEW part, NEW r, NEW m
      PROVE  Fine([s |-> q, stack |-> Append(stack, fr(part, r)), c |-> Eval(m)])
  <2> HIDE DEF fr
  <2> QED BY <1>2, <1>3
<1>4. CASE n.t = "while"
  <2>1. Round(s, n, rest, last, stack) = [s |-> s, stack |-> Append(stack, fr("condition", <<>>)), c |-> Eval(n.c)]
    BY <1>4 DEF Round
  <2>2. Fine([s |-> s, stack |-> Append(stack, fr("condition", <<>>)), c |-> Eval(n.c)])
    BY <1>3, KinSelf
  <2> QED BY <2>1, <2>2
<1>5. CASE n.t = "for"
  <2> DEFINE next == [s |-> SetVar(s, n.x, <<Head(rest)>>),
                      stack |-> Append(stack, fr("body", Tail(rest))), c |-> Eval(n.n)]
  <2>1. Round(s, n, rest, last, stack) = IF rest = <<>> THEN ends ELSE next
    BY <1>5 DEF Round
  <2>2. Fine(next)
    BY <1>3, SetVarKin
  <2> HIDE DEF Fine, ends, next
  <2>3. Fine(IF rest = <<>> THEN ends ELSE next)
    BY <1>1, <2>2
  <2>4. Fine(Round(s, n, rest, last, stack))
    BY <2>1, <2>3
  <2> QED BY <2>4 DEF Fine
<1>6. CASE n.t = "cfor"
  <2> DEFINE next == [s |-> s, stack |-> Append(stack, fr("body", <<>>)), c |-> Eval(n.n)]
             over == Levels[s.store[n.x][1]] >= n.to
  <2>1. Round(s, n, rest, last, stack) = IF over THEN ends ELSE next
    BY <1>6 DEF Round
  <2>2. Fine(next)
    BY <1>3, KinSelf
  <2> HIDE DEF Fine, ends, next, over
  <2>3. Fine(IF over THEN ends ELSE next)
    BY <1>1, <2>2
  <2>4. Fine(Round(s, n, rest, last, stack))
    BY <2>1, <2>3
  <2> QED BY <2>4 DEF Fine
<1>7. CASE n.t = "select"
  <2> DEFINE end == s.fds[0]
             ls == IF s.bufs[0] # <<>> THEN s.bufs[0]
                   ELSE IF end.o = "reader" THEN chan[end.id] ELSE <<>>
             x == IF ls[1] \in DOMAIN Levels /\ Levels[ls[1]] \in DOMAIN rest
                  THEN <<rest[Levels[ls[1]]]>> ELSE <<>>
             q == [s EXCEPT !.bufs[0] = Tail(ls)]
             next == [s |-> SetVar(q, n.x, x), stack |-> Append(stack, fr("body", rest)), c |-> Eval(n.n)]
  <2>1. Round(s, n, rest, last, stack) = IF ls = <<>> THEN ends ELSE next
    BY <1>7 DEF Round
  <2>2. Kin(s, q) /\ ShellOK(q)
    <3> HIDE DEF ls
    <3> QED BY DEF Kin, Level, ShellOK, ShellFields
  <2>3. Kin(s, SetVar(q, n.x, x))
    <3> HIDE DEF q, x
    <3> QED BY <2>2, SetVarKin, KinTwice
  <2>4. Fine(next)
    <3> HIDE DEF q, x
    <3> QED BY <1>3, <2>3
  <2> HIDE DEF Fine, ends, next, ls
  <2>5. Fine(IF ls = <<>> THEN ends ELSE next)
    BY <1>1, <2>4
  <2>6. Fine(Round(s, n, rest, last, stack))
    BY <2>1, <2>5
  <2> QED BY <2>6 DEF Fine
<1> QED BY <1>4, <1>5, <1>6, <1>7 DEF Loops

Placed(th, stack, c) == [th EXCEPT !.stack = stack, !.c = c]

LEMMA PlacedForms ==
    ASSUME NEW th, WellFormed(th), NEW c, NEW m
    PROVE  /\ Placed(th, th.stack, c) = Become(th, c)
           /\ Placed(th, Front(th.stack), c) = Return(th, c)
           /\ \A fr : Placed(th, Append(th.stack, fr), Eval(m)) = Call(th, fr, m)
           /\ \A fr : Placed(th, Append(Front(th.stack), fr), Eval(m)) = Call(Return(th, Await), fr, m)
BY DEF WellFormed, ThreadFields, Placed, Become, Return, Call

LEMMA GoesQuiet ==
    ASSUME Shape, NEW t \in Thread, NEW s, Kin(sh, s), NEW n, n.t \in Loops, NEW rest, NEW last, NEW stack,
           \/ stack = threads[t].stack /\ ~Asleep(threads[t])
           \/ stack = Front(threads[t].stack) /\ threads[t].stack # <<>> /\ Top(threads[t]).f \notin Noted,
           NEW m, Goes(t, Round(s, n, rest, last, stack), m)
    PROVE  Quiet
<1> DEFINE r == Round(s, n, rest, last, stack)
           th == threads[t]
<1>1. WellFormed(th) /\ ShellOK(s)
  BY DEF Shape, Kin, Level
<1>2. /\ Kin(s, r.s)
      /\ \/ r.stack = stack /\ Wakes(r.c)
         \/ \E fr, k : FrameOK(fr) /\ fr.f = "loop" /\ r.stack = Append(stack, fr) /\ r.c = Eval(k)
  BY <1>1, RoundComes
<1>3. Put(t, r.s, Placed(th, r.stack, r.c))
  BY DEF Goes, Placed
<1> HIDE DEF r, th
<1>4. Kin(sh, r.s)
  BY <1>2, KinTwice
<1>5. CASE r.stack = stack /\ Wakes(r.c)
  <2>1. CASE stack = th.stack /\ ~Asleep(th)
    <3>1. Put(t, r.s, Become(th, r.c))
      BY <1>1, <1>3, <1>5, <2>1, PlacedForms
    <3> QED BY <1>4, <1>5, <2>1, <3>1, BecomeQuiet DEF th
  <2>2. CASE stack = Front(th.stack) /\ th.stack # <<>> /\ Top(th).f \notin Noted
    <3>1. Placed(th, r.stack, r.c) = Return(th, r.c)
      BY <1>1, <1>5, <2>2, PlacedForms
    <3>2. Put(t, r.s, Return(th, r.c))
      BY <1>3, <3>1
    <3> QED BY <1>4, <1>5, <2>2, <3>2, ReturnQuiet DEF th
  <2> QED BY <2>1, <2>2 DEF th
<1>6. ASSUME NEW fr, NEW k, FrameOK(fr), fr.f = "loop", r.stack = Append(stack, fr), r.c = Eval(k) PROVE Quiet
  <2>1. fr.f \notin Noted
    BY <1>6 DEF Noted, Marks
  <2>2. CASE stack = th.stack /\ ~Asleep(th)
    <3>1. Put(t, r.s, Call(th, fr, k))
      BY <1>1, <1>3, <1>6, <2>2, PlacedForms
    <3> QED BY <1>4, <1>6, <2>1, <2>2, <3>1, CallQuiet DEF th
  <2>3. CASE stack = Front(th.stack) /\ th.stack # <<>> /\ Top(th).f \notin Noted
    <3>1. Put(t, r.s, Call(Return(th, Await), fr, k))
      BY <1>1, <1>3, <1>6, <2>3, PlacedForms
    <3> QED BY <1>4, <1>6, <2>1, <2>3, <3>1, NextQuiet DEF th
  <2> QED BY <2>2, <2>3 DEF th
<1> QED BY <1>2, <1>5, <1>6

LEMMA LoopQuiet == ASSUME Shape, NEW t \in Thread, Loop(t) PROVE Quiet
<1> DEFINE n == Node(t)
           s == IF n.t = "cfor" THEN SetVar(sh, n.x, <<"0">>) ELSE sh
           items == IF n.t \in {"for", "select"} THEN ExpandAll(sh, n.ws) ELSE <<>>
           none == [s |-> sh, stack |-> threads[t].stack, c |-> Ret(0)]
<1>1. threads[t].c.k = "eval" /\ ~Asleep(threads[t]) /\ n.t \in Loops /\ WellFormed(threads[t])
  BY Awake DEF Loop, Evaluating, Node, Loops, Shape
<1>2. Kin(sh, s)
  BY SameShell, SetVarKin
<1>3. CASE Goes(t, none, n)
  <2>1. Put(t, sh, Placed(threads[t], threads[t].stack, Ret(0)))
    BY <1>3 DEF Goes, Placed
  <2>2. Put(t, sh, Become(threads[t], Ret(0)))
    BY <1>1, <2>1, PlacedForms
  <2> QED BY <1>1, <2>2, SameShell, BecomeQuiet, WakingControls
<1>4. CASE Goes(t, Round(s, n, items, 0, threads[t].stack), n)
  <2> HIDE DEF n, s, items
  <2> QED BY <1>1, <1>2, <1>4, GoesQuiet
<1>5. Goes(t, none, n) \/ Goes(t, Round(s, n, items, 0, threads[t].stack), n)
  BY DEF Loop
<1> QED BY <1>3, <1>4, <1>5

LEMMA ReturnedFacts ==
    ASSUME Shape, NEW t \in Thread, NEW f, NEW fs, Returning(t, f) \/ Throwing(t, fs)
    PROVE  /\ threads[t].stack # <<>> /\ ~Asleep(threads[t]) /\ WellFormed(threads[t])
           /\ FrameOK(Top(threads[t])) /\ Wakes(threads[t].c)
           /\ Top(threads[t]).f = f \/ Top(threads[t]).f \in fs
BY WellFormedFacts DEF Shape, Returning, Throwing, Top, Wakes

LEMMA UpdatedKin == ASSUME Shape, NEW n PROVE Kin(sh, Updated(n))
BY SameShell, SetVarKin DEF Updated

LEMMA AfterLeftQuiet == ASSUME Shape, NEW t \in Thread, AfterLeft(t) PROVE Quiet
<1>1. threads[t].stack # <<>> /\ Top(threads[t]).f = "andor" /\ Wakes(threads[t].c)
  BY ReturnedFacts DEF AfterLeft, Returning, Wakes
<1>2. Top(threads[t]).f \notin Noted
  BY <1>1 DEF Noted, Marks
<1>3. PICK c : Wakes(c) /\ Put(t, sh, Return(threads[t], c))
  BY <1>1, WakingControls DEF AfterLeft, Only
<1> QED BY <1>1, <1>2, <1>3, SameShell, ReturnQuiet

LEMMA AfterConditionQuiet == ASSUME Shape, NEW t \in Thread, AfterCondition(t) PROVE Quiet
<1>1. threads[t].stack # <<>> /\ Top(threads[t]).f = "if"
  BY DEF AfterCondition, Returning
<1>2. Top(threads[t]).f \notin Noted
  BY <1>1 DEF Noted, Marks
<1>3. PICK c : Wakes(c) /\ Put(t, sh, Return(threads[t], c))
  BY WakingControls DEF AfterCondition, Only
<1> QED BY <1>1, <1>2, <1>3, SameShell, ReturnQuiet

LEMMA AfterEntryQuiet == ASSUME Shape, NEW t \in Thread, AfterEntry(t) PROVE Quiet
<1> DEFINE fr == Top(threads[t])
           s == [sh EXCEPT !.status = Value(t)]
<1>1. threads[t].stack # <<>> /\ fr.f = "list" /\ Wakes(threads[t].c)
  BY DEF AfterEntry, Returning, Wakes
<1>2. fr.f \notin Noted
  BY <1>1 DEF Noted, Marks
<1>3. Kin(sh, s)
  BY SameShell DEF Kin, Level, ShellOK, ShellFields
<1>4. \/ Put(t, s, Return(threads[t], threads[t].c))
      \/ Put(t, s, Call(Return(threads[t], Await), Entries(fr.rest), Head(fr.rest)))
  BY DEF AfterEntry, Only
<1> HIDE DEF s
<1>5. CASE Put(t, s, Return(threads[t], threads[t].c))
  BY <1>1, <1>2, <1>3, <1>5, ReturnQuiet
<1>6. CASE Put(t, s, Call(Return(threads[t], Await), Entries(fr.rest), Head(fr.rest)))
  BY <1>1, <1>2, <1>3, <1>6, EntriesFrame, NextQuiet
<1> QED BY <1>4, <1>5, <1>6

\* A loop goes on after its body, or ends.
LEMMA LoopGoes ==
    ASSUME Shape, NEW t \in Thread, threads[t].stack # <<>>, Top(threads[t]).f = "loop", NEW last,
           Goes(t, Round(Updated(Top(threads[t]).n), Top(threads[t]).n, Top(threads[t]).rest, last,
                         Under(threads[t])), Top(threads[t]).n)
    PROVE  Quiet
<1> DEFINE n == Top(threads[t]).n
           rest == Top(threads[t]).rest
           stack == Under(threads[t])
           s == Updated(n)
<1>1. Top(threads[t]).f \notin Noted /\ stack = Front(threads[t].stack)
  BY DEF Noted, Marks, Under
<1>2. n.t \in Loops
  BY WellFormedFacts DEF Shape, FrameOK, Top
<1>3. Kin(sh, s)
  BY UpdatedKin
<1>4. Goes(t, Round(s, n, rest, last, stack), n)
  OBVIOUS
<1> HIDE DEF n, rest, stack, s
<1> QED BY <1>1, <1>2, <1>3, <1>4, GoesQuiet

LEMMA AfterRoundQuiet == ASSUME Shape, NEW t \in Thread, AfterRound(t) PROVE Quiet
<1> DEFINE fr == Top(threads[t])
           gr == [fr EXCEPT !.in = "body"]
           next == Call(Return(threads[t], Await), gr, fr.n.n)
<1>1. threads[t].stack # <<>> /\ fr.f = "loop" /\ FrameOK(fr)
  BY WellFormedFacts DEF AfterRound, Returning, Shape, Top
<1>2. fr.f \notin Noted
  BY <1>1 DEF Noted, Marks
<1>3. FrameOK(gr) /\ gr.f \notin Noted
  BY <1>1, <1>2 DEF FrameOK
<1>4. \/ Put(t, sh, next)
      \/ Put(t, sh, Return(threads[t], Ret(fr.last)))
      \/ Goes(t, Round(Updated(fr.n), fr.n, fr.rest, Value(t), Under(threads[t])), fr.n)
  BY DEF AfterRound, Only
<1>5. CASE Put(t, sh, next)
  <2> HIDE DEF gr
  <2> QED BY <1>1, <1>2, <1>3, <1>5, SameShell, NextQuiet
<1>6. CASE Put(t, sh, Return(threads[t], Ret(fr.last)))
  BY <1>1, <1>2, <1>6, SameShell, WakingControls, ReturnQuiet
<1>7. CASE Goes(t, Round(Updated(fr.n), fr.n, fr.rest, Value(t), Under(threads[t])), fr.n)
  BY <1>1, <1>7, LoopGoes
<1> QED BY <1>4, <1>5, <1>6, <1>7

LEMMA CatchJumpQuiet == ASSUME Shape, NEW t \in Thread, CatchJump(t) PROVE Quiet
<1> DEFINE fr == Top(threads[t])
           c == threads[t].c
<1>1. threads[t].stack # <<>> /\ fr.f = "loop"
  BY DEF CatchJump, Throwing
<1>2. fr.f \notin Noted /\ c.k = "throw" /\ Wakes([c EXCEPT !.v = @ - 1])
  BY <1>1 DEF Noted, Marks, CatchJump, Throwing, Wakes
<1>3. \/ \E d : Wakes(d) /\ Put(t, sh, Return(threads[t], d))
      \/ Goes(t, Round(Updated(fr.n), fr.n, fr.rest, fr.last, Under(threads[t])), fr.n)
  BY <1>2, WakingControls DEF CatchJump, Only
<1>4. ASSUME NEW d, Wakes(d), Put(t, sh, Return(threads[t], d)) PROVE Quiet
  BY <1>1, <1>2, <1>4, SameShell, ReturnQuiet
<1>5. CASE Goes(t, Round(Updated(fr.n), fr.n, fr.rest, fr.last, Under(threads[t])), fr.n)
  BY <1>1, <1>5, LoopGoes
<1> QED BY <1>3, <1>4, <1>5

LEMMA PassOnQuiet == ASSUME Shape, NEW t \in Thread, PassOn(t) PROVE Quiet
<1>1. /\ threads[t].stack # <<>> /\ Top(threads[t]).f \in {"andor", "list", "if", "loop", "eval"}
      /\ Wakes(threads[t].c)
  BY DEF PassOn, Throwing, Returning, Wakes
<1>2. Top(threads[t]).f \notin Noted
  BY <1>1 DEF Noted, Marks
<1>3. PICK c : Wakes(c) /\ Put(t, sh, Return(threads[t], c))
  BY <1>1, WakingControls DEF PassOn, Only
<1> QED BY <1>1, <1>2, <1>3, SameShell, ReturnQuiet

-----------------------------------------------------------------------------
(* The frames of a kind, as a step adds one, takes one or leaves them.     *)

\* Every thread but t keeps its noted frames.
Moves(t, s, th) ==
    /\ sh' = s
    /\ DOMAIN threads' = Thread
    /\ threads'[t] = th
    /\ \A u \in Thread : u # t => Calm(threads[u], threads'[u])

LEMMA PutMoves == ASSUME Shape, NEW t \in Thread, NEW s, NEW th, Put(t, s, th) PROVE Moves(t, s, th)
<1>1. \A u \in Thread : u # t => threads'[u] = threads[u]
  BY DEF Put, Shape
<1> QED BY <1>1, CalmSelf DEF Put, Shape, Moves

LEMMA SteadyLess ==
    ASSUME NEW N, NEW K \in SUBSET N, NEW s, NEW r, Steady(N, s, r)
    PROVE  \A i : (i \in DOMAIN r /\ r[i].f \in K) <=> (i \in DOMAIN s /\ s[i].f \in K)
<1>1. \A i \in DOMAIN s : s[i].f \in N => r[i].f = s[i].f
  BY Zenon DEF Steady, Alike
<1> QED BY <1>1, Zenon DEF Steady

At(t, K) == {i \in DOMAIN threads[t].stack : threads[t].stack[i].f \in K}

Pairs(t, K) == {<<t, i>> : i \in At(t, K)}

LEMMA FrameIn == ASSUME NEW K PROVE \A x : x \in Frames(K) <=> \E t \in Thread : \E i \in At(t, K) : x = <<t, i>>
<1>1. Frames(K) = UNION {Pairs(t, K) : t \in Thread}
  BY DEF Frames, At, Pairs
<1>2. \A x : \A t \in Thread : x \in Pairs(t, K) <=> \E i \in At(t, K) : x = <<t, i>>
  BY DEF Pairs
<1>3. \A x : x \in Frames(K) <=> \E t \in Thread : x \in Pairs(t, K)
  BY <1>1
<1> QED BY <1>2, <1>3, Zenon

LEMMA FrameIn2 == ASSUME NEW K PROVE \A x : x \in Frames(K)' <=> \E t \in Thread : \E i \in At(t, K)' : x = <<t, i>>
<1>1. Frames(K)' = UNION {Pairs(t, K)' : t \in Thread}
  BY DEF Frames, At, Pairs
<1>2. \A x : \A t \in Thread : x \in Pairs(t, K)' <=> \E i \in At(t, K)' : x = <<t, i>>
  BY DEF Pairs
<1>3. \A x : x \in Frames(K)' <=> \E t \in Thread : x \in Pairs(t, K)'
  BY <1>1
<1> QED BY <1>2, <1>3, Zenon

LEMMA FramesSame ==
    ASSUME NEW K, \A u \in Thread : At(u, K)' = At(u, K) PROVE Frames(K)' = Frames(K)
<1>1. \A x : x \in Frames(K) <=> \E u \in Thread : \E j \in At(u, K) : x = <<u, j>>
  BY FrameIn
<1>2. \A x : x \in Frames(K)' <=> \E u \in Thread : \E j \in At(u, K)' : x = <<u, j>>
  BY FrameIn2
<1>3. \A x : x \in Frames(K)' <=> x \in Frames(K)
  BY <1>1, <1>2
<1> QED BY <1>3

LEMMA FramesMore ==
    ASSUME NEW K, NEW t \in Thread, NEW i, i \notin At(t, K), At(t, K)' = At(t, K) \cup {i},
           \A u \in Thread : u # t => At(u, K)' = At(u, K)
    PROVE  Frames(K)' = Frames(K) \cup {<<t, i>>} /\ <<t, i>> \notin Frames(K)
<1>1. \A x : x \in Frames(K) <=> \E u \in Thread : \E j \in At(u, K) : x = <<u, j>>
  BY FrameIn
<1>2. \A x : x \in Frames(K)' <=> \E u \in Thread : \E j \in At(u, K)' : x = <<u, j>>
  BY FrameIn2
<1>3. <<t, i>> \notin Frames(K)
  BY <1>1
<1>4. \A x : x \in Frames(K)' <=> x \in Frames(K) \/ x = <<t, i>>
  BY <1>1, <1>2
<1> QED BY <1>3, <1>4

LEMMA FramesLess ==
    ASSUME NEW K, NEW t \in Thread, NEW i, i \in At(t, K), At(t, K)' = At(t, K) \ {i},
           \A u \in Thread : u # t => At(u, K)' = At(u, K)
    PROVE  Frames(K)' = Frames(K) \ {<<t, i>>} /\ <<t, i>> \in Frames(K)
<1>1. \A x : x \in Frames(K) <=> \E u \in Thread : \E j \in At(u, K) : x = <<u, j>>
  BY FrameIn
<1>2. \A x : x \in Frames(K)' <=> \E u \in Thread : \E j \in At(u, K)' : x = <<u, j>>
  BY FrameIn2
<1>3. <<t, i>> \in Frames(K)
  BY <1>1
<1>4. \A x : x \in Frames(K)' <=> x \in Frames(K) /\ x # <<t, i>>
  BY <1>1, <1>2
<1> QED BY <1>3, <1>4

LEMMA AtSteady ==
    ASSUME NEW N, NEW K \in SUBSET N, NEW u, Steady(N, threads[u].stack, threads'[u].stack)
    PROVE  At(u, K)' = At(u, K)
<1> DEFINE s == threads[u].stack
           r == threads'[u].stack
<1>1. \A i : (i \in DOMAIN r /\ r[i].f \in K) <=> (i \in DOMAIN s /\ s[i].f \in K)
  BY SteadyLess
<1> QED BY <1>1 DEF At

LEMMA AtPush ==
    ASSUME NEW K, NEW t, IsSeq(threads[t].stack), NEW fr, threads'[t].stack = Append(threads[t].stack, fr)
    PROVE  /\ fr.f \notin K => At(t, K)' = At(t, K)
           /\ fr.f \in K => /\ Len(threads[t].stack) + 1 \notin At(t, K)
                            /\ At(t, K)' = At(t, K) \cup {Len(threads[t].stack) + 1}
<1> DEFINE s == threads[t].stack
           r == threads'[t].stack
           n == Len(s)
<1>1. /\ n \in Nat /\ DOMAIN s = 1..n /\ DOMAIN r = 1..(n + 1)
      /\ \A i \in 1..n : r[i] = s[i]
      /\ r[n + 1] = fr
  BY Stack, Pushed
<1>2. At(t, K) = {i \in 1..n : s[i].f \in K} /\ At(t, K)' = {i \in 1..(n + 1) : r[i].f \in K}
  BY <1>1 DEF At
<1> HIDE DEF s, r, n
<1>3. n + 1 \notin At(t, K)
  BY <1>1, <1>2
<1>4. \A i : i \in 1..(n + 1) <=> i \in 1..n \/ i = n + 1
  BY <1>1
<1>5. \A i : i \in At(t, K)' <=> i \in At(t, K) \/ (i = n + 1 /\ fr.f \in K)
  BY <1>1, <1>2, <1>3, <1>4
<1> QED BY <1>3, <1>5 DEF n, s

LEMMA AtPop ==
    ASSUME NEW K, NEW t, IsSeq(threads[t].stack), threads[t].stack # <<>>,
           threads'[t].stack = Front(threads[t].stack)
    PROVE  /\ Top(threads[t]).f \notin K => At(t, K)' = At(t, K)
           /\ Top(threads[t]).f \in K => /\ Len(threads[t].stack) \in At(t, K)
                                         /\ At(t, K)' = At(t, K) \ {Len(threads[t].stack)}
<1> DEFINE s == threads[t].stack
           r == threads'[t].stack
           n == Len(s)
<1>1. /\ n \in Nat \ {0} /\ DOMAIN s = 1..n /\ DOMAIN r = 1..(n - 1)
      /\ \A i \in 1..(n - 1) : r[i] = s[i]
      /\ Top(threads[t]) = s[n]
  BY Stack, Popped DEF Top
<1>2. At(t, K) = {i \in 1..n : s[i].f \in K} /\ At(t, K)' = {i \in 1..(n - 1) : r[i].f \in K}
  BY <1>1 DEF At
<1> HIDE DEF s, r, n
<1>3. \A i : i \in 1..n <=> i \in 1..(n - 1) \/ i = n
  BY <1>1
<1>4. n \notin 1..(n - 1)
  BY <1>1
<1>5. n \in At(t, K) <=> Top(threads[t]).f \in K
  BY <1>1, <1>2, <1>3
<1>6. \A i : i \in At(t, K)' <=> i \in At(t, K) /\ i # n
  BY <1>1, <1>2, <1>3, <1>4
<1> QED BY <1>5, <1>6 DEF n, s

Count(K) == Cardinality(Frames(K))

LEMMA CountNat ==
    ASSUME IsFiniteSet(Frames(Marks)), NEW K \in SUBSET Marks
    PROVE  IsFiniteSet(Frames(K)) /\ Count(K) \in Nat
<1>1. \A t : At(t, K) \subseteq At(t, Marks)
  BY DEF At
<1>2. \A x : x \in Frames(K) => x \in Frames(Marks)
  <2>1. \A x : x \in Frames(K) <=> \E t \in Thread : \E i \in At(t, K) : x = <<t, i>>
    BY FrameIn
  <2>2. \A x : x \in Frames(Marks) <=> \E t \in Thread : \E i \in At(t, Marks) : x = <<t, i>>
    BY FrameIn
  <2> QED BY <1>1, <2>1, <2>2
<1>3. Frames(K) \subseteq Frames(Marks)
  BY <1>2
<1> QED BY <1>3, FS_Subset, FS_CardinalityType DEF Count

\* The marks of the threads but t are where they were.
OthersStay(t) == \A u \in Thread : u # t => Steady(Marks, threads[u].stack, threads'[u].stack)

LEMMA OthersAt ==
    ASSUME NEW t, OthersStay(t), NEW K \in SUBSET Marks
    PROVE  \A u \in Thread : u # t => At(u, K)' = At(u, K)
BY AtSteady DEF OthersStay

LEMMA CountPush ==
    ASSUME IsFiniteSet(Frames(Marks)), NEW t \in Thread, IsSeq(threads[t].stack), OthersStay(t),
           NEW fr, threads'[t].stack = Append(threads[t].stack, fr)
    PROVE  /\ IsFiniteSet(Frames(Marks))'
           /\ \A K \in SUBSET Marks :
                /\ fr.f \in K => Count(K)' = Count(K) + 1
                /\ fr.f \notin K => Frames(K)' = Frames(K) /\ Count(K)' = Count(K)
<1>1. ASSUME NEW K \in SUBSET Marks, fr.f \in K
      PROVE  IsFiniteSet(Frames(K)') /\ Cardinality(Frames(K)') = Cardinality(Frames(K)) + 1
  <2> DEFINE i == Len(threads[t].stack) + 1
  <2>1. i \notin At(t, K) /\ At(t, K)' = At(t, K) \cup {i}
    BY <1>1, AtPush
  <2>2. \A u \in Thread : u # t => At(u, K)' = At(u, K)
    BY OthersAt
  <2> HIDE DEF i
  <2>3. Frames(K)' = Frames(K) \cup {<<t, i>>} /\ <<t, i>> \notin Frames(K)
    BY <2>1, <2>2, FramesMore
  <2>4. IsFiniteSet(Frames(K))
    BY CountNat
  <2>5. \A S, x : IsFiniteSet(S) /\ x \notin S =>
                   IsFiniteSet(S \cup {x}) /\ Cardinality(S \cup {x}) = Cardinality(S) + 1
    BY FS_AddElement
  <2> QED BY <2>3, <2>4, <2>5
<1>2. ASSUME NEW K \in SUBSET Marks, fr.f \notin K PROVE Frames(K)' = Frames(K)
  <2>1. At(t, K)' = At(t, K)
    BY <1>2, AtPush
  <2>2. \A u \in Thread : At(u, K)' = At(u, K)
    BY <2>1, OthersAt
  <2> QED BY <2>2, FramesSame
<1>3. IsFiniteSet(Frames(Marks)')
  BY <1>1, <1>2
<1> QED BY <1>1, <1>2, <1>3 DEF Count

LEMMA CountPop ==
    ASSUME IsFiniteSet(Frames(Marks)), NEW t \in Thread, IsSeq(threads[t].stack), OthersStay(t),
           threads[t].stack # <<>>, threads'[t].stack = Front(threads[t].stack)
    PROVE  /\ IsFiniteSet(Frames(Marks))'
           /\ \A K \in SUBSET Marks :
                /\ Top(threads[t]).f \in K => Count(K)' = Count(K) - 1 /\ Count(K) # 0
                /\ Top(threads[t]).f \notin K => Frames(K)' = Frames(K) /\ Count(K)' = Count(K)
<1> DEFINE f == Top(threads[t]).f
<1>1. ASSUME NEW K \in SUBSET Marks, f \in K
      PROVE  /\ IsFiniteSet(Frames(K)') /\ Cardinality(Frames(K)') = Cardinality(Frames(K)) - 1
             /\ Cardinality(Frames(K)) # 0
  <2> DEFINE i == Len(threads[t].stack)
  <2>1. i \in At(t, K) /\ At(t, K)' = At(t, K) \ {i}
    BY <1>1, AtPop
  <2>2. \A u \in Thread : u # t => At(u, K)' = At(u, K)
    BY OthersAt
  <2> HIDE DEF i
  <2>3. Frames(K)' = Frames(K) \ {<<t, i>>} /\ <<t, i>> \in Frames(K)
    BY <2>1, <2>2, FramesLess
  <2>4. IsFiniteSet(Frames(K))
    BY CountNat
  <2>5. Cardinality(Frames(K)) # 0
    BY <2>3, <2>4, FS_EmptySet
  <2> QED BY <2>3, <2>4, <2>5, FS_RemoveElement
<1>2. ASSUME NEW K \in SUBSET Marks, f \notin K PROVE Frames(K)' = Frames(K)
  <2>1. At(t, K)' = At(t, K)
    BY <1>2, AtPop
  <2>2. \A u \in Thread : At(u, K)' = At(u, K)
    BY <2>1, OthersAt
  <2> QED BY <2>2, FramesSame
<1>3. IsFiniteSet(Frames(Marks)')
  BY <1>1, <1>2
<1> QED BY <1>1, <1>2, <1>3 DEF Count

-----------------------------------------------------------------------------
(* The scopes and the snapshots of the calls and subshells that are running. *)

Heights ==
    /\ IsFiniteSet(Frames(Marks))
    /\ Len(sh.scopes) >= Count({"call"})
    /\ Len(sh.snaps) >= Count({"subshell"})
    /\ Exiting \/ (Len(sh.scopes) = Count({"call"}) /\ Len(sh.snaps) = Count({"subshell"}))

LEMMA Kinds == /\ {"call"} \in SUBSET Marks /\ {"subshell"} \in SUBSET Marks /\ {"exit"} \in SUBSET Marks
               /\ {"call", "source"} \in SUBSET Marks /\ Marks \in SUBSET Marks /\ Marks \in SUBSET Noted
BY DEF Marks, Noted

\* The heights stay and so do the marks.
Still ==
    /\ Level(sh, sh')
    /\ \A u \in Thread : Steady(Marks, threads[u].stack, threads'[u].stack)

LEMMA CalmStays ==
    ASSUME NEW th, NEW ti, Calm(th, ti) PROVE Steady(Marks, th.stack, ti.stack)
<1> DEFINE s == th.stack
           r == ti.stack
<1>1. \A i : (i \in DOMAIN r /\ r[i].f \in Marks) <=> (i \in DOMAIN s /\ s[i].f \in Marks)
  BY SteadyLess, Kinds DEF Calm
<1>2. \A f \in Marks : f \in Noted
  BY Kinds
<1> QED BY <1>1, <1>2, Zenon DEF Steady, Calm

LEMMA QuietStill == ASSUME Quiet PROVE Still
BY CalmStays DEF Quiet, Still, Kin

LEMMA MovesStay == ASSUME NEW t, NEW s, NEW th, Moves(t, s, th) PROVE OthersStay(t)
BY CalmStays DEF Moves, OthersStay

LEMMA StillFrames ==
    ASSUME Still, NEW K \in SUBSET Marks PROVE Frames(K)' = Frames(K) /\ Count(K)' = Count(K)
<1>1. \A u \in Thread : At(u, K)' = At(u, K)
  BY AtSteady DEF Still
<1> QED BY <1>1, FramesSame DEF Count

LEMMA StillHeights == ASSUME Heights, Still PROVE Heights'
<1>1. Frames(Marks)' = Frames(Marks) /\ Frames({"exit"})' = Frames({"exit"})
  BY Kinds, StillFrames
<1>2. Count({"call"})' = Count({"call"}) /\ Count({"subshell"})' = Count({"subshell"})
  BY Kinds, StillFrames
<1>3. Exiting => Exiting'
  BY <1>1 DEF Exiting, Running, Still, Level
<1> QED BY <1>1, <1>2, <1>3 DEF Heights, Still, Level

-----------------------------------------------------------------------------
(* A mixed pipeline knows which of its stages are still at work: the threads of
   the others are processes, or have ended.                                *)

KidsDone(fr) == \A u \in Range(fr.kids) \ fr.left : u \in Thread => Asleep(threads[u])
KidsAsleep ==
    \A v \in Thread : \A i \in DOMAIN threads[v].stack :
        threads[v].stack[i].f = "mixed" => KidsDone(threads[v].stack[i])
Body == Shape /\ KidsAsleep

LEMMA CalmMixed ==
    ASSUME NEW v, Calm(threads[v], threads'[v]), NEW i \in DOMAIN threads'[v].stack,
           threads'[v].stack[i].f = "mixed"
    PROVE  i \in DOMAIN threads[v].stack /\ threads'[v].stack[i] = threads[v].stack[i]
BY DEF Calm, Steady, Noted, Alike

LEMMA QuietBody == ASSUME Body, Quiet PROVE Body'
<1>1. Shape'
  BY DEF Body, Shape, Quiet, Kin, Level, Calm
<1>2. \A u \in Thread : Asleep(threads[u]) => Asleep(threads'[u])
  BY DEF Quiet, Calm
<1>3. ASSUME NEW v \in Thread, NEW i \in DOMAIN threads'[v].stack, threads'[v].stack[i].f = "mixed"
      PROVE  KidsDone(threads[v].stack[i])'
  <2>1. i \in DOMAIN threads[v].stack /\ threads'[v].stack[i] = threads[v].stack[i]
    BY <1>3, CalmMixed DEF Quiet
  <2>2. KidsDone(threads[v].stack[i])
    BY <1>3, <2>1 DEF Body, KidsAsleep
  <2> QED BY <1>2, <2>1, <2>2 DEF KidsDone
<1>4. KidsAsleep'
  BY <1>3 DEF KidsAsleep
<1> QED BY <1>1, <1>4 DEF Body

LEMMA BodyMoves ==
    ASSUME Body, NEW t \in Thread, NEW s, NEW th, Moves(t, s, th), ShellOK(s), WellFormed(th),
           Asleep(threads[t]) => Asleep(th),
           \A i \in DOMAIN th.stack : th.stack[i].f = "mixed" =>
               i \in DOMAIN threads[t].stack /\ th.stack[i] = threads[t].stack[i]
    PROVE  Body'
<1>1. Shape'
  BY DEF Shape, Moves, Calm
<1>2. \A u \in Thread : Asleep(threads[u]) => Asleep(threads'[u])
  BY DEF Moves, Calm
<1>3. ASSUME NEW v \in Thread, NEW i \in DOMAIN threads'[v].stack, threads'[v].stack[i].f = "mixed"
      PROVE  KidsDone(threads[v].stack[i])'
  <2>1. i \in DOMAIN threads[v].stack /\ threads'[v].stack[i] = threads[v].stack[i]
    BY <1>3, CalmMixed DEF Moves
  <2>2. KidsDone(threads[v].stack[i])
    BY <1>3, <2>1 DEF Body, KidsAsleep
  <2> QED BY <1>2, <2>1, <2>2 DEF KidsDone
<1>4. KidsAsleep'
  BY <1>3 DEF KidsAsleep
<1> QED BY <1>1, <1>4 DEF Body

\* Thread t gets frame fr, or loses its top; the shell becomes s.
Pushes(t, s, fr) ==
    /\ sh' = s
    /\ threads'[t].stack = Append(threads[t].stack, fr)
    /\ OthersStay(t)
Pops(t, s) ==
    /\ threads[t].stack # <<>>
    /\ sh' = s
    /\ threads'[t].stack = Front(threads[t].stack)
    /\ OthersStay(t)

LEMMA PushBody ==
    ASSUME Body, NEW t \in Thread, ~Asleep(threads[t]), NEW s, ShellOK(s),
           NEW fr, FrameOK(fr), fr.f # "stage", fr.f # "mixed", NEW c, Wakes(c),
           Moves(t, s, Push(threads[t], fr, c))
    PROVE  Body' /\ Pushes(t, s, fr)
<1> DEFINE th == threads[t]
           ti == Push(th, fr, c)
<1>1. WellFormed(th) /\ IsSeq(th.stack)
  BY DEF Body, Shape, WellFormed
<1>2. WellFormed(ti) /\ ti.stack = Append(th.stack, fr)
  BY <1>1, PushFits
<1>3. /\ Len(th.stack) \in Nat /\ DOMAIN th.stack = 1..Len(th.stack)
      /\ DOMAIN ti.stack = 1..(Len(th.stack) + 1)
      /\ \A i \in 1..Len(th.stack) : ti.stack[i] = th.stack[i]
      /\ ti.stack[Len(th.stack) + 1] = fr
  BY <1>1, <1>2, Stack, Pushed
<1> HIDE DEF ti
<1>4. \A i \in DOMAIN ti.stack : ti.stack[i].f = "mixed" => i \in DOMAIN th.stack /\ ti.stack[i] = th.stack[i]
  BY <1>3
<1>5. Moves(t, s, ti)
  BY DEF ti
<1>6. Body'
  BY <1>2, <1>4, <1>5, BodyMoves
<1>7. OthersStay(t)
  BY <1>5, MovesStay
<1> QED BY <1>2, <1>5, <1>6, <1>7 DEF Pushes, Moves

LEMMA PopBody ==
    ASSUME Body, NEW t \in Thread, threads[t].stack # <<>>, NEW s, ShellOK(s), NEW c, Wakes(c),
           Moves(t, s, Return(threads[t], c))
    PROVE  Body' /\ Pops(t, s)
<1> DEFINE th == threads[t]
           ti == Return(th, c)
<1>1. WellFormed(th) /\ IsSeq(th.stack) /\ ~Asleep(th)
  BY WellFormedFacts DEF Body, Shape, WellFormed
<1>2. WellFormed(ti) /\ ti.stack = Front(th.stack)
  BY <1>1, PopFits
<1>3. /\ Len(th.stack) \in Nat /\ DOMAIN th.stack = 1..Len(th.stack)
      /\ DOMAIN ti.stack = 1..(Len(th.stack) - 1)
      /\ \A i \in 1..(Len(th.stack) - 1) : ti.stack[i] = th.stack[i]
  BY <1>1, <1>2, Stack, Popped
<1> HIDE DEF ti
<1>4. \A i \in DOMAIN ti.stack : ti.stack[i].f = "mixed" => i \in DOMAIN th.stack /\ ti.stack[i] = th.stack[i]
  BY <1>3
<1>5. Moves(t, s, ti)
  BY DEF ti
<1>6. Body'
  BY <1>1, <1>2, <1>4, <1>5, BodyMoves
<1>7. OthersStay(t)
  BY <1>5, MovesStay
<1> QED BY <1>2, <1>5, <1>6, <1>7 DEF Pops, Moves

\* A frame that is no mark comes or goes, and the heights stay.
LEMMA PushStill ==
    ASSUME Body, NEW t \in Thread, NEW s, Level(sh, s), NEW fr, fr.f \notin Marks, Pushes(t, s, fr) PROVE Still
<1>1. IsSeq(threads[t].stack)
  BY DEF Body, Shape, WellFormed
<1> QED BY <1>1, SteadyPush DEF Pushes, OthersStay, Still

LEMMA PopStill ==
    ASSUME Body, NEW t \in Thread, NEW s, Level(sh, s), Top(threads[t]).f \notin Marks, Pops(t, s) PROVE Still
<1>1. IsSeq(threads[t].stack)
  BY DEF Body, Shape, WellFormed
<1> QED BY <1>1, SteadyPop DEF Pops, OthersStay, Still, Top

-----------------------------------------------------------------------------
(* Function calls, sourced files and subshells: the steps that move marks. *)

\* r has a more scopes than s, b more snapshots and c more parameter lists.
Sizes(s, r, a, b, c) ==
    /\ ShellOK(r) /\ r.exited = s.exited
    /\ Len(r.scopes) = Len(s.scopes) + a
    /\ Len(r.snaps) = Len(s.snaps) + b
    /\ Len(r.params) = Len(s.params) + c

LEMMA ShellLens ==
    ASSUME NEW s, ShellOK(s)
    PROVE  Len(s.scopes) \in Nat /\ Len(s.snaps) \in Nat /\ Len(s.params) \in Nat \ {0}
<1>1. Len(s.scopes) \in Nat /\ Len(s.snaps) \in Nat /\ Len(s.params) \in Nat
  BY Stack DEF ShellOK
<1>2. Len(s.params) # 0
  BY Stack DEF ShellOK
<1> QED BY <1>1, <1>2

LEMMA PushParamsSizes == ASSUME NEW s, ShellOK(s), NEW args PROVE Sizes(s, PushParams(s, args), 0, 0, 1)
<1> DEFINE r == PushParams(s, args)
           new == Append(s.params, args)
<1>1. IsSeq(new) /\ Len(new) = Len(s.params) + 1 /\ new # <<>>
  BY Pushed DEF ShellOK
<1>2. r = [s EXCEPT !.params = new]
  BY DEF PushParams
<1> HIDE DEF new
<1>3. ShellOK(r) /\ r.exited = s.exited /\ r.scopes = s.scopes /\ r.snaps = s.snaps /\ r.params = new
  BY <1>1, <1>2 DEF ShellOK, ShellFields
<1> QED BY <1>1, <1>3, ShellLens DEF Sizes

LEMMA PushScopeSizes == ASSUME NEW s, ShellOK(s) PROVE Sizes(s, PushScope(s), 1, 0, 0)
<1> DEFINE r == PushScope(s)
           new == Append(s.scopes, [x \in Var |-> NotSaved])
<1>1. IsSeq(new) /\ Len(new) = Len(s.scopes) + 1
  BY Pushed DEF ShellOK
<1>2. r = [s EXCEPT !.scopes = new]
  BY DEF PushScope
<1> HIDE DEF new
<1>3. ShellOK(r) /\ r.exited = s.exited /\ r.scopes = new /\ r.snaps = s.snaps /\ r.params = s.params
  BY <1>1, <1>2 DEF ShellOK, ShellFields
<1> QED BY <1>1, <1>3, ShellLens DEF Sizes

LEMMA PushSnapshotSizes == ASSUME NEW s, ShellOK(s) PROVE Sizes(s, PushSnapshot(s), 0, 1, 0)
<1> DEFINE r == PushSnapshot(s)
           new == Append(s.snaps, [store |-> s.store, status |-> s.status, pst |-> s.pst,
                                   oldpwd |-> s.oldpwd])
<1>1. IsSeq(new) /\ Len(new) = Len(s.snaps) + 1
  BY Pushed DEF ShellOK
<1>2. r = [s EXCEPT !.snaps = new]
  BY DEF PushSnapshot
<1> HIDE DEF new
<1>3. ShellOK(r) /\ r.exited = s.exited /\ r.scopes = s.scopes /\ r.snaps = new /\ r.params = s.params
  BY <1>1, <1>2 DEF ShellOK, ShellFields
<1> QED BY <1>1, <1>3, ShellLens DEF Sizes

LEMMA PopScopeSizes == ASSUME NEW s, ShellOK(s), s.scopes # <<>> PROVE Sizes(s, PopScope(s), -1, 0, 0)
<1> DEFINE r == PopScope(s)
           new == Front(s.scopes)
<1>1. IsSeq(new) /\ Len(new) = Len(s.scopes) - 1
  BY Popped DEF ShellOK
<1>2. \E v : r = [s EXCEPT !.scopes = new, !.store = v]
  BY DEF PopScope
<1> HIDE DEF new
<1>3. ShellOK(r) /\ r.exited = s.exited /\ r.scopes = new /\ r.snaps = s.snaps /\ r.params = s.params
  BY <1>1, <1>2 DEF ShellOK, ShellFields
<1> QED BY <1>1, <1>3, ShellLens DEF Sizes

LEMMA PopParamsSizes ==
    ASSUME NEW s, ShellOK(s) PROVE Sizes(s, PopParams(s), 0, 0, IF Len(s.params) > 1 THEN -1 ELSE 0)
<1> DEFINE r == [s EXCEPT !.params = Front(@)]
           new == Front(s.params)
<1>1. IsSeq(new) /\ Len(new) = Len(s.params) - 1
  BY Popped DEF ShellOK
<1>2. Len(s.params) > 1 => new # <<>>
  BY <1>1, EmptyStack
<1>3. r = [s EXCEPT !.params = new]
  OBVIOUS
<1> HIDE DEF new
<1>4. Len(s.params) > 1 =>
        ShellOK(r) /\ r.exited = s.exited /\ r.scopes = s.scopes /\ r.snaps = s.snaps /\ r.params = new
  BY <1>1, <1>2, <1>3 DEF ShellOK, ShellFields
<1>5. PopParams(s) = IF Len(s.params) > 1 THEN r ELSE s
  BY DEF PopParams
<1>6. Len(s.scopes) \in Nat /\ Len(s.snaps) \in Nat /\ Len(s.params) \in Nat
  BY ShellLens
<1> HIDE DEF r
<1>7. CASE Len(s.params) > 1
  <2>1. Sizes(s, r, 0, 0, -1)
    BY <1>1, <1>4, <1>6, <1>7 DEF Sizes
  <2> QED BY <1>5, <1>7, <2>1
<1>8. CASE ~(Len(s.params) > 1)
  <2>1. Sizes(s, s, 0, 0, 0)
    BY <1>6 DEF Sizes
  <2> QED BY <1>5, <1>8, <2>1
<1> QED BY <1>7, <1>8

LEMMA CallsFunction ==
    ASSUME Body, NEW t \in Thread, CallFunction(t)
    PROVE  Body' /\ \E s, fr : Pushes(t, s, fr) /\ fr.f = "call" /\ Sizes(sh, s, 1, 0, 1)
<1> DEFINE args == Tail(Words(t))
           q == PushParams(sh, args)
           s == PushScope(q)
           fr == [f |-> "call"]
           n == sh.funs[Words(t)[1]]
<1>1. ~Asleep(threads[t]) /\ Put(t, s, Call(threads[t], fr, n))
  BY ReadyAwake DEF CallFunction, Command, Only
<1>2. ShellOK(sh) /\ Sizes(sh, q, 0, 0, 1)
  BY PushParamsSizes DEF Body, Shape
<1> HIDE DEF q
<1>3. ShellOK(q) /\ Sizes(q, s, 1, 0, 0)
  BY <1>2, PushScopeSizes DEF Sizes
<1> HIDE DEF s, n
<1>4. Sizes(sh, s, 1, 0, 1)
  <2>1. Len(sh.scopes) \in Nat /\ Len(sh.snaps) \in Nat /\ Len(sh.params) \in Nat
    BY <1>2, ShellLens
  <2> QED BY <1>2, <1>3, <2>1 DEF Sizes
<1>5. Moves(t, s, Push(threads[t], fr, Eval(n)))
  BY <1>1, PutMoves DEF Body, Call, Push
<1>6. FrameOK(fr) /\ fr.f = "call"
  BY DEF FrameOK
<1> HIDE DEF fr
<1>7. Body' /\ Pushes(t, s, fr)
  BY <1>1, <1>4, <1>5, <1>6, WakingControls, PushBody DEF Sizes
<1> QED BY <1>4, <1>6, <1>7

LEMMA Sources ==
    ASSUME Body, NEW t \in Thread, Sourcing(t)
    PROVE  Body' /\ \E s, fr : Pushes(t, s, fr) /\ fr.f = "source" /\ Sizes(sh, s, 0, 0, 1)
<1> DEFINE s == PushParams(sh, RunArgs(t))
           fr == [f |-> "source"]
           n == Node(t).sub
<1>1. ~Asleep(threads[t]) /\ Put(t, s, Call(threads[t], fr, n))
  BY RunAwake DEF Sourcing, Only
<1>2. Sizes(sh, s, 0, 0, 1)
  BY PushParamsSizes DEF Body, Shape
<1> HIDE DEF s, n
<1>3. Moves(t, s, Push(threads[t], fr, Eval(n)))
  BY <1>1, PutMoves DEF Body, Call, Push
<1>4. FrameOK(fr) /\ fr.f = "source"
  BY DEF FrameOK
<1> HIDE DEF fr
<1>5. Body' /\ Pushes(t, s, fr)
  BY <1>1, <1>2, <1>3, <1>4, WakingControls, PushBody DEF Sizes
<1> QED BY <1>2, <1>4, <1>5

LEMMA EntersSubshell ==
    ASSUME Body, NEW t \in Thread, Subshell(t)
    PROVE  Body' /\ \E s, fr : /\ Pushes(t, s, fr) /\ fr.f = "subshell" /\ fr.params = sh.params
                               /\ Sizes(sh, s, 0, 1, 0)
<1> DEFINE n == Node(t)
           s == PushSnapshot(sh)
           fr == [f |-> "subshell", cwd |-> sh.cwd, opts |-> sh.opts, params |-> sh.params]
           m == [t |-> "group", rs |-> n.rs, n |-> n.n]
<1>1. ~Asleep(threads[t]) /\ Put(t, s, Call(threads[t], fr, m))
  BY Awake DEF Subshell, Evaluating, Only
<1>2. Sizes(sh, s, 0, 1, 0)
  BY PushSnapshotSizes DEF Body, Shape
<1> HIDE DEF s, m
<1>3. Moves(t, s, Push(threads[t], fr, Eval(m)))
  BY <1>1, PutMoves DEF Body, Call, Push
<1>4. FrameOK(fr) /\ fr.f = "subshell" /\ fr.params = sh.params
  BY DEF FrameOK, Body, Shape, ShellOK
<1> HIDE DEF fr
<1>5. Body' /\ Pushes(t, s, fr)
  BY <1>1, <1>2, <1>3, <1>4, WakingControls, PushBody DEF Sizes
<1> QED BY <1>2, <1>4, <1>5

LEMMA TopCounted ==
    ASSUME Body, IsFiniteSet(Frames(Marks)), NEW t \in Thread, threads[t].stack # <<>>,
           NEW K \in SUBSET Marks, Top(threads[t]).f \in K
    PROVE  Count(K) \in Nat \ {0}
<1>1. IsSeq(threads[t].stack)
  BY DEF Body, Shape, WellFormed
<1>2. Len(threads[t].stack) \in At(t, K)
  BY <1>1, Popped DEF At, Top
<1>3. <<t, Len(threads[t].stack)>> \in Frames(K)
  BY <1>2, FrameIn
<1>4. IsFiniteSet(Frames(K)) /\ Count(K) \in Nat
  BY CountNat
<1>5. \A S : IsFiniteSet(S) => (Cardinality(S) = 0 <=> S = {})
  BY FS_EmptySet
<1> QED BY <1>3, <1>4, <1>5 DEF Count

LEMMA CallReturns ==
    ASSUME Body, Heights, NEW t \in Thread, FunctionReturns(t)
    PROVE  /\ Body' /\ Top(threads[t]).f = "call"
           /\ \E s : Pops(t, s) /\ Sizes(sh, s, -1, 0, IF Len(sh.params) > 1 THEN -1 ELSE 0)
<1> DEFINE q1 == [sh EXCEPT !.pst = <<Value(t)>>]
           Left(q) == PopParams(PopScope(q))
           d == IF Len(sh.params) > 1 THEN -1 ELSE 0
<1>1. /\ threads[t].stack # <<>> /\ Top(threads[t]).f = "call" /\ Wakes(threads[t].c)
  BY DEF FunctionReturns, Returning, Throwing, Wakes
<1>2. \E q, c : q \in {sh, q1} /\ Wakes(c) /\ Put(t, Left(q), Return(threads[t], c))
  BY <1>1, WakingControls DEF FunctionReturns, Only
<1>3. \A q \in {sh, q1} : ShellOK(q) /\ Sizes(sh, q, 0, 0, 0) /\ q.scopes = sh.scopes
  <2>1. ShellOK(sh) /\ Sizes(sh, sh, 0, 0, 0)
    BY ShellLens DEF Body, Shape, Sizes
  <2>2. ShellOK(q1) /\ q1.scopes = sh.scopes /\ q1.snaps = sh.snaps /\ q1.params = sh.params /\ q1.exited = sh.exited
    BY <2>1 DEF ShellOK, ShellFields
  <2> HIDE DEF q1
  <2>3. Sizes(sh, q1, 0, 0, 0)
    BY <2>1, <2>2 DEF Sizes
  <2> QED BY <2>1, <2>2, <2>3
<1>4. sh.scopes # <<>>
  <2>1. Count({"call"}) \in Nat \ {0} /\ Len(sh.scopes) >= Count({"call"})
    BY <1>1, TopCounted, Kinds DEF Heights
  <2>2. Len(sh.scopes) # 0
    BY <2>1, ShellLens DEF Body, Shape
  <2> QED BY <2>2, EmptyStack
<1> HIDE DEF q1
<1>5. ASSUME NEW q \in {sh, q1} PROVE Sizes(sh, Left(q), -1, 0, d)
  <2> DEFINE r == PopScope(q)
             w == PopParams(r)
  <2>1. ShellOK(q) /\ Sizes(sh, q, 0, 0, 0) /\ q.scopes # <<>>
    BY <1>3, <1>4
  <2>2. Sizes(q, r, -1, 0, 0)
    BY <2>1, PopScopeSizes
  <2> HIDE DEF r
  <2>3. ShellOK(r) /\ Sizes(r, w, 0, 0, IF Len(r.params) > 1 THEN -1 ELSE 0)
    BY <2>2, PopParamsSizes DEF Sizes
  <2>4. Len(sh.scopes) \in Nat /\ Len(sh.snaps) \in Nat /\ Len(sh.params) \in Nat
    BY ShellLens DEF Body, Shape
  <2> HIDE DEF w
  <2>5. Len(q.params) = Len(sh.params) /\ Len(r.params) = Len(q.params)
    BY <2>1, <2>2, <2>4 DEF Sizes
  <2>6. Sizes(r, w, 0, 0, d)
    <3>1. Len(r.params) = Len(sh.params)
      BY <2>5
    <3>2. (IF Len(r.params) > 1 THEN -1 ELSE 0) = d
      BY <3>1
    <3> HIDE DEF d
    <3> QED BY <2>3, <3>2
  <2> HIDE DEF d
  <2>7. Sizes(sh, w, -1, 0, d)
    <3>1. d \in {-1, 0}
      BY DEF d
    <3> QED BY <3>1, <2>1, <2>2, <2>4, <2>6 DEF Sizes
  <2> QED BY <2>7 DEF w, r
<1>6. PICK q, c : q \in {sh, q1} /\ Wakes(c) /\ Put(t, Left(q), Return(threads[t], c))
  BY <1>2
<1> DEFINE s == Left(q)
<1>7. Sizes(sh, s, -1, 0, d) /\ ShellOK(s)
  BY <1>5, <1>6 DEF Sizes
<1>8. Moves(t, s, Return(threads[t], c))
  BY <1>6, PutMoves DEF Body
<1> HIDE DEF s, d
<1>9. Body' /\ Pops(t, s)
  BY <1>1, <1>6, <1>7, <1>8, PopBody
<1> QED BY <1>1, <1>7, <1>9 DEF d

LEMMA Unwinds ==
    ASSUME Body, NEW t \in Thread, Unwind(t)
    PROVE  /\ threads[t].stack # <<>> /\ Wakes(threads[t].c)
           /\ FrameOK(Top(threads[t])) /\ Top(threads[t]).f \in {"redir", "subshell", "source", "pipestatus"}
           /\ Moves(t, Unwound(sh, Top(threads[t]), threads[t].c), Return(threads[t], threads[t].c))
           /\ ShellOK(sh)
<1>1. /\ threads[t].stack # <<>> /\ Wakes(threads[t].c)
      /\ Top(threads[t]).f \in {"redir", "subshell", "source", "pipestatus"}
  BY DEF Unwind, Returning, Throwing, Wakes
<1>2. FrameOK(Top(threads[t]))
  BY <1>1, WellFormedFacts DEF Body, Shape, Top
<1>3. Put(t, Unwound(sh, Top(threads[t]), threads[t].c), Return(threads[t], threads[t].c))
  BY DEF Unwind, Only
<1> QED BY <1>1, <1>2, <1>3, PutMoves DEF Body, Shape

\* Ends of redirections and of builtins move nothing but descriptors and results.
LEMMA UnwindsPlain ==
    ASSUME Body, NEW t \in Thread, Unwind(t), Top(threads[t]).f \in {"redir", "pipestatus"}
    PROVE  Body' /\ Still
<1> DEFINE s == Unwound(sh, Top(threads[t]), threads[t].c)
<1>1. Level(sh, s)
  <2>1. \A fds : Level(sh, [sh EXCEPT !.fds = fds])
    BY DEF Level, ShellOK, ShellFields, Body, Shape
  <2>2. \A pst : Level(sh, [sh EXCEPT !.pst = pst])
    BY DEF Level, ShellOK, ShellFields, Body, Shape
  <2>3. Level(sh, sh)
    BY DEF Level, Body, Shape
  <2> QED BY <2>1, <2>2, <2>3 DEF Unwound, Restore
<1>2. /\ threads[t].stack # <<>> /\ Wakes(threads[t].c)
      /\ Moves(t, s, Return(threads[t], threads[t].c))
  BY Unwinds
<1> HIDE DEF s
<1>3. Body' /\ Pops(t, s)
  BY <1>1, <1>2, PopBody DEF Level
<1>4. Top(threads[t]).f \notin Marks
  BY DEF Marks
<1> QED BY <1>1, <1>3, <1>4, PopStill

LEMMA UnwindsSource ==
    ASSUME Body, NEW t \in Thread, Unwind(t), Top(threads[t]).f = "source"
    PROVE  Body' /\ \E s : Pops(t, s) /\ Sizes(sh, s, 0, 0, IF Len(sh.params) > 1 THEN -1 ELSE 0)
<1> DEFINE s == PopParams(sh)
<1>1. Unwound(sh, Top(threads[t]), threads[t].c) = s
  BY DEF Unwound
<1>2. /\ threads[t].stack # <<>> /\ Wakes(threads[t].c) /\ ShellOK(sh)
      /\ Moves(t, s, Return(threads[t], threads[t].c))
  BY <1>1, Unwinds
<1>3. Sizes(sh, s, 0, 0, IF Len(sh.params) > 1 THEN -1 ELSE 0)
  BY <1>2, PopParamsSizes
<1> HIDE DEF s
<1>4. Body' /\ Pops(t, s)
  BY <1>2, <1>3, PopBody DEF Sizes
<1> QED BY <1>3, <1>4

LEMMA UnwindsSubshell ==
    ASSUME Body, Heights, NEW t \in Thread, Unwind(t), Top(threads[t]).f = "subshell"
    PROVE  /\ Body'
           /\ \E s : Pops(t, s) /\ Sizes(sh, s, 0, -1, Len(Top(threads[t]).params) - Len(sh.params))
<1> DEFINE fr == Top(threads[t])
           new == Front(sh.snaps)
           s == [PopSnapshot(sh) EXCEPT !.opts = fr.opts, !.params = fr.params, !.cwd = fr.cwd]
<1>1. Unwound(sh, fr, threads[t].c) = s
  BY DEF Unwound
<1>2. /\ threads[t].stack # <<>> /\ Wakes(threads[t].c) /\ ShellOK(sh) /\ FrameOK(fr)
      /\ Moves(t, s, Return(threads[t], threads[t].c))
  BY <1>1, Unwinds
<1>3. sh.snaps # <<>>
  <2>1. Count({"subshell"}) \in Nat \ {0} /\ Len(sh.snaps) >= Count({"subshell"})
    BY <1>2, TopCounted, Kinds DEF Heights
  <2>2. Len(sh.snaps) # 0
    BY <1>2, <2>1, ShellLens
  <2> QED BY <2>2, EmptyStack
<1>4. IsSeq(new) /\ Len(new) = Len(sh.snaps) - 1
  BY <1>2, <1>3, Popped DEF ShellOK
<1>5. IsSeq(fr.params) /\ fr.params # <<>>
  BY <1>2 DEF FrameOK
<1>6. \E v, a, b, d : s = [sh EXCEPT !.snaps = new, !.store = v, !.status = a, !.pst = b, !.oldpwd = d,
                                     !.opts = fr.opts, !.params = fr.params, !.cwd = fr.cwd]
  BY <1>2 DEF PopSnapshot, ShellOK, ShellFields
<1> DEFINE ps == fr.params
<1>7. ShellOK(s) /\ s.exited = sh.exited /\ s.scopes = sh.scopes /\ s.snaps = new /\ s.params = ps
  <2> HIDE DEF new, s
  <2> QED BY <1>2, <1>4, <1>5, <1>6 DEF ShellOK, ShellFields
<1>8. Len(ps) \in Nat /\ Len(sh.scopes) \in Nat /\ Len(sh.snaps) \in Nat /\ Len(sh.params) \in Nat
  BY <1>2, <1>5, ShellLens, Stack
<1> HIDE DEF s, new, ps
<1>9. Sizes(sh, s, 0, -1, Len(ps) - Len(sh.params))
  BY <1>4, <1>7, <1>8 DEF Sizes
<1>10. Body' /\ Pops(t, s)
  BY <1>2, <1>7, PopBody
<1> QED BY <1>9, <1>10 DEF ps

-----------------------------------------------------------------------------
(* Redirections: the control they leave, and the frame they fill.          *)

AccFields == {"fds", "made", "chan", "wrote", "saved", "opened", "c"}
Controls(c) == {c, Throw("error", 1), Ret(1)}
\* a comes of acc: what is next is what was, an error, or the end of it.
From(acc, a) == DOMAIN a = AccFields /\ a.c \in Controls(acc.c)

LEMMA FromTwice ==
    ASSUME NEW acc, NEW a, NEW b, From(acc, a), From(a, b) PROVE From(acc, b)
BY DEF From, Controls

LEMMA RefuseFrom == ASSUME NEW acc, DOMAIN acc = AccFields PROVE From(acc, Refuse(acc)) /\ From(acc, acc)
BY DEF From, Controls, Refuse, AccFields

LEMMA Dup2From == ASSUME NEW acc, DOMAIN acc = AccFields, NEW fd, NEW end PROVE From(acc, Dup2(acc, fd, end))
BY DEF From, Controls, Dup2, AccFields

LEMMA OverFrom ==
    ASSUME NEW acc, DOMAIN acc = AccFields, NEW fd, NEW copy, NEW end PROVE From(acc, Over(acc, fd, copy, end))
<1> DEFINE b == Dup2(acc, copy, acc.fds[fd])
           a == [b EXCEPT !.saved = Append(@, [fd |-> fd, copy |-> copy])]
<1>1. From(acc, b) /\ DOMAIN b = AccFields
  BY Dup2From DEF From
<1>2. From(acc, a) /\ DOMAIN a = AccFields
  <2> HIDE DEF b
  <2> QED BY <1>1 DEF From, AccFields
<1>3. /\ From(acc, acc) /\ From(acc, Refuse(acc))
      /\ From(acc, Refuse(a)) /\ From(acc, Dup2(a, fd, end))
  <2> HIDE DEF a
  <2> QED BY <1>2, RefuseFrom, Dup2From, FromTwice
<1> DEFINE o == Over(acc, fd, copy, end)
<1>4. o = acc \/ o = Refuse(acc) \/ o = Refuse(a) \/ o = Dup2(a, fd, end)
  BY DEF Over
<1> HIDE DEF a, o
<1>5. From(acc, o)
  BY <1>3, <1>4
<1> QED BY <1>5 DEF o

LEMMA CreateFrom ==
    ASSUME NEW acc, DOMAIN acc = AccFields, NEW f, NEW b, NEW p, NEW ls, NEW fd, NEW end
    PROVE  /\ From(acc, Create(acc, f, b)) /\ From(acc, Source(acc, p, ls))
           /\ From(acc, Open(acc, fd, end))
<1>1. From(acc, Create(acc, f, b)) /\ From(acc, Source(acc, p, ls))
  BY DEF From, Controls, Create, Source, AccFields
<1> DEFINE d == Dup2(acc, fd, end)
<1>2. From(acc, d)
  BY Dup2From
<1>3. From(acc, [d EXCEPT !.opened = @ \cup {fd}])
  <2> HIDE DEF d
  <2> QED BY <1>2 DEF From, AccFields
<1> QED BY <1>1, <1>3 DEF Open

LEMMA RedirectFrom == ASSUME NEW acc, DOMAIN acc = AccFields, NEW r PROVE From(acc, Redirect(acc, r))
<1> DEFINE fd(i) == Nth(FreeFds, i)
           p == Nth(FreeChans, 1)
           made == Create(acc, r.to, r.op \in {">", "&>"})
           file == Open(made, fd(1), Into(r.to))
           text == Source(acc, p, r.text)
           lines == Source(acc, p, Lines[r.to])
           source == Open(lines, fd(1), Reader(p))
           R == Redirect(acc, r)
<1>1. From(acc, file) /\ DOMAIN file = AccFields
  <2>1. From(acc, made) /\ DOMAIN made = AccFields
    BY CreateFrom DEF From
  <2> HIDE DEF made
  <2>2. From(made, file)
    BY <2>1, CreateFrom
  <2> HIDE DEF file
  <2> QED BY <2>1, <2>2, FromTwice DEF From
<1>2. From(acc, text) /\ DOMAIN text = AccFields /\ From(acc, lines) /\ DOMAIN lines = AccFields
  BY CreateFrom DEF From
<1>3. From(acc, source) /\ DOMAIN source = AccFields
  <2> HIDE DEF lines
  <2>1. From(lines, source)
    BY <1>2, CreateFrom
  <2> HIDE DEF source
  <2> QED BY <1>2, <2>1, FromTwice DEF From
<1>4. \A a : From(acc, a) /\ DOMAIN a = AccFields =>
        \A n, copy, end : From(acc, Over(a, n, copy, end)) /\ DOMAIN Over(a, n, copy, end) = AccFields
  BY OverFrom, FromTwice DEF From
<1>5. From(acc, acc) /\ From(acc, Refuse(acc)) /\ From(acc, [acc EXCEPT !.c = Ret(1)])
  BY RefuseFrom DEF From, Controls, AccFields
<1>6. \/ R = Over(text, r.fd, fd(2), Reader(p))
      \/ R = [acc EXCEPT !.c = Ret(1)] \/ R = acc \/ R = Refuse(acc)
      \/ R = Over(file, r.fd, fd(2), Into(r.to))
      \/ R = Over(Over(file, 1, fd(2), Into(r.to)), 2, fd(3), Into(r.to))
      \/ R = Over(source, r.fd, fd(2), Reader(p))
      \/ R = Over(acc, r.fd, fd(2), sh.fds[r.num])
  BY DEF Redirect
<1> HIDE DEF file, text, source, R, fd, p
<1>7. From(acc, R)
  BY <1>1, <1>2, <1>3, <1>4, <1>5, <1>6
<1> QED BY <1>7 DEF R

LEMMA ApplyExecFrom == ASSUME NEW acc, DOMAIN acc = AccFields, NEW r PROVE From(acc, ApplyExec(acc, r))
<1> DEFINE p == Nth(FreeChans, 1)
           file == Create(acc, r.to, r.op \in {">", "&>"})
           lines == Source(acc, p, Lines[r.to])
           R == ApplyExec(acc, r)
<1>1. From(acc, file) /\ DOMAIN file = AccFields /\ From(acc, lines) /\ DOMAIN lines = AccFields
  BY CreateFrom DEF From
<1>2. \A a : From(acc, a) /\ DOMAIN a = AccFields =>
        \A n, end : From(acc, Dup2(a, n, end)) /\ DOMAIN Dup2(a, n, end) = AccFields
  BY Dup2From, FromTwice DEF From
<1>3. From(acc, acc) /\ From(acc, Refuse(acc))
  BY RefuseFrom
<1>4. \/ R = Dup2(file, r.fd, Into(r.to))
      \/ R = Dup2(Dup2(file, 1, Into(r.to)), 2, Into(r.to))
      \/ R = Refuse(acc) \/ R = acc
      \/ R = Dup2(lines, r.fd, Reader(p))
      \/ R = Dup2(acc, r.fd, sh.fds[r.num])
  BY DEF ApplyExec
<1> HIDE DEF file, lines, R, p
<1>5. From(acc, R)
  BY <1>1, <1>2, <1>3, <1>4
<1> QED BY <1>5 DEF R

\* The top frame is replaced by one of its kind.
LEMMA SwapFits ==
    ASSUME NEW th, WellFormed(th), th.stack # <<>>, NEW fr, FrameOK(fr), fr.f = Last(th.stack).f,
           NEW c, Wakes(c) \/ (c.k = "redirect" /\ fr.f = "redir")
    PROVE  LET ti == Placed(th, Append(Front(th.stack), fr), c)
           IN  /\ WellFormed(ti) /\ ~Asleep(ti) /\ ti.stack = Append(Front(th.stack), fr) /\ ti.c = c
               /\ DOMAIN ti.stack = DOMAIN th.stack
               /\ \A i \in DOMAIN ti.stack : (ti.stack[i] = fr /\ i = Len(th.stack)) \/ ti.stack[i] = th.stack[i]
<1> DEFINE s == th.stack
           q == Front(s)
           r == Append(q, fr)
           ti == Placed(th, r, c)
<1>1. DOMAIN ti = ThreadFields /\ ti.stack = r /\ ti.c = c
  BY DEF WellFormed, ThreadFields, Placed
<1>2. /\ IsSeq(s) /\ Len(s) \in Nat \ {0} /\ DOMAIN s = 1..Len(s) /\ Last(s) = s[Len(s)]
      /\ IsSeq(q) /\ Len(q) = Len(s) - 1 /\ \A i \in 1..(Len(s) - 1) : q[i] = s[i]
  BY Stack, Popped DEF WellFormed
<1> HIDE DEF q
<1>3. /\ IsSeq(r) /\ DOMAIN r = 1..(Len(q) + 1) /\ r[Len(q) + 1] = fr /\ r # <<>>
      /\ Len(r) = Len(q) + 1
      /\ \A i \in 1..Len(q) : r[i] = q[i]
  BY <1>2, Pushed
<1> HIDE DEF r
<1>4. /\ DOMAIN r = DOMAIN s /\ r[Len(s)] = fr /\ \A i \in 1..(Len(s) - 1) : r[i] = s[i]
      /\ Last(r) = fr
  BY <1>2, <1>3 DEF Last
<1> HIDE DEF s, ti
<1>5. \A i : i \in DOMAIN r <=> i \in 1..(Len(s) - 1) \/ i = Len(s)
  BY <1>2, <1>4
<1>6. \A i \in DOMAIN s : FrameOK(s[i]) /\ (s[i].f = "stage" => i = 1)
  BY DEF WellFormed, s
<1>7. \A i \in DOMAIN r : FrameOK(r[i]) /\ (r[i].f = "stage" => i = 1)
  <2>1. Len(s) \in DOMAIN s
    BY <1>2
  <2> QED BY <1>2, <1>4, <1>5, <1>6, <2>1 DEF s
<1>8. ~Asleep(ti)
  BY <1>1 DEF Asleep, Sleeping, Wakes
<1>9. ti.c.k = "redirect" => ti.stack # <<>> /\ Last(ti.stack).f = "redir"
  BY <1>1, <1>3, <1>4 DEF Wakes
<1>10. WellFormed(ti)
  BY <1>1, <1>3, <1>7, <1>8, <1>9 DEF WellFormed
<1>11. \A i \in DOMAIN r : (r[i] = fr /\ i = Len(s)) \/ r[i] = s[i]
  BY <1>4, <1>5
<1> QED BY <1>1, <1>4, <1>8, <1>10, <1>11 DEF ti, r, s, q

LEMMA SwapStill ==
    ASSUME Body, NEW t \in Thread, threads[t].stack # <<>>, NEW s, Level(sh, s),
           NEW fr, FrameOK(fr), fr.f = Top(threads[t]).f, fr.f \notin Marks, fr.f # "mixed",
           NEW c, Wakes(c) \/ (c.k = "redirect" /\ fr.f = "redir"),
           Put(t, s, Placed(threads[t], Append(Front(threads[t].stack), fr), c))
    PROVE  Body' /\ Still
<1> DEFINE th == threads[t]
           new == Append(Front(th.stack), fr)
           ti == Placed(th, new, c)
<1>1. WellFormed(th) /\ IsSeq(th.stack) /\ fr.f = Last(th.stack).f /\ Len(th.stack) \in DOMAIN th.stack
  BY Popped DEF Body, Shape, Top, WellFormed
<1>2. /\ WellFormed(ti) /\ ~Asleep(ti) /\ ti.stack = new
      /\ DOMAIN ti.stack = DOMAIN th.stack
      /\ \A i \in DOMAIN ti.stack : (ti.stack[i] = fr /\ i = Len(th.stack)) \/ ti.stack[i] = th.stack[i]
  BY <1>1, SwapFits
<1>3. Moves(t, s, ti)
  BY PutMoves DEF Body
<1>4. Steady(Marks, th.stack, new)
  BY <1>1, SteadySwap
<1> HIDE DEF ti
<1>5. \A i \in DOMAIN ti.stack : ti.stack[i].f = "mixed" => i \in DOMAIN th.stack /\ ti.stack[i] = th.stack[i]
  BY <1>2
<1>6. ShellOK(s) /\ ~Asleep(th)
  BY <1>1, WellFormedFacts DEF Level
<1>7. Body'
  BY <1>2, <1>3, <1>5, <1>6, BodyMoves
<1>8. Still
  BY <1>2, <1>3, <1>4, MovesStay DEF Moves, OthersStay, Still
<1> QED BY <1>7, <1>8

LEMMA SwapNextStill ==
    ASSUME Body, NEW t \in Thread, RedirectNext(t) PROVE Body' /\ Still
<1> DEFINE c == threads[t].c
           d == [c EXCEPT !.rs = Tail(@)]
           acc == Redirect(Acc(Top(threads[t]), d), Head(c.rs))
           fr == [f |-> "redir", saved |-> acc.saved, opened |-> acc.opened]
           s == [sh EXCEPT !.fds = acc.fds, !.made = acc.made]
<1>1. threads[t].stack # <<>> /\ Top(threads[t]).f = "redir" /\ c.k = "redirect"
  BY DEF RedirectNext, Controlled, Body, Shape, WellFormed, Top
<1>2. FrameOK(fr) /\ fr.f = "redir"
  BY DEF FrameOK
<1>3. Level(sh, s)
  <2> HIDE DEF acc
  <2> QED BY DEF Body, Shape, Level, ShellOK, ShellFields
<1>4. Put(t, s, Placed(threads[t], Append(Front(threads[t].stack), fr), acc.c))
  BY DEF RedirectNext, Apply, Placed
<1>5. DOMAIN Acc(Top(threads[t]), d) = AccFields /\ Acc(Top(threads[t]), d).c = d
  BY DEF Acc, AccFields
<1>6. acc.c \in Controls(d)
  BY <1>5, RedirectFrom DEF From
<1>7. d.k = "redirect"
  BY <1>1
<1> HIDE DEF acc, d, s, fr
<1>8. Wakes(acc.c) \/ acc.c.k = "redirect"
  BY <1>6, <1>7, WakingControls DEF Controls
<1>9. fr.f \notin Marks /\ fr.f # "mixed"
  BY <1>2 DEF Marks
<1> QED BY <1>1, <1>2, <1>3, <1>4, <1>8, <1>9, SwapStill

LEMMA ExecAppliesStill ==
    ASSUME Body, NEW t \in Thread, ExecApplies(t) PROVE Body' /\ Still
<1> DEFINE c == threads[t].c
           d == [c EXCEPT !.rs = Tail(@)]
           acc == ApplyExec(Acc(NoSaves, d), Head(c.rs))
           s == [sh EXCEPT !.fds = acc.fds, !.made = acc.made]
           th == threads[t]
<1>1. ~Asleep(th) /\ c.k = "exec" /\ WellFormed(th)
  BY Awake DEF ExecApplies, Controlled, Body, Shape
<1>2. Level(sh, s)
  <2> HIDE DEF acc
  <2> QED BY DEF Body, Shape, Level, ShellOK, ShellFields
<1>3. Put(t, s, Become(th, acc.c))
  BY DEF ExecApplies, Apply
<1>4. DOMAIN Acc(NoSaves, d) = AccFields /\ Acc(NoSaves, d).c = d
  BY DEF Acc, AccFields
<1>5. acc.c \in Controls(d)
  BY <1>4, ApplyExecFrom DEF From
<1>6. Wakes(d)
  BY <1>1 DEF Wakes
<1> HIDE DEF acc, d, s
<1>7. Wakes(acc.c)
  BY <1>5, <1>6, WakingControls DEF Controls
<1> DEFINE ti == Become(th, acc.c)
<1>8. WellFormed(ti) /\ ti.stack = th.stack
  BY <1>1, <1>7, BecomeFits
<1>9. Moves(t, s, ti)
  BY <1>3, PutMoves DEF Body
<1> HIDE DEF ti, th
<1>10. Body'
  BY <1>1, <1>2, <1>8, <1>9, BodyMoves DEF th, Level
<1>11. Still
  BY <1>2, <1>8, <1>9, MovesStay, SteadySelf DEF Moves, OthersStay, Still, th
<1> QED BY <1>10, <1>11

LEMMA GroupRedirects ==
    ASSUME Body, NEW t \in Thread, Group(t), Node(t).rs # <<>> PROVE Body' /\ Still
<1> DEFINE th == threads[t]
           s == th.stack
           fr == [f |-> "redir", saved |-> <<>>, opened |-> {}]
           c == [k |-> "redirect", rs |-> Node(t).rs, n |-> Node(t).n]
           ti == Placed(th, Append(s, fr), c)
<1>1. WellFormed(th) /\ ~Asleep(th) /\ IsSeq(s)
  BY Awake DEF Group, Evaluating, Body, Shape, WellFormed
<1>2. Put(t, sh, ti)
  BY DEF Group, Only, WithRedirections, Placed
<1>3. FrameOK(fr) /\ fr.f \notin Marks /\ fr.f # "mixed" /\ fr.f # "stage" /\ fr.f = "redir"
  BY DEF FrameOK, Marks
<1>4. DOMAIN ti = ThreadFields /\ ti.stack = Append(s, fr) /\ ti.c = c
  BY <1>1 DEF WellFormed, ThreadFields, Placed
<1>5. c.k = "redirect"
  OBVIOUS
<1> HIDE DEF fr, c, ti
<1>6. /\ IsSeq(ti.stack) /\ Len(s) \in Nat /\ DOMAIN s = 1..Len(s)
      /\ DOMAIN ti.stack = 1..(Len(s) + 1) /\ Len(ti.stack) = Len(s) + 1 /\ ti.stack # <<>>
      /\ \A i \in 1..Len(s) : ti.stack[i] = s[i]
      /\ ti.stack[Len(s) + 1] = fr
  <2> HIDE DEF s
  <2>1. IsSeq(Append(s, fr)) /\ Len(Append(s, fr)) = Len(s) + 1 /\ Append(s, fr) # <<>>
    BY <1>1, Pushed
  <2>2. /\ Len(s) \in Nat /\ DOMAIN s = 1..Len(s)
        /\ DOMAIN Append(s, fr) = 1..(Len(s) + 1)
        /\ \A i \in 1..Len(s) : Append(s, fr)[i] = s[i]
        /\ Append(s, fr)[Len(s) + 1] = fr
    BY <1>1, Stack, Pushed
  <2> QED BY <1>4, <2>1, <2>2
<1>7. Last(ti.stack) = fr
  BY <1>6 DEF Last
<1>8. \A i \in DOMAIN ti.stack : FrameOK(ti.stack[i]) /\ (ti.stack[i].f = "stage" => i = 1)
  BY <1>1, <1>3, <1>6 DEF WellFormed
<1>9. WellFormed(ti) /\ ~Asleep(ti)
  <2>1. ~Asleep(ti)
    BY <1>4, <1>5 DEF Asleep, Sleeping
  <2> QED BY <1>3, <1>4, <1>6, <1>7, <1>8, <2>1 DEF WellFormed
<1>10. \A i \in DOMAIN ti.stack : ti.stack[i].f = "mixed" => i \in DOMAIN s /\ ti.stack[i] = s[i]
  BY <1>3, <1>6
<1>11. Moves(t, sh, ti)
  BY <1>2, PutMoves DEF Body
<1>12. Body'
  BY <1>1, <1>9, <1>10, <1>11, BodyMoves DEF Body, Shape
<1>13. Pushes(t, sh, fr)
  BY <1>4, <1>11, MovesStay DEF Moves, Pushes
<1>14. Level(sh, sh)
  BY DEF Level, Body, Shape
<1> QED BY <1>3, <1>12, <1>13, <1>14, PushStill

\* Descriptors and results may change; the heights stay.
LEMMA FdsLevel ==
    ASSUME NEW s, ShellOK(s), NEW fds
    PROVE  Level(s, [s EXCEPT !.fds = fds]) /\ \A pst : Level(s, [s EXCEPT !.pst = pst])
BY DEF Level, ShellOK, ShellFields

LEMMA CapturesStill ==
    ASSUME Body, NEW t \in Thread, Capture(t) PROVE Body' /\ Still
<1> DEFINE rfd == Nth(FreeFds, 1)
           p == Nth(FreeChans, 1)
           copy == IF NativeCapture(Node(t).n) THEN NoCopy ELSE Nth(FreeFds, 2)
           fr == [f |-> "capture", x |-> Node(t).x, rfd |-> rfd, p |-> p, copy |-> copy, text |-> <<>>]
<1>1. ~Asleep(threads[t])
  BY Awake DEF Capture, Evaluating
<1>2. PICK fds, n : Put(t, [sh EXCEPT !.fds = fds], Call(threads[t], fr, n))
  BY DEF Capture
<1>3. FrameOK(fr) /\ fr.f \notin Marks /\ fr.f # "mixed" /\ fr.f # "stage"
  BY DEF FrameOK, Marks
<1> DEFINE s == [sh EXCEPT !.fds = fds]
<1>4. Level(sh, s)
  BY FdsLevel DEF Body, Shape
<1> HIDE DEF fr, s
<1>5. Moves(t, s, Push(threads[t], fr, Eval(n)))
  BY <1>2, PutMoves DEF Body, Call, Push, s
<1>6. Body' /\ Pushes(t, s, fr)
  BY <1>1, <1>3, <1>4, <1>5, WakingControls, PushBody DEF Level
<1> QED BY <1>3, <1>4, <1>6, PushStill

LEMMA CaptureRestoresStill ==
    ASSUME Body, NEW t \in Thread, CaptureRestores(t) PROVE Body' /\ Still
<1> DEFINE fr == Top(threads[t])
           gr == [fr EXCEPT !.copy = NoCopy]
<1>1. /\ threads[t].stack # <<>> /\ fr.f = "capture" /\ Wakes(threads[t].c) /\ FrameOK(fr)
      /\ WellFormed(threads[t])
  BY WellFormedFacts DEF CaptureRestores, Captured, Returning, Throwing, Wakes, Body, Shape, Top
<1>2. FrameOK(gr) /\ gr.f = fr.f /\ gr.f \notin Marks /\ gr.f # "mixed"
  BY <1>1 DEF FrameOK, Marks
<1>3. PICK fds : Put(t, [sh EXCEPT !.fds = fds], [threads[t] EXCEPT !.stack = Append(Front(@), gr)])
  BY DEF CaptureRestores, Only
<1> HIDE DEF gr
<1>4. [threads[t] EXCEPT !.stack = Append(Front(@), gr)]
        = Placed(threads[t], Append(Front(threads[t].stack), gr), threads[t].c)
  BY <1>1 DEF Placed, WellFormed, ThreadFields
<1> DEFINE s == [sh EXCEPT !.fds = fds]
<1>5. Level(sh, s)
  BY FdsLevel DEF Body, Shape
<1>6. Put(t, s, Placed(threads[t], Append(Front(threads[t].stack), gr), threads[t].c))
  BY <1>3, <1>4
<1> HIDE DEF s
<1> QED BY <1>1, <1>2, <1>5, <1>6, SwapStill

LEMMA CaptureEndsStill ==
    ASSUME Body, NEW t \in Thread, CaptureEnds(t) \/ CaptureThrows(t) PROVE Body' /\ Still
<1> DEFINE fr == Top(threads[t])
           q == CloseFds(sh, {fr.rfd})
           s == SetVar(q, fr.x, fr.text)
<1>1. threads[t].stack # <<>> /\ fr.f = "capture"
  BY DEF CaptureEnds, CaptureThrows, Returning, Throwing
<1>2. Level(sh, sh) /\ Level(sh, q) /\ ShellOK(q)
  BY FdsLevel DEF Level, CloseFds, Body, Shape
<1>3. Level(sh, s)
  <2> HIDE DEF q
  <2>1. Kin(q, s)
    BY <1>2, SetVarKin
  <2> HIDE DEF s
  <2> QED BY <1>2, <2>1 DEF Kin, Level
<1>4. PICK r, c : r \in {sh, s} /\ Wakes(c) /\ Put(t, r, Return(threads[t], c))
  <2>1. CASE CaptureEnds(t)
    BY <2>1, WakingControls DEF CaptureEnds, Only
  <2>2. CASE CaptureThrows(t)
    <3>1. Wakes(threads[t].c)
      BY <2>2 DEF CaptureThrows, Throwing, Wakes
    <3> QED BY <2>2, <3>1 DEF CaptureThrows, Only
  <2> QED BY <2>1, <2>2
<1> HIDE DEF q, s
<1>5. Level(sh, r)
  BY <1>2, <1>3, <1>4
<1>6. Body' /\ Pops(t, r)
  <2>1. Moves(t, r, Return(threads[t], c)) /\ ShellOK(r)
    BY <1>4, <1>5, PutMoves DEF Level, Body
  <2> QED BY <1>1, <1>4, <2>1, PopBody
<1>7. fr.f \notin Marks
  BY <1>1 DEF Marks
<1> QED BY <1>5, <1>6, <1>7, PopStill

LEMMA MixedDoneStill ==
    ASSUME Body, NEW t \in Thread, MixedDone(t) PROVE Body' /\ Still
<1> DEFINE fr == Top(threads[t])
           kids == Range(fr.kids)
<1>1. /\ threads[t].stack # <<>> /\ fr.f = "mixed" /\ fr.left = {}
      /\ WellFormed(threads[t]) /\ ~Asleep(threads[t]) /\ DOMAIN threads = Thread
  BY Awake DEF MixedDone, Awaiting, Body, Shape
<1>2. \A u \in kids : u \in Thread => Asleep(threads[u])
  <2>1. Len(threads[t].stack) \in DOMAIN threads[t].stack /\ fr = threads[t].stack[Len(threads[t].stack)]
    BY <1>1, Popped DEF WellFormed, Top
  <2>2. KidsDone(fr)
    BY <1>1, <2>1 DEF Body, KidsAsleep
  <2> QED BY <1>1, <2>2 DEF KidsDone
<1>3. PICK codes, v : Collect(t, Return(threads[t], Ret(v)), kids) /\ sh' = [sh EXCEPT !.pst = codes]
  BY DEF MixedDone
<1> DEFINE s == [sh EXCEPT !.pst = codes]
           th == Return(threads[t], Ret(v))
<1>4. Level(sh, s)
  BY FdsLevel DEF Body, Shape
<1> HIDE DEF s, th, kids
<1>5. ASSUME NEW u \in Thread, u # t PROVE Calm(threads[u], threads'[u])
  <2>1. CASE u \in kids
    <3>1. threads'[u] = Idle
      BY <1>3, <1>5, <2>1 DEF Collect
    <3> QED BY <1>2, <1>5, <2>1, <3>1, IdleFits, CalmSleep DEF Body, Shape
  <2>2. CASE u \notin kids
    <3>1. threads'[u] = threads[u]
      BY <1>3, <1>5, <2>2 DEF Collect
    <3> QED BY <3>1, CalmSelf DEF Body, Shape
  <2> QED BY <2>1, <2>2
<1>6. Moves(t, s, th)
  BY <1>3, <1>5 DEF Moves, Collect, s, th
<1>7. Body' /\ Pops(t, s)
  BY <1>1, <1>4, <1>6, WakingControls, PopBody DEF Level, th
<1>8. fr.f \notin Marks
  BY <1>1 DEF Marks
<1> QED BY <1>4, <1>7, <1>8, PopStill

-----------------------------------------------------------------------------
(* Mixed pipelines start stages, and stages end.                           *)

LEMMA BodyStep ==
    ASSUME Body, ShellOK(sh'), DOMAIN threads' = Thread, \A u \in Thread : WellFormed(threads'[u]),
           \A u \in Thread : Asleep(threads[u]) => Asleep(threads'[u]),
           \A v \in Thread : \A i \in DOMAIN threads'[v].stack : threads'[v].stack[i].f = "mixed" =>
               \/ i \in DOMAIN threads[v].stack /\ threads'[v].stack[i] = threads[v].stack[i]
               \/ KidsDone(threads[v].stack[i])'
    PROVE  Body'
<1>1. Shape'
  BY DEF Shape
<1>2. ASSUME NEW v \in Thread, NEW i \in DOMAIN threads'[v].stack, threads'[v].stack[i].f = "mixed",
             i \in DOMAIN threads[v].stack, threads'[v].stack[i] = threads[v].stack[i]
      PROVE  KidsDone(threads[v].stack[i])'
  <2>1. KidsDone(threads[v].stack[i])
    BY <1>2 DEF Body, KidsAsleep
  <2> QED BY <1>2, <2>1 DEF KidsDone
<1>3. KidsAsleep'
  BY <1>2 DEF KidsAsleep
<1> QED BY <1>1, <1>3 DEF Body

LEMMA StageFacts ==
    ASSUME Body, NEW t \in Thread, AtStageEnd(t)
    PROVE  /\ IsSeq(threads[t].stack) /\ Len(threads[t].stack) = 1 /\ ~Asleep(threads[t])
           /\ DOMAIN threads[t].stack = {1} /\ Top(threads[t]) = threads[t].stack[1]
           /\ threads[t].stack[1].f = "stage" /\ FrameOK(threads[t].stack[1])
           /\ Steady(Marks, threads[t].stack, Idle.stack)
<1> DEFINE s == threads[t].stack
<1>1. IsSeq(s) /\ s # <<>> /\ Last(s).f = "stage" /\ ~Asleep(threads[t])
  BY Awake DEF Body, Shape, WellFormed, AtStageEnd, Top
<1>2. Len(s) \in DOMAIN s /\ Last(s) = s[Len(s)] /\ DOMAIN s = 1..Len(s)
  BY <1>1, Popped, Stack
<1>3. Len(s) = 1 /\ FrameOK(s[Len(s)])
  BY <1>1, <1>2 DEF Body, Shape, WellFormed
<1>4. DOMAIN s = {1}
  BY <1>2, <1>3
<1>5. s[1].f \notin Marks
  BY <1>1, <1>2, <1>3 DEF Marks
<1>6. Steady(Marks, s, Idle.stack)
  <2>1. DOMAIN Idle.stack = {}
    BY EmptyStack DEF Idle
  <2> QED BY <1>4, <1>5, <2>1 DEF Steady
<1> QED BY <1>1, <1>2, <1>3, <1>4, <1>6 DEF Top

LEMMA WaitsFacts ==
    ASSUME Body, NEW p \in Thread, NEW t, Waits(p, t)
    PROVE  /\ threads[p].c.k = "await" /\ ~Asleep(threads[p]) /\ WellFormed(threads[p])
           /\ threads[p].stack # <<>> /\ FrameOK(Top(threads[p])) /\ Top(threads[p]).f = "mixed"
BY WellFormedFacts, Awake DEF Waits, Awaiting, Body, Shape, Top

LEMMA ParCalm ==
    ASSUME NEW th, WellFormed(th) PROVE Calm(th, [th EXCEPT !.par = 0]) /\ WellFormed([th EXCEPT !.par = 0])
<1> DEFINE ti == [th EXCEPT !.par = 0]
<1>1. DOMAIN ti = ThreadFields /\ ti.stack = th.stack /\ ti.c = th.c
  BY DEF WellFormed, ThreadFields
<1> HIDE DEF ti
<1>2. WellFormed(ti) /\ (Asleep(ti) <=> Asleep(th))
  BY <1>1 DEF WellFormed, Asleep
<1> QED BY <1>1, <1>2, SteadySelf DEF Calm, ti

LEMMA StageEndsStill ==
    ASSUME Body, NEW t \in Thread, StageEnds(t) PROVE Body' /\ Still
<1> DEFINE p == threads[t].par
           c == threads[t].c
           fr == Top(threads[p])
           at == CHOOSE i \in DOMAIN fr.kids : fr.kids[i] = t
           top == [fr EXCEPT !.left = @ \ {t}, !.codes[at] = StageCode(c)]
           new == [threads[p] EXCEPT !.stack = Append(Front(@), top)]
           q == Placed(threads[p], Append(Front(threads[p].stack), top), threads[p].c)
<1>1. /\ AtStageEnd(t) /\ DOMAIN threads' = Thread /\ threads'[t] = Idle
      /\ \A u \in Thread : u # t /\ ~(u = p /\ Waits(p, t)) => threads'[u] = threads[u]
      /\ p \in Thread /\ p # t /\ Waits(p, t) => threads'[p] = new
  BY DEF StageEnds
<1>2. Level(sh, sh')
  BY FdsLevel DEF StageEnds, CloseFds, Body, Shape
<1>3. Shape /\ ~Asleep(threads[t]) /\ Steady(Marks, threads[t].stack, Idle.stack)
  BY <1>1, StageFacts DEF Body
<1>4. ASSUME p \in Thread, p # t, Waits(p, t)
      PROVE  /\ WellFormed(threads'[p]) /\ Steady(Marks, threads[p].stack, threads'[p].stack)
             /\ \A i \in DOMAIN threads'[p].stack :
                  \/ threads'[p].stack[i] = top
                  \/ i \in DOMAIN threads[p].stack /\ threads'[p].stack[i] = threads[p].stack[i]
  <2>1. /\ WellFormed(threads[p]) /\ ~Asleep(threads[p]) /\ threads[p].stack # <<>> /\ threads[p].c.k = "await"
        /\ FrameOK(fr) /\ fr.f = "mixed"
    BY <1>4, WaitsFacts
  <2>2. FrameOK(top) /\ top.f = "mixed"
    BY <2>1 DEF FrameOK
  <2> HIDE DEF top
  <2>3. new = q /\ Wakes(threads[p].c)
    BY <2>1 DEF Placed, WellFormed, ThreadFields, Wakes
  <2>4. /\ WellFormed(q) /\ q.stack = Append(Front(threads[p].stack), top)
        /\ DOMAIN q.stack = DOMAIN threads[p].stack
        /\ \A i \in DOMAIN q.stack : (q.stack[i] = top /\ i = Len(threads[p].stack)) \/ q.stack[i] = threads[p].stack[i]
    <3>1. top.f = Last(threads[p].stack).f
      BY <2>1, <2>2 DEF Top
    <3> DEFINE th == threads[p]
               d == th.c
    <3>2. /\ WellFormed(th) /\ th.stack # <<>> /\ FrameOK(top) /\ top.f = Last(th.stack).f /\ Wakes(d)
          /\ q = Placed(th, Append(Front(th.stack), top), d)
      BY <2>1, <2>2, <2>3, <3>1
    <3> HIDE DEF th, d, q, p
    <3>3. /\ WellFormed(q) /\ q.stack = Append(Front(th.stack), top) /\ DOMAIN q.stack = DOMAIN th.stack
          /\ \A i \in DOMAIN q.stack : (q.stack[i] = top /\ i = Len(th.stack)) \/ q.stack[i] = th.stack[i]
      BY <3>2, SwapFits
    <3> QED BY <3>3 DEF th
  <2>5. top.f = Last(threads[p].stack).f /\ top.f \notin Marks /\ IsSeq(threads[p].stack)
    BY <2>1, <2>2 DEF Top, Marks, WellFormed
  <2> HIDE DEF new, q
  <2>6. Steady(Marks, threads[p].stack, q.stack)
    BY <2>1, <2>4, <2>5, SteadySwap
  <2> QED BY <1>1, <1>4, <2>3, <2>4, <2>6
<1> HIDE DEF p, top, new, q
<1>5. \A u \in Thread : WellFormed(threads'[u]) /\ Steady(Marks, threads[u].stack, threads'[u].stack)
  BY <1>1, <1>3, <1>4, IdleFits, SteadySelf DEF Shape
<1>6. \A u \in Thread : Asleep(threads[u]) => Asleep(threads'[u])
  <2>1. p \in Thread /\ Waits(p, t) => ~Asleep(threads[p])
    BY WaitsFacts
  <2> QED BY <1>1, <1>3, <2>1
<1>7. ASSUME p \in Thread, Waits(p, t) PROVE \A u \in Range(top.kids) \ top.left : u \in Thread => Asleep(threads'[u])
  <2>1. /\ WellFormed(threads[p]) /\ threads[p].stack # <<>> /\ FrameOK(fr) /\ fr.f = "mixed"
    BY <1>7, WaitsFacts
  <2>2. Len(threads[p].stack) \in DOMAIN threads[p].stack /\ fr = threads[p].stack[Len(threads[p].stack)]
    BY <2>1, Popped DEF WellFormed, Top
  <2>3. KidsDone(fr)
    BY <1>7, <2>1, <2>2 DEF Body, KidsAsleep
  <2>4. top.kids = fr.kids /\ top.left = fr.left \ {t}
    BY <2>1 DEF top, FrameOK
  <2> HIDE DEF fr
  <2> QED BY <1>1, <1>6, <2>3, <2>4, IdleFits DEF KidsDone
<1>8. \A v \in Thread : \A i \in DOMAIN threads'[v].stack : threads'[v].stack[i].f = "mixed" =>
        \/ i \in DOMAIN threads[v].stack /\ threads'[v].stack[i] = threads[v].stack[i]
        \/ KidsDone(threads[v].stack[i])'
  <2> SUFFICES ASSUME NEW v \in Thread, NEW i \in DOMAIN threads'[v].stack
               PROVE  \/ i \in DOMAIN threads[v].stack /\ threads'[v].stack[i] = threads[v].stack[i]
                      \/ KidsDone(threads[v].stack[i])'
    OBVIOUS
  <2>1. CASE v = t
    BY <1>1, <2>1, IdleFits, EmptyStack
  <2>2. CASE v # t /\ v = p /\ Waits(p, t)
    <3>1. CASE threads'[p].stack[i] = top
      <4>1. KidsDone(threads[v].stack[i])'
        BY <1>7, <2>2, <3>1 DEF KidsDone
      <4> QED BY <4>1
    <3>2. CASE i \in DOMAIN threads[p].stack /\ threads'[p].stack[i] = threads[p].stack[i]
      BY <2>2, <3>2
    <3> QED BY <1>4, <2>2, <3>1, <3>2
  <2>3. CASE v # t /\ ~(v = p /\ Waits(p, t))
    BY <1>1, <2>3
  <2> QED BY <2>1, <2>2, <2>3
<1>9. Body'
  BY <1>1, <1>2, <1>5, <1>6, <1>8, BodyStep DEF Level
<1> QED BY <1>2, <1>5, <1>9 DEF Still

LEMMA StageThrowsStill ==
    ASSUME Body, NEW t \in Thread, StageThrows(t) PROVE Body' /\ Still
<1> DEFINE p == threads[t].par
           c == threads[t].c
           freed(u) == Waits(p, t) /\ u \in Range(Top(threads[p]).kids)
<1>1. /\ AtStageEnd(t) /\ DOMAIN threads' = Thread /\ threads'[t] = Idle
      /\ \A u \in Thread : u # t /\ u = p /\ Waits(p, t) => threads'[u] = Return(threads[p], c)
      /\ \A u \in Thread : u # t /\ ~(u = p /\ Waits(p, t)) =>
            threads'[u] = threads[u] \/ threads'[u] = [threads[u] EXCEPT !.par = 0]
  BY DEF StageThrows
<1>2. Level(sh, sh')
  <2>1. Level(sh, sh) /\ \A fds : Level(sh, [sh EXCEPT !.fds = fds])
    BY FdsLevel DEF Level, Body, Shape
  <2> QED BY <2>1 DEF StageThrows, CloseFds
<1>3. Shape /\ ~Asleep(threads[t]) /\ Steady(Marks, threads[t].stack, Idle.stack) /\ Wakes(c)
  BY <1>1, StageFacts DEF Body, AtStageEnd, Wakes
<1>4. ASSUME p \in Thread, p # t, Waits(p, t)
      PROVE  /\ WellFormed(threads'[p]) /\ Steady(Marks, threads[p].stack, threads'[p].stack)
             /\ \A i \in DOMAIN threads'[p].stack :
                  i \in DOMAIN threads[p].stack /\ threads'[p].stack[i] = threads[p].stack[i]
  <2>1. /\ WellFormed(threads[p]) /\ threads[p].stack # <<>> /\ Top(threads[p]).f = "mixed"
    BY <1>4, WaitsFacts
  <2>2. WellFormed(threads'[p]) /\ threads'[p].stack = Front(threads[p].stack)
    BY <1>1, <1>3, <1>4, <2>1, PopFits
  <2>3. Steady(Marks, threads[p].stack, Front(threads[p].stack))
    <3>1. IsSeq(threads[p].stack) /\ Last(threads[p].stack).f \notin Marks
      BY <2>1 DEF WellFormed, Top, Marks
    <3> QED BY <2>1, <3>1, SteadyPop
  <2>4. \A i \in DOMAIN Front(threads[p].stack) :
           i \in DOMAIN threads[p].stack /\ Front(threads[p].stack)[i] = threads[p].stack[i]
    <3> DEFINE s == threads[p].stack
    <3>1. IsSeq(s) /\ s # <<>>
      BY <2>1 DEF WellFormed
    <3> HIDE DEF s
    <3>2. /\ Len(s) \in Nat /\ DOMAIN s = 1..Len(s) /\ DOMAIN Front(s) = 1..(Len(s) - 1)
          /\ \A i \in 1..(Len(s) - 1) : Front(s)[i] = s[i]
      BY <3>1, Popped, Stack
    <3>3. \A i \in DOMAIN Front(s) : i \in DOMAIN s /\ Front(s)[i] = s[i]
      BY <3>2
    <3> QED BY <3>3 DEF s
  <2> QED BY <2>2, <2>3, <2>4
<1>5. ASSUME NEW u \in Thread, u # t, ~(u = p /\ Waits(p, t))
      PROVE  Calm(threads[u], threads'[u]) /\ WellFormed(threads'[u]) /\ threads'[u].stack = threads[u].stack
  <2>1. WellFormed(threads[u])
    BY <1>3 DEF Shape
  <2>2. [threads[u] EXCEPT !.par = 0].stack = threads[u].stack
    BY <2>1 DEF WellFormed, ThreadFields
  <2> QED BY <1>1, <1>5, <2>1, <2>2, ParCalm, CalmSelf
<1> HIDE DEF p
<1>6. \A u \in Thread : WellFormed(threads'[u]) /\ Steady(Marks, threads[u].stack, threads'[u].stack)
  <2> SUFFICES ASSUME NEW u \in Thread
               PROVE  WellFormed(threads'[u]) /\ Steady(Marks, threads[u].stack, threads'[u].stack)
    OBVIOUS
  <2>1. CASE u = t
    BY <1>1, <1>3, <2>1, IdleFits
  <2>2. CASE u # t /\ u = p /\ Waits(p, t)
    BY <1>4, <2>2
  <2>3. CASE u # t /\ ~(u = p /\ Waits(p, t))
    BY <1>5, <2>3, CalmStays
  <2> QED BY <2>1, <2>2, <2>3
<1>7. \A u \in Thread : Asleep(threads[u]) => Asleep(threads'[u])
  <2>1. p \in Thread /\ Waits(p, t) => ~Asleep(threads[p])
    BY WaitsFacts
  <2> QED BY <1>1, <1>3, <1>5, <2>1 DEF Calm
<1>8. \A v \in Thread : \A i \in DOMAIN threads'[v].stack :
        i \in DOMAIN threads[v].stack /\ threads'[v].stack[i] = threads[v].stack[i]
  BY <1>1, <1>4, <1>5, IdleFits, EmptyStack
<1>9. Body'
  BY <1>1, <1>2, <1>6, <1>7, <1>8, BodyStep DEF Level
<1> QED BY <1>2, <1>6, <1>9 DEF Still

StageThread(par, io, close, js, n) ==
    [Idle EXCEPT !.par = par, !.io = io,
                 !.stack = <<[f |-> "stage", close |-> close, js |-> js]>>, !.c = Eval(n)]

LEMMA StageFits ==
    ASSUME NEW par, NEW io, NEW close, NEW js, NEW n, NEW th, th = StageThread(par, io, close, js, n)
    PROVE  /\ WellFormed(th) /\ ~Asleep(th) /\ DOMAIN th.stack = {1}
           /\ th.stack[1].f = "stage" /\ th.stack[1].close = close
<1> DEFINE fr == [f |-> "stage", close |-> close, js |-> js]
<1>1. FrameOK(fr) /\ fr.f = "stage" /\ fr.close = close
  BY DEF FrameOK
<1>2. DOMAIN th = ThreadFields /\ th.stack = <<fr>> /\ th.c.k = "eval"
  BY DEF Idle, ThreadFields, Eval, StageThread
<1> HIDE DEF fr
<1>3. DOMAIN <<fr>> = {1} /\ <<fr>>[1] = fr /\ IsSeq(<<fr>>)
  <2>1. <<fr>> \in Seq({fr}) /\ Range(<<fr>>) = {fr}
    BY DEF Range
  <2>2. IsSeq(<<fr>>)
    BY <2>1 DEF IsSeq
  <2> QED BY <2>2
<1>4. ~Asleep(th) /\ th.c.k # "redirect"
  BY <1>2 DEF Asleep, Sleeping
<1>5. WellFormed(th)
  BY <1>1, <1>2, <1>3, <1>4 DEF WellFormed
<1> QED BY <1>1, <1>2, <1>3, <1>4, <1>5

LEMMA MixedPipelineStill ==
    ASSUME Body, NEW t \in Thread, MixedPipeline(t) PROVE Body' /\ Still
<1> DEFINE n == Node(t)
           k == Len(n.ns)
           kids == Lowest(FreeThreads, k)
           codes == [i \in 1..k |-> 0]
           left == {kids[i] : i \in {j \in 1..k : InProcess(n.ns[j])}}
           fr == [f |-> "mixed", kids |-> kids, neg |-> n.neg, codes |-> codes, left |-> left]
           me == Push(threads[t], fr, Await)
<1>1. ~Asleep(threads[t]) /\ Shape /\ WellFormed(threads[t]) /\ DOMAIN threads' = Thread
  <2>1. Evaluating(t, "pipe")
    BY Zenon DEF MixedPipeline
  <2>2. DOMAIN threads' = Thread
    BY DEF MixedPipeline
  <2> QED BY <2>1, <2>2, Awake DEF Evaluating, Body, Shape
<1>2. /\ DOMAIN kids = 1..k /\ Range(kids) \subseteq FreeThreads
  BY LowestIn DEF MixedPipeline
<1>3. \A u \in Range(kids) : /\ u \in Thread /\ u # t /\ Asleep(threads[u]) /\ ~AskedFor(u)
                             /\ threads[u].stack = <<>> /\ threads[u].c.k = "idle"
  BY <1>1, <1>2, FreeAsleep DEF FreeThreads, Shape, WellFormed
<1>4. threads'[t] = me /\ \A u \in Thread : u # t /\ u \notin Range(kids) => threads'[u] = threads[u]
  BY DEF MixedPipeline, Push
<1> DEFINE Staged(u, i) ==
               /\ InProcess(n.ns[i])
               /\ \E par, io, close, js, m : threads'[u] = StageThread(par, io, close, js, m)
           Forked(u, i) == ~InProcess(n.ns[i]) /\ \E par, cmd, a, b, err : threads'[u] = Fork(par, cmd, a, b, err)
<1>5. ASSUME NEW u \in Range(kids) PROVE \E i \in 1..k : kids[i] = u /\ (Staged(u, i) \/ Forked(u, i))
  <2> DEFINE i == CHOOSE i \in 1..k : kids[i] = u
             ctx == threads[t].io
             ps == Lowest(FreeChans, k - 1)
             in == IF i = 1 THEN ctx[1] ELSE Nth(FreeFds, 2 * (i - 1) - 1)
             out == IF i = k THEN ctx[2] ELSE Nth(FreeFds, 2 * i)
             io == <<in, out, ctx[3]>>
             close == ({in} \ {ctx[1]}) \cup ({out} \ {ctx[2]})
             js == StageTree(n.ns[i], in, out).t = "js"
             tree == StageTree(n.ns[i], in, out)
             cmd == SimpleCmd(ExpandAll(sh, n.ns[i].ws), <<>>)
             from == IF i = 1 THEN sh.fds[ctx[1]] ELSE Reader(ps[i - 1])
             to == IF i = k THEN sh.fds[ctx[2]] ELSE Writer(ps[i])
             err == sh.fds[ctx[3]]
  <2>1. i \in 1..k /\ kids[i] = u
    BY <1>2 DEF Range
  <2>2. threads'[u] = IF InProcess(n.ns[i]) THEN StageThread(t, io, close, js, tree) ELSE Fork(t, cmd, from, to, err)
    BY <1>3 DEF MixedPipeline, StageThread
  <2> HIDE DEF i, kids, k, n, io, close, js, tree, cmd, from, to, err
  <2>3. Staged(u, i) \/ Forked(u, i)
    <3>1. CASE InProcess(n.ns[i])
      <4>1. threads'[u] = StageThread(t, io, close, js, tree)
        BY <2>2, <3>1
      <4>2. Staged(u, i)
        BY <3>1, <4>1, Zenon
      <4> QED BY <4>2
    <3>2. CASE ~InProcess(n.ns[i])
      <4>1. threads'[u] = Fork(t, cmd, from, to, err)
        BY <2>2, <3>2
      <4>2. Forked(u, i)
        BY <3>2, <4>1, Zenon
      <4> QED BY <4>2
    <3> QED BY <3>1, <3>2
  <2> HIDE DEF Staged, Forked
  <2> QED BY <2>1, <2>3
<1>6. \A u \in Range(kids) :
        /\ WellFormed(threads'[u]) /\ Steady(Marks, threads[u].stack, threads'[u].stack)
        /\ \A i \in DOMAIN threads'[u].stack : threads'[u].stack[i].f # "mixed"
        /\ u \notin left => Asleep(threads'[u])
  <2> SUFFICES ASSUME NEW u \in Range(kids)
               PROVE  /\ WellFormed(threads'[u]) /\ Steady(Marks, threads[u].stack, threads'[u].stack)
                      /\ \A i \in DOMAIN threads'[u].stack : threads'[u].stack[i].f # "mixed"
                      /\ u \notin left => Asleep(threads'[u])
    OBVIOUS
  <2>1. PICK i \in 1..k : kids[i] = u /\ (Staged(u, i) \/ Forked(u, i))
    BY <1>5
  <2>2. CASE Staged(u, i)
    <3>1. PICK par, io, close, js, m : threads'[u] = StageThread(par, io, close, js, m)
      BY <2>2
    <3>2. WellFormed(threads'[u]) /\ DOMAIN threads'[u].stack = {1} /\ threads'[u].stack[1].f = "stage"
      BY <3>1, StageFits
    <3>3. DOMAIN threads[u].stack = {} /\ "stage" \notin Marks
      BY <1>3, EmptyStack DEF Marks
    <3>4. u \in left
      BY <2>1, <2>2
    <3> QED BY <3>2, <3>3, <3>4 DEF Steady
  <2>3. CASE Forked(u, i)
    <3>1. PICK par, cmd, a, b, err : threads'[u] = Fork(par, cmd, a, b, err)
      BY <2>3
    <3>2. WellFormed(threads'[u]) /\ Asleep(threads'[u]) /\ threads'[u].stack = <<>>
      BY <3>1, ForkFits DEF WellFormed
    <3> QED BY <1>3, <3>2, SteadySelf, EmptyStack
  <2> QED BY <2>1, <2>2, <2>3
<1>7. FrameOK(fr) /\ fr.f = "mixed" /\ fr.kids = kids /\ fr.left = left /\ fr.f \notin Marks /\ fr.f # "stage"
  BY DEF FrameOK, Marks
<1> HIDE DEF fr, kids, left, codes, n, k
<1>8. WellFormed(me) /\ me.stack = Append(threads[t].stack, fr) /\ ~Asleep(me)
  <2>1. Wakes(Await)
    BY WakingControls
  <2> QED BY <1>1, <1>7, <2>1, PushFits
<1>9. Steady(Marks, threads[t].stack, me.stack)
  <2>1. IsSeq(threads[t].stack)
    BY <1>1 DEF WellFormed
  <2> QED BY <1>7, <1>8, <2>1, SteadyPush
<1> HIDE DEF me
<1>10. \A u \in Thread : WellFormed(threads'[u]) /\ Steady(Marks, threads[u].stack, threads'[u].stack)
  BY <1>1, <1>4, <1>6, <1>8, <1>9, SteadySelf DEF Shape
<1>11. Level(sh, sh')
  BY FdsLevel DEF MixedPipeline, Body, Shape
<1>12. \A u \in Range(fr.kids) \ fr.left : u \in Thread => Asleep(threads'[u])
  BY <1>6, <1>7
<1>13. ASSUME NEW v \in Thread, NEW i \in DOMAIN threads'[v].stack, threads'[v].stack[i].f = "mixed"
       PROVE  KidsDone(threads[v].stack[i])'
  <2>1. CASE threads'[v].stack[i] = fr
    BY <1>12, <2>1 DEF KidsDone
  <2>2. CASE i \in DOMAIN threads[v].stack /\ threads'[v].stack[i] = threads[v].stack[i]
    <3>1. KidsDone(threads[v].stack[i])
      BY <1>13, <2>2 DEF Body, KidsAsleep
    <3>2. ASSUME NEW u \in Thread, u \in Range(threads[v].stack[i].kids), Asleep(threads[u])
          PROVE  Asleep(threads'[u])
      <4>1. AskedFor(u)
        BY <1>13, <2>2, <3>2 DEF AskedFor
      <4>2. u \notin Range(kids) /\ u # t
        BY <1>1, <1>3, <3>2, <4>1
      <4> QED BY <1>4, <3>2, <4>2
    <3> QED BY <2>2, <3>1, <3>2 DEF KidsDone
  <2>3. threads'[v].stack[i] = fr \/ (i \in DOMAIN threads[v].stack /\ threads'[v].stack[i] = threads[v].stack[i])
    <3>1. CASE v = t
      <4> DEFINE s == threads[t].stack
      <4>1. IsSeq(s) /\ threads'[t].stack = Append(s, fr)
        BY <1>1, <1>4, <1>8 DEF WellFormed
      <4> HIDE DEF s
      <4>2. /\ Len(s) \in Nat /\ DOMAIN s = 1..Len(s) /\ DOMAIN Append(s, fr) = 1..(Len(s) + 1)
            /\ \A j \in 1..Len(s) : Append(s, fr)[j] = s[j]
            /\ Append(s, fr)[Len(s) + 1] = fr
        BY <4>1, Stack, Pushed
      <4>3. \A j \in DOMAIN Append(s, fr) : Append(s, fr)[j] = fr \/ (j \in DOMAIN s /\ Append(s, fr)[j] = s[j])
        BY <4>2
      <4> QED BY <3>1, <4>1, <4>3 DEF s
    <3>2. CASE v # t /\ v \notin Range(kids)
      BY <1>4, <3>2
    <3>3. CASE v \in Range(kids)
      BY <1>6, <1>13, <3>3
    <3> QED BY <3>1, <3>2, <3>3
  <2> QED BY <2>1, <2>2, <2>3
<1>14. Shape'
  BY <1>1, <1>10, <1>11 DEF Shape, Level
<1>15. KidsAsleep'
  BY <1>13 DEF KidsAsleep
<1> QED BY <1>10, <1>11, <1>14, <1>15 DEF Still, Body

-----------------------------------------------------------------------------
(* The shell exits: the frames of the thread are dropped for the EXIT trap. *)

ExitFrame(v) == [f |-> "exit", v |-> v]

LEMMA ExitStack ==
    ASSUME NEW v
    PROVE  /\ IsSeq(<<ExitFrame(v)>>) /\ DOMAIN <<ExitFrame(v)>> = {1} /\ <<ExitFrame(v)>>[1] = ExitFrame(v)
           /\ FrameOK(ExitFrame(v)) /\ ExitFrame(v).f = "exit"
<1> DEFINE fr == ExitFrame(v)
<1>1. FrameOK(fr) /\ fr.f = "exit"
  BY DEF FrameOK, ExitFrame
<1> HIDE DEF fr
<1>2. <<fr>> \in Seq({fr}) /\ Range(<<fr>>) = {fr} /\ DOMAIN <<fr>> = {1} /\ <<fr>>[1] = fr
  BY DEF Range
<1>3. IsSeq(<<fr>>)
  BY <1>2 DEF IsSeq
<1> QED BY <1>1, <1>2, <1>3 DEF fr

LEMMA DropHeights ==
    ASSUME Heights, NEW t \in Thread, OthersStay(t),
           Len(sh'.scopes) = Len(sh.scopes), Len(sh'.snaps) = Len(sh.snaps),
           \A i \in DOMAIN threads'[t].stack : i = 1 /\ threads'[t].stack[i].f = "exit",
           Exiting',
           Len(sh.scopes) \in Nat, Len(sh.snaps) \in Nat
    PROVE  Heights'
<1>1. ASSUME NEW K \in SUBSET Marks
      PROVE  \A x : x \in Frames(K)' => x \in Frames(K) \/ ("exit" \in K /\ x = <<t, 1>>)
  <2>1. \A x : x \in Frames(K) <=> \E u \in Thread : \E j \in At(u, K) : x = <<u, j>>
    BY FrameIn
  <2>2. \A x : x \in Frames(K)' <=> \E u \in Thread : \E j \in At(u, K)' : x = <<u, j>>
    BY FrameIn2
  <2>3. \A u \in Thread : u # t => At(u, K)' = At(u, K)
    BY OthersAt
  <2>4. \A j \in At(t, K)' : j = 1 /\ "exit" \in K
    BY DEF At
  <2> QED BY <2>1, <2>2, <2>3, <2>4
<1>2. IsFiniteSet(Frames(Marks)')
  <2>1. IsFiniteSet(Frames(Marks) \cup {<<t, 1>>})
    BY FS_AddElement DEF Heights
  <2>2. Frames(Marks)' \subseteq Frames(Marks) \cup {<<t, 1>>}
    BY <1>1, Kinds
  <2> QED BY <2>1, <2>2, FS_Subset
<1>3. ASSUME NEW K \in SUBSET Marks, "exit" \notin K
      PROVE  Count(K) \in Nat /\ Count(K)' \in Nat /\ Count(K)' <= Count(K)
  <2>1. IsFiniteSet(Frames(K)) /\ Count(K) \in Nat
    BY CountNat DEF Heights
  <2>2. Frames(K)' \subseteq Frames(K)
    BY <1>1, <1>3
  <2>3. IsFiniteSet(Frames(K)') /\ Cardinality(Frames(K)') <= Cardinality(Frames(K))
    BY <2>1, <2>2, FS_Subset
  <2> QED BY <2>1, <2>3, FS_CardinalityType DEF Count
<1>4. Count({"call"})' <= Count({"call"}) /\ Count({"call"})' \in Nat /\ Count({"call"}) \in Nat
  BY <1>3, Kinds
<1>5. Count({"subshell"})' <= Count({"subshell"}) /\ Count({"subshell"})' \in Nat /\ Count({"subshell"}) \in Nat
  BY <1>3, Kinds
<1> QED BY <1>2, <1>4, <1>5 DEF Heights

LEMMA DropsFrames ==
    ASSUME Body, Heights, NEW t \in Thread, ~Asleep(threads[t]), NEW s, Level(sh, s), NEW v, NEW c, Wakes(c),
           Put(t, s, Placed(threads[t], <<ExitFrame(v)>>, c))
    PROVE  Body' /\ Heights' /\ Exiting'
<1> DEFINE stack == <<ExitFrame(v)>>
           ti == Placed(threads[t], stack, c)
<1>1. /\ IsSeq(stack) /\ DOMAIN stack = {1} /\ stack[1] = ExitFrame(v) /\ FrameOK(stack[1]) /\ stack[1].f = "exit"
  BY ExitStack
<1> HIDE DEF stack
<1>2. WellFormed(threads[t])
  BY DEF Body, Shape
<1>3. WellFormed(ti) /\ ti.stack = stack
  <2>1. DOMAIN ti = ThreadFields /\ ti.stack = stack /\ ti.c = c
    BY <1>2 DEF WellFormed, Placed, ThreadFields
  <2> HIDE DEF ti
  <2>2. ~Asleep(ti) /\ c.k # "redirect"
    BY <2>1 DEF Asleep, Sleeping, Wakes
  <2> QED BY <1>1, <2>1, <2>2 DEF WellFormed
<1>4. Moves(t, s, ti)
  BY PutMoves DEF stack, Body
<1> HIDE DEF ti
<1>5. Body'
  <2>1. ShellOK(s) /\ \A i \in DOMAIN ti.stack : ti.stack[i].f # "mixed"
    BY <1>1, <1>3 DEF Level
  <2> QED BY <1>3, <1>4, <2>1, BodyMoves
<1>6. Exiting'
  <2>1. 1 \in At(t, {"exit"})'
    BY <1>1, <1>3, <1>4 DEF At, Moves
  <2>2. <<t, 1>> \in Frames({"exit"})'
    BY <2>1, FrameIn2
  <2> QED BY <2>2 DEF Exiting
<1>7. Heights'
  <2>1. OthersStay(t)
    BY <1>4, MovesStay
  <2>2. \A i \in DOMAIN threads'[t].stack : i = 1 /\ threads'[t].stack[i].f = "exit"
    BY <1>1, <1>3, <1>4 DEF Moves
  <2>3. Len(sh'.scopes) = Len(sh.scopes) /\ Len(sh'.snaps) = Len(sh.snaps)
    BY <1>4 DEF Moves, Level
  <2>4. Len(sh.scopes) \in Nat /\ Len(sh.snaps) \in Nat
    BY ShellLens DEF Body, Shape
  <2> QED BY <1>6, <2>1, <2>2, <2>3, <2>4, DropHeights
<1> QED BY <1>5, <1>6, <1>7

LEMMA ExitDrops == ASSUME Body, Heights, NEW t \in Thread, Exit(t) PROVE Body' /\ Heights' /\ Exiting'
<1> DEFINE v == NumberOr(RunArgs(t), sh.status)
           c == IF sh.trap = None THEN Ret(0) ELSE Eval(sh.trap)
<1>1. ~Asleep(threads[t])
  BY RunAwake DEF Exit
<1>2. Put(t, sh, Placed(threads[t], <<ExitFrame(v)>>, c))
  BY DEF Exit, Only, Placed, ExitFrame
<1>3. Wakes(c)
  BY WakingControls
<1>4. Level(sh, sh)
  BY SameShell DEF Body, Kin
<1> HIDE DEF v, c
<1> QED BY <1>1, <1>2, <1>3, <1>4, DropsFrames

LEMMA ScriptEndsDrops == ASSUME Body, Heights, 1 \in Thread, ScriptEnds PROVE Body' /\ Heights' /\ Exiting'
<1> DEFINE v == Value(1)
           s == [sh EXCEPT !.status = v]
           c == IF sh.trap = None THEN Ret(0) ELSE Eval(sh.trap)
<1>1. ~Asleep(threads[1])
  BY DEF ScriptEnds, Asleep, Sleeping
<1>2. Put(1, s, Placed(threads[1], <<ExitFrame(v)>>, c))
  BY DEF ScriptEnds, Only, Placed, ExitFrame
<1>3. Wakes(c)
  BY WakingControls
<1>4. Level(sh, s)
  BY DEF Body, Shape, Level, ShellOK, ShellFields
<1> HIDE DEF v, c, s
<1> QED BY <1>1, <1>2, <1>3, <1>4, DropsFrames

LEMMA ProcessExitDrops == ASSUME Body, Heights, NEW t \in Thread, ProcessExit(t) PROVE Body' /\ Heights' /\ Exiting'
<1> DEFINE s == [sh EXCEPT !.exited = <<Top(threads[t]).v>>]
           ti == [threads[t] EXCEPT !.stack = <<>>]
<1>1. WellFormed(threads[t]) /\ ShellOK(sh)
  BY DEF Body, Shape
<1>2. Put(t, s, ti) /\ threads[t].c.k \in {"ret", "throw"}
  BY DEF ProcessExit, Only
<1>3. ShellOK(s) /\ s.scopes = sh.scopes /\ s.snaps = sh.snaps /\ s.exited # <<>>
  <2>1. s.exited = <<Top(threads[t]).v>> /\ DOMAIN s = ShellFields
    BY <1>1 DEF ShellOK, ShellFields
  <2>2. ShellOK(s) /\ s.scopes = sh.scopes /\ s.snaps = sh.snaps
    BY <1>1 DEF ShellOK, ShellFields
  <2> QED BY <2>1, <2>2
<1>4. ti.stack = <<>> /\ ti.c = threads[t].c /\ DOMAIN ti = ThreadFields
  BY <1>1 DEF WellFormed, ThreadFields
<1> HIDE DEF ti, s
<1>5. WellFormed(ti) /\ ~Asleep(threads[t])
  BY <1>2, <1>4, EmptyStack DEF WellFormed, Asleep, Sleeping
<1>6. Moves(t, s, ti)
  BY <1>2, PutMoves DEF Body
<1>7. Body'
  BY <1>3, <1>4, <1>5, <1>6, EmptyStack, BodyMoves
<1>8. Exiting'
  BY <1>3, <1>6 DEF Moves, Exiting, Running
<1>9. Heights'
  <2>1. OthersStay(t)
    BY <1>6, MovesStay
  <2>2. DOMAIN threads'[t].stack = {}
    BY <1>4, <1>6, EmptyStack DEF Moves
  <2>3. Len(sh'.scopes) = Len(sh.scopes) /\ Len(sh'.snaps) = Len(sh.snaps)
    BY <1>3, <1>6 DEF Moves
  <2>4. Len(sh.scopes) \in Nat /\ Len(sh.snaps) \in Nat
    BY <1>1, ShellLens
  <2> QED BY <1>8, <2>1, <2>2, <2>3, <2>4, DropHeights
<1> QED BY <1>7, <1>8, <1>9

-----------------------------------------------------------------------------
(* A mark comes or goes with what the shell keeps for it.                  *)

LEMMA StaysExiting ==
    ASSUME NEW s, sh' = s, s.exited = sh.exited, Frames({"exit"})' = Frames({"exit"}) PROVE Exiting' <=> Exiting
BY DEF Exiting, Running

LEMMA PushHeights ==
    ASSUME Body, Heights, NEW t \in Thread, NEW s, NEW fr, Pushes(t, s, fr),
           NEW c \in Int, \/ fr.f = "call" /\ Sizes(sh, s, 1, 0, c)
                          \/ fr.f = "subshell" /\ Sizes(sh, s, 0, 1, c)
                          \/ fr.f = "source" /\ Sizes(sh, s, 0, 0, c)
    PROVE  Heights' /\ (Exiting' <=> Exiting)
<1>1. IsSeq(threads[t].stack) /\ IsFiniteSet(Frames(Marks))
  BY DEF Body, Shape, WellFormed, Heights
<1>2. /\ IsFiniteSet(Frames(Marks))'
      /\ \A K \in SUBSET Marks :
           /\ fr.f \in K => Count(K)' = Count(K) + 1
           /\ fr.f \notin K => Frames(K)' = Frames(K) /\ Count(K)' = Count(K)
  BY <1>1, CountPush DEF Pushes
<1>3. Count({"call"})' = IF fr.f = "call" THEN Count({"call"}) + 1 ELSE Count({"call"})
  BY <1>2, Kinds
<1>4. Count({"subshell"})' = IF fr.f = "subshell" THEN Count({"subshell"}) + 1 ELSE Count({"subshell"})
  BY <1>2, Kinds
<1>5. Frames({"exit"})' = Frames({"exit"})
  BY <1>2, Kinds
<1>6. Exiting' <=> Exiting
  BY <1>5, StaysExiting DEF Pushes, Sizes
<1>7. Count({"call"}) \in Nat /\ Count({"subshell"}) \in Nat /\ Len(sh.scopes) \in Nat /\ Len(sh.snaps) \in Nat
  BY <1>1, CountNat, Kinds, ShellLens DEF Body, Shape
<1>8. Len(sh'.scopes) = (IF fr.f = "call" THEN Len(sh.scopes) + 1 ELSE Len(sh.scopes))
      /\ Len(sh'.snaps) = (IF fr.f = "subshell" THEN Len(sh.snaps) + 1 ELSE Len(sh.snaps))
  BY <1>7 DEF Pushes, Sizes
<1>9. Heights'
  BY <1>2, <1>3, <1>4, <1>6, <1>7, <1>8 DEF Heights
<1> QED BY <1>6, <1>9

LEMMA PopHeights ==
    ASSUME Body, Heights, NEW t \in Thread, NEW s, Pops(t, s),
           NEW c \in Int, \/ Top(threads[t]).f = "call" /\ Sizes(sh, s, -1, 0, c)
                          \/ Top(threads[t]).f = "subshell" /\ Sizes(sh, s, 0, -1, c)
                          \/ Top(threads[t]).f = "source" /\ Sizes(sh, s, 0, 0, c)
    PROVE  Heights' /\ (Exiting' <=> Exiting)
<1> DEFINE f == Top(threads[t]).f
<1>1. IsSeq(threads[t].stack) /\ IsFiniteSet(Frames(Marks))
  BY DEF Body, Shape, WellFormed, Heights
<1>2. /\ IsFiniteSet(Frames(Marks))'
      /\ \A K \in SUBSET Marks :
           /\ f \in K => Count(K)' = Count(K) - 1 /\ Count(K) # 0
           /\ f \notin K => Frames(K)' = Frames(K) /\ Count(K)' = Count(K)
  BY <1>1, CountPop DEF Pops
<1>3. Count({"call"})' = IF f = "call" THEN Count({"call"}) - 1 ELSE Count({"call"})
  BY <1>2, Kinds
<1>4. Count({"subshell"})' = IF f = "subshell" THEN Count({"subshell"}) - 1 ELSE Count({"subshell"})
  BY <1>2, Kinds
<1>5. Frames({"exit"})' = Frames({"exit"})
  BY <1>2, Kinds
<1>6. Exiting' <=> Exiting
  BY <1>5, StaysExiting DEF Pops, Sizes
<1>7. Count({"call"}) \in Nat /\ Count({"subshell"}) \in Nat /\ Len(sh.scopes) \in Nat /\ Len(sh.snaps) \in Nat
  BY <1>1, CountNat, Kinds, ShellLens DEF Body, Shape
<1>8. Len(sh'.scopes) = (IF f = "call" THEN Len(sh.scopes) - 1 ELSE Len(sh.scopes))
      /\ Len(sh'.snaps) = (IF f = "subshell" THEN Len(sh.snaps) - 1 ELSE Len(sh.snaps))
  BY <1>7 DEF Pops, Sizes
<1>9. Heights'
  BY <1>2, <1>3, <1>4, <1>6, <1>7, <1>8 DEF Heights
<1> QED BY <1>6, <1>9

-----------------------------------------------------------------------------
(* Every step, sorted by what it does to the marks.                        *)

\* A call, a sourced file or a subshell begins in thread t, or ends.
Enters(t) ==
    \E s, fr :
        /\ Pushes(t, s, fr)
        /\ \/ fr.f = "call" /\ Sizes(sh, s, 1, 0, 1)
           \/ fr.f = "source" /\ Sizes(sh, s, 0, 0, 1)
           \/ fr.f = "subshell" /\ fr.params = sh.params /\ Sizes(sh, s, 0, 1, 0)
Less == IF Len(sh.params) > 1 THEN -1 ELSE 0
Leaves(t) ==
    \E s :
        /\ Pops(t, s)
        /\ \/ Top(threads[t]).f = "call" /\ Sizes(sh, s, -1, 0, Less)
           \/ Top(threads[t]).f = "source" /\ Sizes(sh, s, 0, 0, Less)
           \/ /\ Top(threads[t]).f = "subshell"
              /\ Sizes(sh, s, 0, -1, Len(Top(threads[t]).params) - Len(sh.params))
Drops == Exiting' /\ Heights'
Sorted == Body' /\ (Still \/ Drops \/ \E t \in Thread : Enters(t) \/ Leaves(t))

LEMMA QuietSorted == ASSUME Body, Quiet PROVE Sorted
BY QuietBody, QuietStill DEF Sorted

LEMMA SimpleSorted == ASSUME Body, Heights, NEW t \in Thread, Simple(t) PROVE Sorted
<1> USE DEF Sorted
<1>1. Shape
  BY DEF Body
<1>2. CASE ExpandAlias(t)
  BY <1>1, <1>2, ExpandAliasQuiet, QuietSorted
<1>3. CASE Assign(t)
  BY <1>1, <1>3, AssignQuiet, QuietSorted
<1>4. CASE OnlyAssign(t)
  BY <1>1, <1>4, OnlyAssignQuiet, QuietSorted
<1>5. CASE CallFunction(t)
  <2>1. Body' /\ \E s, fr : Pushes(t, s, fr) /\ fr.f = "call" /\ Sizes(sh, s, 1, 0, 1)
    BY <1>5, CallsFunction
  <2> QED BY <2>1, Zenon DEF Enters
<1>6. CASE CallJs(t)
  BY <1>1, <1>6, CallJsQuiet, QuietSorted
<1>7. CASE ExecRedirections(t)
  BY <1>1, <1>7, ExecRedirectionsQuiet, QuietSorted
<1>8. CASE ExecApplies(t)
  BY <1>8, ExecAppliesStill
<1>9. CASE ExecApplied(t)
  BY <1>1, <1>9, ExecAppliedQuiet, QuietSorted
<1>10. CASE CallBuiltin(t)
  BY <1>1, <1>10, CallBuiltinQuiet, QuietSorted
<1>11. CASE RedirectNext(t)
  BY <1>11, SwapNextStill
<1>12. CASE Redirected(t)
  BY <1>1, <1>12, RedirectedQuiet, QuietSorted
<1>13. CASE External(t)
  BY <1>1, <1>13, ExternalQuiet, QuietSorted
<1> QED BY <1>2, <1>3, <1>4, <1>5, <1>6, <1>7, <1>8, <1>9, <1>10, <1>11, <1>12, <1>13, Zenon DEF Simple

LEMMA InBuiltinSorted == ASSUME Body, Heights, NEW t \in Thread, InBuiltin(t) PROVE Sorted
<1> USE DEF Sorted
<1>1. Shape
  BY DEF Body
<1>2. CASE RunBuiltin(t)
  BY <1>1, <1>2, RunBuiltinQuiet, QuietSorted
<1>3. CASE Echo(t)
  BY <1>1, <1>3, EchoQuiet, QuietSorted
<1>4. CASE ReadFile(t) \/ Read(t)
  BY <1>1, <1>4, ReadQuiet, QuietSorted
<1>5. CASE RunTree(t)
  <2>1. CASE Quiet
    BY <2>1, QuietSorted
  <2>2. CASE Sourcing(t)
    <3>1. Body' /\ \E s, fr : Pushes(t, s, fr) /\ fr.f = "source" /\ Sizes(sh, s, 0, 0, 1)
      BY <2>2, Sources
    <3> QED BY <3>1, Zenon DEF Enters
  <2> QED BY <1>1, <1>5, <2>1, <2>2, RunTreeCases
<1>6. CASE RunCommand(t)
  BY <1>1, <1>6, RunCommandQuiet, QuietSorted
<1>7. CASE SetTrap(t)
  BY <1>1, <1>7, SetTrapQuiet, QuietSorted
<1>8. CASE Exit(t)
  BY <1>8, ExitDrops DEF Drops
<1>9. CASE ProcessExit(t)
  BY <1>9, ProcessExitDrops DEF Drops
<1> QED BY <1>2, <1>3, <1>4, <1>5, <1>6, <1>7, <1>8, <1>9, Zenon DEF InBuiltin

LEMMA InPipelineSorted == ASSUME Body, Heights, NEW t \in Thread, InPipeline(t) PROVE Sorted
<1> USE DEF Sorted
<1>1. Shape
  BY DEF Body
<1>2. CASE Spawn(t)
  BY <1>1, <1>2, SpawnQuiet, QuietSorted
<1>3. CASE Spawned(t)
  BY <1>1, <1>3, SpawnedQuiet, QuietSorted
<1>4. CASE Background(t)
  BY <1>1, <1>4, BackgroundQuiet, QuietSorted
<1>5. CASE PurePipeline(t)
  BY <1>1, <1>5, PurePipelineQuiet, QuietSorted
<1>6. CASE MixedPipeline(t)
  BY <1>6, MixedPipelineStill
<1>7. CASE StageEnds(t)
  BY <1>7, StageEndsStill
<1>8. CASE StageThrows(t)
  BY <1>8, StageThrowsStill
<1>9. CASE MixedDone(t)
  BY <1>9, MixedDoneStill
<1>10. CASE JsThrows(t) \/ JsReads(t) \/ JsWrites(t) \/ JsEnds(t)
  BY <1>1, <1>10, JsQuiet, QuietSorted
<1>11. CASE JsBroken(t)
  BY <1>1, <1>11, JsBrokenQuiet, QuietSorted
<1> QED BY <1>2, <1>3, <1>4, <1>5, <1>6, <1>7, <1>8, <1>9, <1>10, <1>11, Zenon DEF InPipeline

LEMMA InCaptureSorted == ASSUME Body, Heights, NEW t \in Thread, InCapture(t) PROVE Sorted
<1> USE DEF Sorted
<1>1. Shape
  BY DEF Body
<1>2. CASE Capture(t)
  BY <1>2, CapturesStill
<1>3. CASE \E i \in DOMAIN threads[t].stack : CaptureReads(t, i)
  BY <1>1, <1>3, CaptureReadsQuiet, QuietSorted
<1>4. CASE CaptureRestores(t)
  BY <1>4, CaptureRestoresStill
<1>5. CASE CaptureEnds(t) \/ CaptureThrows(t)
  BY <1>5, CaptureEndsStill
<1> QED BY <1>2, <1>3, <1>4, <1>5, Zenon DEF InCapture

LEMMA InCompoundSorted == ASSUME Body, Heights, NEW t \in Thread, InCompound(t) PROVE Sorted
<1> USE DEF Sorted
<1>1. Shape
  BY DEF Body
<1>2. CASE AndOr(t) \/ List(t) \/ If(t) \/ Case(t) \/ FunctionDef(t)
  BY <1>1, <1>2, CompoundQuiet, QuietSorted
<1>3. CASE Group(t)
  <2>1. CASE Node(t).rs = <<>>
    BY <1>1, <1>3, <2>1, CompoundQuiet, QuietSorted
  <2>2. CASE Node(t).rs # <<>>
    BY <1>3, <2>2, GroupRedirects
  <2> QED BY <2>1, <2>2
<1>4. CASE Subshell(t)
  <2>1. Body' /\ \E s, fr : /\ Pushes(t, s, fr) /\ fr.f = "subshell" /\ fr.params = sh.params
                            /\ Sizes(sh, s, 0, 1, 0)
    BY <1>4, EntersSubshell
  <2> QED BY <2>1, Zenon DEF Enters
<1>5. CASE Loop(t)
  BY <1>1, <1>5, LoopQuiet, QuietSorted
<1>6. CASE AfterLeft(t)
  BY <1>1, <1>6, AfterLeftQuiet, QuietSorted
<1>7. CASE AfterEntry(t)
  BY <1>1, <1>7, AfterEntryQuiet, QuietSorted
<1>8. CASE AfterCondition(t)
  BY <1>1, <1>8, AfterConditionQuiet, QuietSorted
<1>9. CASE AfterRound(t)
  BY <1>1, <1>9, AfterRoundQuiet, QuietSorted
<1>10. CASE CatchJump(t)
  BY <1>1, <1>10, CatchJumpQuiet, QuietSorted
<1>11. CASE FunctionReturns(t)
  <2>1. Body' /\ Top(threads[t]).f = "call" /\ \E s : Pops(t, s) /\ Sizes(sh, s, -1, 0, Less)
    BY <1>11, CallReturns DEF Less
  <2> QED BY <2>1, Zenon DEF Leaves
<1>12. CASE Unwind(t)
  <2>1. CASE Top(threads[t]).f \in {"redir", "pipestatus"}
    BY <1>12, <2>1, UnwindsPlain
  <2>2. CASE Top(threads[t]).f = "source"
    <3>1. Body' /\ \E s : Pops(t, s) /\ Sizes(sh, s, 0, 0, Less)
      BY <1>12, <2>2, UnwindsSource DEF Less
    <3> QED BY <2>2, <3>1, Zenon DEF Leaves
  <2>3. CASE Top(threads[t]).f = "subshell"
    <3>1. Body' /\ \E s : Pops(t, s) /\ Sizes(sh, s, 0, -1, Len(Top(threads[t]).params) - Len(sh.params))
      BY <1>12, <2>3, UnwindsSubshell
    <3> QED BY <2>3, <3>1, Zenon DEF Leaves
  <2>4. Top(threads[t]).f \in {"redir", "subshell", "source", "pipestatus"}
    BY <1>12, Unwinds
  <2> QED BY <2>1, <2>2, <2>3, <2>4
<1>13. CASE PassOn(t)
  BY <1>1, <1>13, PassOnQuiet, QuietSorted
<1> QED BY <1>2, <1>3, <1>4, <1>5, <1>6, <1>7, <1>8, <1>9, <1>10, <1>11, <1>12, <1>13, Zenon DEF InCompound

LEMMA StillSelf == ASSUME Body, UNCHANGED vars PROVE Body' /\ Still
<1>1. sh' = sh /\ threads' = threads
  BY DEF vars
<1>2. Body'
  BY <1>1 DEF Body, Shape, KidsAsleep, KidsDone
<1>3. Level(sh, sh')
  BY <1>1, SameShell DEF Body, Kin
<1> QED BY <1>1, <1>2, <1>3, SteadySelf DEF Still

LEMMA NextSorted == ASSUME Body, Heights, [Next]_vars PROVE Sorted
<1> USE DEF Sorted
<1>1. Shape
  BY DEF Body
<1>2. CASE ScriptEnds
  <2>1. 1 \in Thread
    BY BoundsAssumption DEF Thread
  <2> QED BY <1>2, <2>1, ScriptEndsDrops DEF Drops
<1>3. CASE Gone
  BY <1>3, StillSelf DEF Gone
<1>4. CASE \E t \in Thread : Step(t)
  BY <1>4, SimpleSorted, InBuiltinSorted, InPipelineSorted, InCaptureSorted, InCompoundSorted, Zenon DEF Step
<1>5. CASE \E t \in Thread : Process(t)
  BY <1>1, <1>5, ProcessQuiet, QuietSorted
<1>6. CASE \E t \in Thread : Forgotten(t)
  BY <1>1, <1>6, ForgottenQuiet, QuietSorted
<1>7. CASE UNCHANGED vars
  BY <1>7, StillSelf
<1> QED BY <1>2, <1>3, <1>4, <1>5, <1>6, <1>7, Zenon DEF Next

LEMMA EntersHeights ==
    ASSUME Body, Heights, NEW t \in Thread, Enters(t) PROVE Heights' /\ (Exiting' <=> Exiting)
<1>1. PICK s, fr :
        /\ Pushes(t, s, fr)
        /\ \/ fr.f = "call" /\ Sizes(sh, s, 1, 0, 1)
           \/ fr.f = "source" /\ Sizes(sh, s, 0, 0, 1)
           \/ fr.f = "subshell" /\ fr.params = sh.params /\ Sizes(sh, s, 0, 1, 0)
  BY DEF Enters
<1>2. CASE fr.f = "subshell"
  BY <1>1, <1>2, PushHeights
<1>3. CASE fr.f # "subshell"
  BY <1>1, <1>3, PushHeights
<1> QED BY <1>2, <1>3

LEMMA LeavesHeights ==
    ASSUME Body, Heights, NEW t \in Thread, Leaves(t) PROVE Heights' /\ (Exiting' <=> Exiting)
<1> DEFINE d == Len(Top(threads[t]).params) - Len(sh.params)
<1>1. PICK s :
        /\ Pops(t, s)
        /\ \/ Top(threads[t]).f = "call" /\ Sizes(sh, s, -1, 0, Less)
           \/ Top(threads[t]).f = "source" /\ Sizes(sh, s, 0, 0, Less)
           \/ Top(threads[t]).f = "subshell" /\ Sizes(sh, s, 0, -1, d)
  BY DEF Leaves
<1>2. CASE Top(threads[t]).f = "subshell"
  <2>1. FrameOK(Top(threads[t]))
    BY <1>1, WellFormedFacts DEF Body, Shape, Top, Pops
  <2>2. d \in Int
    BY <1>2, <2>1, Stack, ShellLens DEF FrameOK, Body, Shape
  <2> HIDE DEF d
  <2> QED BY <1>1, <1>2, <2>2, PopHeights
<1>3. CASE Top(threads[t]).f # "subshell"
  <2>1. Less \in Int
    BY DEF Less
  <2> QED BY <1>1, <1>3, <2>1, PopHeights
<1> QED BY <1>2, <1>3

LEMMA NextHeights == ASSUME Body, Heights, [Next]_vars PROVE Heights'
BY NextSorted, StillHeights, EntersHeights, LeavesHeights, Zenon DEF Sorted, Drops

LEMMA InitHeights == ASSUME Init PROVE Body /\ Heights
<1>1. \A t \in Thread : threads[t].stack = <<>> /\ WellFormed(threads[t])
  <2>1. WellFormed(Idle) /\ Idle.stack = <<>> /\ ~(Wakes(Idle.c) /\ FALSE)
    BY IdleFits
  <2>2. WellFormed(Become(Idle, Eval(prog))) /\ Become(Idle, Eval(prog)).stack = <<>>
    BY <2>1, BecomeFits, WakingControls
  <2> QED BY <2>1, <2>2 DEF Init, Become
<1>2. ShellOK(sh) /\ sh.scopes = <<>> /\ sh.snaps = <<>>
  <2>1. IsSeq(<<>>) /\ IsSeq(<<<<>>>>) /\ <<<<>>>> # <<>>
    <3>1. <<<<>>>> \in Seq({<<>>}) /\ Range(<<<<>>>>) = {<<>>}
      BY DEF Range
    <3> QED BY <3>1, EmptyStack DEF IsSeq
  <2>2. DOMAIN Shell = ShellFields /\ Shell.scopes = <<>> /\ Shell.snaps = <<>> /\ Shell.params = <<<<>>>>
    BY DEF Shell, ShellFields
  <2> QED BY <2>1, <2>2 DEF Init, ShellOK
<1>3. Shape
  BY <1>1, <1>2 DEF Shape, Init
<1>4. KidsAsleep
  BY <1>1, EmptyStack DEF KidsAsleep
<1>5. \A K : Frames(K) = {}
  <2>1. \A K : \A t \in Thread : At(t, K) = {}
    BY <1>1, EmptyStack DEF At
  <2> QED BY <2>1, FrameIn
<1>6. Heights
  <2>1. IsFiniteSet({}) /\ Cardinality({}) = 0
    BY FS_EmptySet
  <2>2. Frames(Marks) = {} /\ Frames({"call"}) = {} /\ Frames({"subshell"}) = {}
    BY <1>5
  <2>3. Len(sh.scopes) = 0 /\ Len(sh.snaps) = 0
    BY <1>2, EmptyStack
  <2>4. Count({"call"}) = 0 /\ Count({"subshell"}) = 0
    BY <2>1, <2>2 DEF Count
  <2> QED BY <2>1, <2>2, <2>3, <2>4 DEF Heights
<1> QED BY <1>3, <1>4, <1>6 DEF Body

LEMMA HeightsAlways == Spec => [](Body /\ Heights)
<1>1. Body /\ Heights /\ [Next]_vars => (Body /\ Heights)'
  BY NextSorted, NextHeights DEF Sorted
<1> QED BY <1>1, InitHeights, PTL DEF Spec

(* However exceptions pass through them, and in whatever order the stages of a
   pipeline finish, every function call that is running has its variable scope
   and every subshell its snapshot of the variables (pushScope and popScope,
   pushSnapshot and popSnapshot are paired by finally blocks only). *)
THEOREM BalancedHolds == Spec => []Balanced
<1>1. Heights => Balanced
  BY DEF Heights, Balanced, ScopesMatch, SnapshotsMatch, Count
<1> QED BY <1>1, HeightsAlways, PTL

-----------------------------------------------------------------------------
(* The positional parameters. A subshell puts back the list of parameters it
   found, so what it found must be what the calls and the sourced files below it
   account for, and no other stage of a pipeline may be in one meanwhile.  *)

Owners == {"call", "source"}
\* While a subshell is under way in one thread no other is in a function or a sourced file.
Apart ==
    Exiting \/ \A t, u \in Thread : t # u /\ At(t, {"subshell"}) # {} => At(u, Owners) = {}
\* The calls and sourced files of thread t below place i of its stack.
Below(t, i) == {x \in Frames(Owners) : x[1] = t /\ x[2] < i}
Nested ==
    \A t \in Thread : \A i \in At(t, {"subshell"}) :
        Len(threads[t].stack[i].params) = 1 + Cardinality(Below(t, i))
Positions == Exiting \/ (ParamsMatch /\ Nested)

LEMMA OwnersMarks == Owners \in SUBSET Marks /\ {"subshell"} \in SUBSET Marks /\ "subshell" \notin Owners
BY DEF Owners, Marks

LEMMA SubshellsStay ==
    ASSUME NEW u, Steady(Marks, threads[u].stack, threads'[u].stack), NEW i \in At(u, {"subshell"})'
    PROVE  i \in At(u, {"subshell"}) /\ threads'[u].stack[i] = threads[u].stack[i]
BY OwnersMarks DEF Steady, Alike, At

\* The steps that move no mark but of thread t, and leave the subshells and what is below them.
LEMMA NestedStays ==
    ASSUME Nested, NEW t, OthersStay(t),
           \A i \in At(t, {"subshell"})' :
               /\ i \in At(t, {"subshell"}) /\ threads'[t].stack[i] = threads[t].stack[i]
               /\ Below(t, i)' = Below(t, i),
           \A x : x[1] # t => (x \in Frames(Owners)' <=> x \in Frames(Owners))
    PROVE  Nested'
<1> SUFFICES ASSUME NEW u \in Thread, NEW i \in At(u, {"subshell"})'
             PROVE  Len(threads'[u].stack[i].params) = 1 + Cardinality(Below(u, i)')
  BY DEF Nested
<1>1. i \in At(u, {"subshell"}) /\ threads'[u].stack[i] = threads[u].stack[i]
  BY SubshellsStay DEF OthersStay
<1>2. Below(u, i)' = Below(u, i)
  <2>1. CASE u = t
    BY <2>1
  <2>2. CASE u # t
    BY <2>2 DEF Below
  <2> QED BY <2>1, <2>2
<1> QED BY <1>1, <1>2 DEF Nested

LEMMA StillPositions == ASSUME Positions, Still PROVE Positions'
<1>1. Frames(Owners)' = Frames(Owners) /\ Frames({"exit"})' = Frames({"exit"})
  BY StillFrames, OwnersMarks, Kinds
<1>2. Exiting => Exiting'
  BY <1>1 DEF Exiting, Running, Still, Level
<1>3. ParamsMatch => ParamsMatch'
  BY <1>1 DEF ParamsMatch, Still, Level, Owners
<1>4. ASSUME Nested, NEW u \in Thread, NEW i \in At(u, {"subshell"})'
      PROVE  Len(threads'[u].stack[i].params) = 1 + Cardinality(Below(u, i)')
  <2>1. i \in At(u, {"subshell"}) /\ threads'[u].stack[i] = threads[u].stack[i]
    BY SubshellsStay DEF Still
  <2>2. Below(u, i)' = Below(u, i)
    BY <1>1 DEF Below
  <2> QED BY <1>4, <2>1, <2>2 DEF Nested
<1>5. Nested => Nested'
  BY <1>4 DEF Nested
<1> QED BY <1>2, <1>3, <1>5 DEF Positions

\* With no other thread in a function or a sourced file, those of t are all there are.
LEMMA AllBelow ==
    ASSUME NEW t \in Thread, \A u \in Thread : u # t => At(u, Owners) = {}, NEW i, \A j \in At(t, Owners) : j < i
    PROVE  Below(t, i) = Frames(Owners)
<1>1. \A x : x \in Frames(Owners) <=> \E u \in Thread : \E j \in At(u, Owners) : x = <<u, j>>
  BY FrameIn
<1>2. \A x \in Frames(Owners) : x[1] = t /\ x[2] < i
  BY <1>1
<1> QED BY <1>2 DEF Below

LEMMA EntersPositions ==
    ASSUME Body, Heights, NEW t \in Thread, Enters(t), Positions, Apart' PROVE Positions'
<1> DEFINE S == threads[t].stack
           k == Len(S) + 1
<1>1. PICK s, fr :
        /\ Pushes(t, s, fr)
        /\ \/ fr.f = "call" /\ Sizes(sh, s, 1, 0, 1)
           \/ fr.f = "source" /\ Sizes(sh, s, 0, 0, 1)
           \/ fr.f = "subshell" /\ fr.params = sh.params /\ Sizes(sh, s, 0, 1, 0)
  BY DEF Enters
<1> SUFFICES ASSUME ~Exiting' PROVE ParamsMatch' /\ Nested'
  BY DEF Positions
<1>2. ParamsMatch /\ Nested
  BY EntersHeights DEF Positions
<1>3. IsSeq(S) /\ IsFiniteSet(Frames(Marks)) /\ sh' = s /\ OthersStay(t) /\ threads'[t].stack = Append(S, fr)
  BY <1>1 DEF Body, Shape, WellFormed, Heights, Pushes
<1>4. /\ Len(S) \in Nat /\ DOMAIN S = 1..Len(S) /\ DOMAIN threads'[t].stack = 1..k
      /\ \A i \in 1..Len(S) : threads'[t].stack[i] = S[i]
      /\ threads'[t].stack[k] = fr
  BY <1>3, Stack, Pushed
<1>5. \A K \in SUBSET Marks :
        /\ fr.f \in K => Count(K)' = Count(K) + 1
        /\ fr.f \notin K => Frames(K)' = Frames(K) /\ Count(K)' = Count(K)
  BY <1>3, CountPush
<1>6. Count(Owners) \in Nat /\ Len(sh.params) \in Nat /\ Len(sh.params) = 1 + Count(Owners)
  BY <1>2, <1>3, CountNat, OwnersMarks, ShellLens DEF Body, Shape, ParamsMatch, Count, Owners
<1>7. \A u \in Thread : u # t => At(u, Owners)' = At(u, Owners)
  BY <1>3, OthersAt, OwnersMarks
<1>8. CASE fr.f \in Owners
  <2>1. k \notin At(t, Owners) /\ At(t, Owners)' = At(t, Owners) \cup {k}
    BY <1>3, <1>8, AtPush
  <2> HIDE DEF k
  <2>2. Frames(Owners)' = Frames(Owners) \cup {<<t, k>>}
    BY <1>7, <2>1, FramesMore
  <2> USE DEF k
  <2>3. At(t, {"subshell"})' = At(t, {"subshell"})
    <3>1. fr.f \notin {"subshell"}
      BY <1>8, OwnersMarks
    <3> QED BY <1>3, <3>1, AtPush
  <2>4. ASSUME NEW i \in At(t, {"subshell"})'
        PROVE  /\ i \in At(t, {"subshell"}) /\ threads'[t].stack[i] = threads[t].stack[i]
               /\ Below(t, i)' = Below(t, i)
    <3>1. i \in At(t, {"subshell"}) /\ i \in 1..Len(S)
      BY <1>4, <2>3 DEF At
    <3>2. ~(k < i) /\ <<t, k>>[2] = k
      BY <1>4, <3>1
    <3> HIDE DEF k
    <3>3. Below(t, i)' = Below(t, i)
      BY <2>2, <3>2 DEF Below
    <3> QED BY <1>4, <3>1, <3>3
  <2>5. \A x : x[1] # t => (x \in Frames(Owners)' <=> x \in Frames(Owners))
    <3> HIDE DEF k
    <3>1. <<t, k>>[1] = t
      OBVIOUS
    <3> QED BY <2>2, <3>1
  <2>6. Nested'
    BY <1>2, <1>3, <2>4, <2>5, NestedStays
  <2>7. Count(Owners)' = Count(Owners) + 1
    BY <1>5, <1>8, OwnersMarks
  <2>8. Len(sh'.params) = Len(sh.params) + 1
    BY <1>1, <1>3, <1>8, OwnersMarks DEF Sizes
  <2>9. ParamsMatch'
    BY <1>6, <2>7, <2>8 DEF ParamsMatch, Count, Owners
  <2> QED BY <2>6, <2>9
<1>9. CASE fr.f = "subshell"
  <2>1. /\ fr.f \notin Owners /\ Frames(Owners)' = Frames(Owners) /\ Count(Owners)' = Count(Owners)
        /\ At(t, Owners)' = At(t, Owners)
    BY <1>3, <1>5, <1>9, OwnersMarks, AtPush
  <2>2. Len(sh'.params) = Len(sh.params)
    BY <1>1, <1>3, <1>6, <1>9 DEF Sizes
  <2>3. ParamsMatch'
    BY <1>6, <2>1, <2>2 DEF ParamsMatch, Count, Owners
  <2>4. \A u, i : Below(u, i)' = Below(u, i)
    BY <2>1 DEF Below
  <2>5. k \in At(t, {"subshell"})' /\ At(t, {"subshell"})' = At(t, {"subshell"}) \cup {k}
    BY <1>3, <1>9, AtPush
  <2>6. \A u \in Thread : u # t => At(u, Owners) = {}
    BY <1>7, <2>5 DEF Apart
  <2>7. \A j \in At(t, Owners) : j < k
    BY <1>4 DEF At
  <2>8. Below(t, k) = Frames(Owners)
    <3> HIDE DEF k
    <3> QED BY <2>6, <2>7, AllBelow
  <2>9. ASSUME NEW u \in Thread, NEW i \in At(u, {"subshell"})'
        PROVE  Len(threads'[u].stack[i].params) = 1 + Cardinality(Below(u, i)')
    <3>1. CASE u = t /\ i = k
      <4>1. threads'[u].stack[i] = fr /\ fr.params = sh.params
        BY <1>1, <1>4, <1>9, <3>1
      <4>2. Below(u, i)' = Frames(Owners)
        <5> HIDE DEF k
        <5> QED BY <2>4, <2>8, <3>1
      <4> QED BY <1>6, <4>1, <4>2 DEF Count
    <3>2. CASE u # t \/ i # k
      <4>1. i \in At(u, {"subshell"}) /\ threads'[u].stack[i] = threads[u].stack[i]
        <5>1. CASE u = t
          <6>1. i \in At(t, {"subshell"}) /\ i \in 1..Len(S)
            BY <1>4, <2>5, <3>2, <5>1 DEF At
          <6> QED BY <1>4, <5>1, <6>1
        <5>2. CASE u # t
          BY <1>3, <5>2, SubshellsStay DEF OthersStay
        <5> QED BY <5>1, <5>2
      <4> QED BY <1>2, <2>4, <4>1 DEF Nested
    <3> QED BY <3>1, <3>2
  <2>10. Nested'
    BY <2>9 DEF Nested
  <2> QED BY <2>3, <2>10
<1> QED BY <1>1, <1>8, <1>9 DEF Owners

LEMMA LeavesPositions ==
    ASSUME Body, Heights, NEW t \in Thread, Leaves(t), Positions, Apart PROVE Positions'
<1> DEFINE S == threads[t].stack
           k == Len(S)
           top == Top(threads[t])
           f == top.f
<1>1. PICK s :
        /\ Pops(t, s)
        /\ \/ f = "call" /\ Sizes(sh, s, -1, 0, Less)
           \/ f = "source" /\ Sizes(sh, s, 0, 0, Less)
           \/ f = "subshell" /\ Sizes(sh, s, 0, -1, Len(top.params) - Len(sh.params))
  BY DEF Leaves
<1> SUFFICES ASSUME ~Exiting' PROVE ParamsMatch' /\ Nested'
  BY DEF Positions
<1>2. ParamsMatch /\ Nested /\ ~Exiting
  BY LeavesHeights DEF Positions
<1>3. /\ IsSeq(S) /\ IsFiniteSet(Frames(Marks)) /\ sh' = s /\ OthersStay(t)
      /\ S # <<>> /\ threads'[t].stack = Front(S)
  BY <1>1 DEF Body, Shape, WellFormed, Heights, Pops
<1>4. /\ k \in Nat /\ DOMAIN S = 1..k /\ DOMAIN threads'[t].stack = 1..(k - 1)
      /\ \A i \in 1..(k - 1) : threads'[t].stack[i] = S[i]
      /\ top = S[k] /\ k \in DOMAIN S
  <2>1. k \in Nat /\ DOMAIN S = 1..k /\ k # 0
    BY <1>3, Stack
  <2>2. Last(S) = S[k]
    BY DEF Last
  <2> QED BY <1>3, <2>1, <2>2, Popped DEF Top
<1>5. \A K \in SUBSET Marks :
        /\ f \in K => Count(K)' = Count(K) - 1 /\ Count(K) # 0
        /\ f \notin K => Frames(K)' = Frames(K) /\ Count(K)' = Count(K)
  BY <1>3, CountPop
<1>6. Count(Owners) \in Nat /\ Len(sh.params) \in Nat /\ Len(sh.params) = 1 + Count(Owners)
  BY <1>2, <1>3, CountNat, OwnersMarks, ShellLens DEF Body, Shape, ParamsMatch, Count, Owners
<1>7. \A u \in Thread : u # t => At(u, Owners)' = At(u, Owners)
  BY <1>3, OthersAt, OwnersMarks
<1>8. CASE f \in Owners
  <2>1. k \in At(t, Owners) /\ At(t, Owners)' = At(t, Owners) \ {k}
    BY <1>3, <1>8, AtPop
  <2> HIDE DEF k
  <2>2. Frames(Owners)' = Frames(Owners) \ {<<t, k>>}
    BY <1>7, <2>1, FramesLess
  <2> USE DEF k
  <2>3. At(t, {"subshell"})' = At(t, {"subshell"})
    <3>1. f \notin {"subshell"}
      BY <1>8, OwnersMarks
    <3> QED BY <1>3, <3>1, AtPop
  <2>4. ASSUME NEW i \in At(t, {"subshell"})'
        PROVE  /\ i \in At(t, {"subshell"}) /\ threads'[t].stack[i] = threads[t].stack[i]
               /\ Below(t, i)' = Below(t, i)
    <3>1. i \in At(t, {"subshell"}) /\ i \in 1..(k - 1)
      BY <1>4, <2>3 DEF At
    <3>2. ~(k < i) /\ <<t, k>>[2] = k
      BY <1>4, <3>1
    <3> HIDE DEF k
    <3>3. Below(t, i)' = Below(t, i)
      BY <2>2, <3>2 DEF Below
    <3> QED BY <1>4, <3>1, <3>3
  <2>5. \A x : x[1] # t => (x \in Frames(Owners)' <=> x \in Frames(Owners))
    <3> HIDE DEF k
    <3>1. <<t, k>>[1] = t
      OBVIOUS
    <3> QED BY <2>2, <3>1
  <2>6. Nested'
    BY <1>2, <1>3, <2>4, <2>5, NestedStays
  <2>7. Count(Owners)' = Count(Owners) - 1 /\ Count(Owners) # 0
    BY <1>5, <1>8, OwnersMarks
  <2>8. Len(sh'.params) = Len(sh.params) - 1
    <3>1. Less = -1
      BY <1>6, <2>7 DEF Less
    <3> QED BY <1>1, <1>3, <1>6, <1>8, <3>1, OwnersMarks DEF Sizes
  <2>9. ParamsMatch'
    BY <1>6, <2>7, <2>8 DEF ParamsMatch, Count, Owners
  <2> QED BY <2>6, <2>9
<1>9. CASE f = "subshell"
  <2>1. f \notin Owners /\ Frames(Owners)' = Frames(Owners) /\ Count(Owners)' = Count(Owners)
    BY <1>5, <1>9, OwnersMarks
  <2>2. k \in At(t, {"subshell"})
    BY <1>4, <1>9 DEF At
  <2>3. \A u \in Thread : u # t => At(u, Owners) = {}
    BY <1>2, <2>2 DEF Apart
  <2>4. \A j \in At(t, Owners) : j < k
    BY <1>4, <2>1 DEF At
  <2>5. Below(t, k) = Frames(Owners)
    <3> HIDE DEF k
    <3> QED BY <2>3, <2>4, AllBelow
  <2>6. Len(top.params) = 1 + Count(Owners)
    BY <1>2, <1>4, <2>2, <2>5 DEF Nested, Count
  <2>7. Len(sh'.params) = Len(top.params)
    <3>1. Len(sh'.params) = Len(sh.params) + (Len(top.params) - Len(sh.params))
      BY <1>1, <1>3, <1>9 DEF Sizes
    <3> QED BY <1>6, <2>6, <3>1
  <2>8. ParamsMatch'
    BY <2>1, <2>6, <2>7 DEF ParamsMatch, Count, Owners
  <2>9. ASSUME NEW i \in At(t, {"subshell"})'
        PROVE  /\ i \in At(t, {"subshell"}) /\ threads'[t].stack[i] = threads[t].stack[i]
               /\ Below(t, i)' = Below(t, i)
    BY <1>4, <2>1 DEF At, Below
  <2>10. Nested'
    BY <1>2, <1>3, <2>1, <2>9, NestedStays
  <2> QED BY <2>8, <2>10
<1> QED BY <1>1, <1>8, <1>9 DEF Owners

LEMMA InitPositions == ASSUME Init PROVE Positions
<1>1. \A t \in Thread : threads[t].stack = <<>>
  BY IdleFits DEF Init, Idle
<1>2. \A K : \A t \in Thread : At(t, K) = {}
  BY <1>1, EmptyStack DEF At
<1>3. Frames(Owners) = {}
  BY <1>2, FrameIn
<1>4. Cardinality({}) = 0
  BY FS_EmptySet
<1>5. sh.params = <<<<>>>>
  BY DEF Init, Shell
<1>6. Len(<<<<>>>>) = 1
  OBVIOUS
<1>7. ParamsMatch
  <2>1. Len(sh.params) = 1
    BY <1>5, <1>6
  <2>2. Cardinality(Frames(Owners)) = 0
    BY <1>3, <1>4
  <2> QED BY <2>1, <2>2 DEF ParamsMatch, Owners
<1>8. Nested
  BY <1>2 DEF Nested
<1> QED BY <1>7, <1>8 DEF Positions

LEMMA NextPositions == ASSUME Body, Heights, Positions, [Next]_vars, Apart, Apart' PROVE Positions'
<1>1. CASE Drops
  BY <1>1 DEF Drops, Positions
<1> QED BY <1>1, NextSorted, StillPositions, EntersPositions, LeavesPositions, Zenon DEF Sorted

(* As long as no subshell is under way in one stage of a pipeline while another
   stage is in a function or a sourced file, the stack of positional parameters
   has one list for the shell and one for every call and sourced file that is
   running, through whatever is thrown: executeSubshell puts back the whole stack
   (src/executor/index.ts), so nothing may have been pushed or popped on it by
   others meanwhile. *)
THEOREM ParamsBalancedHolds == Spec /\ []Apart => []ParamsBalanced
<1>1. Positions => ParamsBalanced
  BY DEF Positions, ParamsBalanced
<1>2. Body /\ Heights /\ Positions /\ [Next]_vars /\ Apart /\ Apart' => Positions'
  BY NextPositions
<1> QED BY <1>1, <1>2, InitPositions, HeightsAlways, PTL DEF Spec

-----------------------------------------------------------------------------
(* Descriptors above 2. Every one in the keeping of a frame is open, no two
   frames keep the same, and those that are in nobody's keeping are closed or
   only read.                                                              *)

Std == 0..2
Above == Fd \ Std
Keepers == {"redir", "stage", "capture"}
Holds(t, i) == IF i \in DOMAIN threads[t].stack THEN Kept(threads[t].stack[i]) ELSE {}
Copies(saved) == {saved[i].copy : i \in DOMAIN saved}
\* What a frame knows of the descriptors ends.
Notes(fr, ends) ==
    /\ fr.f = "redir" =>
         /\ IsSeq(fr.saved)
         /\ \A i \in DOMAIN fr.saved : fr.saved[i].fd \in Std \cup fr.opened
         /\ \A i, j \in DOMAIN fr.saved : fr.saved[i].copy = fr.saved[j].copy => i = j
         /\ Copies(fr.saved) \cap fr.opened = {}
    /\ fr.f = "capture" => fr.rfd \in Fd /\ ends[fr.rfd].o = "reader" /\ fr.copy # fr.rfd
Secure ==
    /\ DOMAIN sh.fds = Fd
    /\ \A fd \in Std : sh.fds[fd] # Closed
    /\ \A t \in Thread : \A i \in DOMAIN threads[t].stack : Notes(threads[t].stack[i], sh.fds)
    /\ \A t \in Thread : \A i : \A fd \in Holds(t, i) : fd \in Above /\ sh.fds[fd] # Closed
    /\ \A t, u \in Thread : \A i, j : <<t, i>> # <<u, j>> => Holds(t, i) \cap Holds(u, j) = {}
Unread(end) == end.o \notin {"closed", "reader"}
Owned == \A fd \in Above : Unread(sh.fds[fd]) => \E t \in Thread : \E i : fd \in Holds(t, i)

LEMMA KeptFrames ==
    ASSUME NEW fr
    PROVE  /\ fr.f = "redir" => Kept(fr) = fr.opened \cup Copies(fr.saved)
           /\ fr.f = "stage" => Kept(fr) = fr.close
           /\ fr.f = "capture" => Kept(fr) = {fr.rfd, fr.copy} \ {NoCopy}
           /\ fr.f \notin Keepers => Kept(fr) = {}
<1>1. {one.copy : one \in Range(fr.saved)} = Copies(fr.saved)
  BY DEF Range, Copies
<1> QED BY <1>1 DEF Kept, Keepers

\* Place i of the stack of u has the same keeper, or none, before and after a step.
Same(u, i) ==
    LET s == threads[u].stack
        r == threads'[u].stack
    IN  /\ (i \in DOMAIN r /\ r[i].f \in Keepers) <=> (i \in DOMAIN s /\ s[i].f \in Keepers)
        /\ i \in DOMAIN s /\ s[i].f \in Keepers => Alike(s[i], r[i])

LEMMA SteadySame ==
    ASSUME NEW N, Keepers \subseteq N, NEW u, Steady(N, threads[u].stack, threads'[u].stack)
    PROVE  \A i : Same(u, i)
<1> DEFINE s == threads[u].stack
           r == threads'[u].stack
<1>1. \A i : (i \in DOMAIN r /\ r[i].f \in Keepers) <=> (i \in DOMAIN s /\ s[i].f \in Keepers)
  BY SteadyLess
<1> QED BY <1>1 DEF Steady, Same

LEMMA SameHolds == ASSUME NEW u, NEW i, Same(u, i) PROVE Holds(u, i)' = Holds(u, i)
<1> DEFINE s == threads[u].stack
           r == threads'[u].stack
<1>1. CASE i \in DOMAIN s /\ s[i].f \in Keepers
  <2>1. i \in DOMAIN r /\ Alike(s[i], r[i])
    BY <1>1 DEF Same
  <2>2. Kept(r[i]) = Kept(s[i])
    BY <2>1, KeptFrames DEF Alike
  <2> QED BY <1>1, <2>1, <2>2 DEF Holds
<1>2. CASE ~(i \in DOMAIN s /\ s[i].f \in Keepers)
  <2>1. ~(i \in DOMAIN r /\ r[i].f \in Keepers)
    BY <1>2 DEF Same
  <2>2. i \in DOMAIN s => Kept(s[i]) = {}
    BY <1>2, KeptFrames
  <2>3. i \in DOMAIN r => Kept(r[i]) = {}
    BY <2>1, KeptFrames
  <2> QED BY <2>2, <2>3 DEF Holds
<1> QED BY <1>1, <1>2

LEMMA StdAbove == Std \subseteq Fd /\ NoCopy \notin Fd /\ \A fd : fd \in Above <=> fd \in Fd /\ fd > 2
BY BoundsAssumption DEF Std, Above, Fd, NoCopy

LEMMA FreeAbove == ASSUME Secure PROVE \A fd \in FreeFds : fd \in Above /\ sh.fds[fd] = Closed
BY DEF Secure, FreeFds, Above

(* The keepers at the places M give up the descriptors G between them, and keep
   others, of these and of those that were free. *)
LEMMA Exchange ==
    ASSUME Secure, NEW M, NEW G, DOMAIN sh'.fds = Fd,
           \A u \in Thread : \A i : <<u, i>> \notin M => Same(u, i) /\ Holds(u, i) \cap G = {},
           \A u \in Thread : \A i : <<u, i>> \in M =>
               /\ \A fd \in Holds(u, i)' : fd \in Above /\ fd \in G \cup FreeFds /\ sh'.fds[fd] # Closed
               /\ i \in DOMAIN threads'[u].stack => Notes(threads'[u].stack[i], sh'.fds),
           \A u, v \in Thread : \A i, j : <<u, i>> \in M /\ <<v, j>> \in M /\ <<u, i>> # <<v, j>> =>
               Holds(u, i)' \cap Holds(v, j)' = {},
           \A fd \in Std : sh'.fds[fd] # Closed,
           \A fd \in Above : sh'.fds[fd] # sh.fds[fd] => fd \in G \cup FreeFds
    PROVE  Secure'
<1>1. \A u \in Thread : \A i : <<u, i>> \notin M => Holds(u, i)' = Holds(u, i)
  BY SameHolds
<1>2. ASSUME NEW u \in Thread, NEW i, <<u, i>> \notin M
      PROVE  \A fd \in Holds(u, i) : fd \notin G \cup FreeFds /\ sh'.fds[fd] = sh.fds[fd]
  BY <1>2, FreeAbove DEF Secure
<1>3. ASSUME NEW u \in Thread, NEW i, NEW fd \in Holds(u, i)' PROVE fd \in Above /\ sh'.fds[fd] # Closed
  <2>1. CASE <<u, i>> \in M
    BY <1>3, <2>1
  <2>2. CASE <<u, i>> \notin M
    BY <1>1, <1>2, <1>3, <2>2 DEF Secure
  <2> QED BY <2>1, <2>2
<1>4. ASSUME NEW u \in Thread, NEW v \in Thread, NEW i, NEW j, <<u, i>> # <<v, j>>
      PROVE  Holds(u, i)' \cap Holds(v, j)' = {}
  <2>1. CASE <<u, i>> \in M /\ <<v, j>> \in M
    BY <1>4, <2>1
  <2>2. CASE <<u, i>> \notin M /\ <<v, j>> \in M
    BY <1>1, <1>2, <2>2
  <2>3. CASE <<u, i>> \in M /\ <<v, j>> \notin M
    BY <1>1, <1>2, <2>3
  <2>4. CASE <<u, i>> \notin M /\ <<v, j>> \notin M
    BY <1>1, <1>4, <2>4 DEF Secure
  <2> QED BY <2>1, <2>2, <2>3, <2>4
<1>5. ASSUME NEW u \in Thread, NEW i \in DOMAIN threads'[u].stack
      PROVE  Notes(threads'[u].stack[i], sh'.fds)
  <2> DEFINE s == threads[u].stack
             r == threads'[u].stack
  <2>1. CASE <<u, i>> \in M
    BY <2>1
  <2>2. CASE <<u, i>> \notin M /\ r[i].f \notin Keepers
    BY <2>2 DEF Notes, Keepers
  <2>3. CASE <<u, i>> \notin M /\ r[i].f \in Keepers
    <3>1. i \in DOMAIN s /\ Alike(s[i], r[i]) /\ Notes(s[i], sh.fds)
      BY <2>3 DEF Same, Secure
    <3>2. CASE r[i].f = "capture"
      <4>1. s[i].f = "capture" /\ r[i].rfd = s[i].rfd /\ r[i].copy = s[i].copy
        BY <3>1, <3>2 DEF Alike
      <4>2. s[i].rfd \in Fd /\ sh.fds[s[i].rfd].o = "reader" /\ s[i].copy # s[i].rfd
        BY <3>1, <4>1 DEF Notes
      <4>3. s[i].rfd \in Holds(u, i)
        BY <3>1, <4>1, <4>2, KeptFrames, StdAbove DEF Holds
      <4> QED BY <1>2, <2>3, <3>2, <4>1, <4>2, <4>3 DEF Notes
    <3>3. CASE r[i].f # "capture"
      <4>1. r[i] = s[i]
        BY <3>1, <3>3 DEF Alike
      <4> QED BY <3>1, <3>3, <4>1 DEF Notes
    <3> QED BY <3>2, <3>3
  <2> QED BY <2>1, <2>2, <2>3
<1> QED BY <1>3, <1>4, <1>5 DEF Secure

LEMMA ExchangeOwned ==
    ASSUME Secure, Owned, NEW M, NEW G,
           \A u \in Thread : \A i : IF <<u, i>> \in M THEN Holds(u, i) \subseteq G ELSE Same(u, i),
           \A fd \in Above : sh'.fds[fd] # sh.fds[fd] => fd \in G \cup FreeFds,
           \A fd \in Above : fd \in G \cup FreeFds /\ Unread(sh'.fds[fd]) =>
               \E u \in Thread : \E i : fd \in Holds(u, i)'
    PROVE  Owned'
<1> SUFFICES ASSUME NEW fd \in Above, fd \notin G \cup FreeFds, Unread(sh'.fds[fd])
             PROVE  \E u \in Thread : \E i : fd \in Holds(u, i)'
  BY DEF Owned
<1>1. PICK u \in Thread : \E i : fd \in Holds(u, i)
  BY DEF Owned
<1>2. PICK i : fd \in Holds(u, i)
  BY <1>1
<1>3. Same(u, i)
  BY <1>2
<1> QED BY <1>2, <1>3, SameHolds

\* A step that leaves the descriptors and their keepers alone.
Plain ==
    /\ sh'.fds = sh.fds
    /\ \A u \in Thread : Steady(Keepers, threads[u].stack, threads'[u].stack)

LEMMA PlainSecure == ASSUME Secure, Plain PROVE Secure' /\ (Owned => Owned')
<1>1. \A u \in Thread : \A i : Same(u, i)
  BY SteadySame DEF Plain
<1>2. sh'.fds = sh.fds
  BY DEF Plain
<1>3. Secure'
  <2> DEFINE M == {}
             G == {}
  <2>1. \A u \in Thread : \A i : <<u, i>> \notin M => Same(u, i) /\ Holds(u, i) \cap G = {}
    BY <1>1
  <2>2. \A u \in Thread : \A i : <<u, i>> \notin M
    OBVIOUS
  <2>3. DOMAIN sh'.fds = Fd /\ \A fd \in Std : sh'.fds[fd] # Closed
    BY <1>2 DEF Secure
  <2> HIDE DEF M, G
  <2> QED BY <1>2, <2>1, <2>2, <2>3, Exchange
<1>4. ASSUME Owned PROVE Owned'
  <2>1. \A u \in Thread : \A i : Holds(u, i)' = Holds(u, i)
    BY <1>1, SameHolds
  <2> QED BY <1>2, <1>4, <2>1 DEF Owned
<1> QED BY <1>3, <1>4

-----------------------------------------------------------------------------
(* PutBack, the finally block of withRedirections: what is left when all copies
   have been put back, by induction over the list of them.                 *)

LEMMA Induct ==
    ASSUME NEW n \in Nat, NEW S, 0 \in S, \A m \in 0..(n - 1) : m \in S => m + 1 \in S
    PROVE  \A m \in 0..n : m \in S
<1> DEFINE Bad == (0..n) \ S
<1> SUFFICES ASSUME Bad # {} PROVE FALSE
  OBVIOUS
<1>1. PICK x \in Bad : \A y \in Bad : ~(<<y, x>> \in OpToRel(<, Nat))
  <2>1. Bad \subseteq Nat
    OBVIOUS
  <2> HIDE DEF Bad
  <2> QED BY <2>1, NatLessThanWellFounded, WFMin
<1>2. x \in 0..n /\ x \notin S /\ x # 0
  OBVIOUS
<1>3. x - 1 \in 0..(n - 1) /\ x - 1 \notin S
  BY <1>2
<1>4. x - 1 \in Bad /\ <<x - 1, x>> \in OpToRel(<, Nat)
  BY <1>2, <1>3 DEF OpToRel
<1> QED BY <1>1, <1>4

\* One copy is put back.
Give(fds, one) == [fds EXCEPT ![one.fd] = fds[one.copy], ![one.copy] = Closed]

\* g[i] are the descriptors when the copies i and later have been put back, down to k.
IsBack(g, k, fds, saved) ==
    g = [i \in k..(Len(saved) + 1) |-> IF i > Len(saved) THEN fds ELSE Give(g[i + 1], saved[i])]

LEMMA BackExists ==
    ASSUME NEW saved, Len(saved) \in Nat, NEW fds PROVE \E g : IsBack(g, 1, fds, saved)
<1> DEFINE n == Len(saved)
           S == {m \in 0..n : \E g : IsBack(g, n + 1 - m, fds, saved)}
<1>1. 0 \in S
  <2> DEFINE g == [i \in (n + 1)..(n + 1) |-> fds]
  <2>1. g = [i \in (n + 1)..(n + 1) |-> IF i > n THEN fds ELSE Give(g[i + 1], saved[i])]
    OBVIOUS
  <2>2. IsBack(g, n + 1, fds, saved)
    BY <2>1 DEF IsBack
  <2>3. n + 1 - 0 = n + 1 /\ 0 \in 0..n
    OBVIOUS
  <2> HIDE DEF g
  <2> QED BY <2>2, <2>3
<1>2. ASSUME NEW m \in 0..(n - 1), m \in S PROVE m + 1 \in S
  <2> DEFINE k == n + 1 - m
  <2>1. PICK g : IsBack(g, k, fds, saved)
    BY <1>2
  <2> DEFINE h == [i \in (k - 1)..(n + 1) |-> IF i = k - 1 THEN Give(g[k], saved[k - 1]) ELSE g[i]]
  <2>2. \A i \in k..(n + 1) : g[i] = IF i > n THEN fds ELSE Give(g[i + 1], saved[i])
    BY <2>1 DEF IsBack
  <2>3. k \in 2..(n + 1) /\ n \in Nat
    BY <1>2
  <2> HIDE DEF k, n
  <2>4. \A i \in (k - 1)..(n + 1) : h[i] = IF i > n THEN fds ELSE Give(h[i + 1], saved[i])
    <3> SUFFICES ASSUME NEW i \in (k - 1)..(n + 1)
                 PROVE  h[i] = IF i > n THEN fds ELSE Give(h[i + 1], saved[i])
      OBVIOUS
    <3>1. CASE i = k - 1
      <4>1. h[i] = Give(g[k], saved[k - 1]) /\ h[i + 1] = g[k] /\ ~(i > n)
        BY <2>3, <3>1
      <4> QED BY <3>1, <4>1
    <3>2. CASE i # k - 1 /\ i > n
      BY <2>2, <2>3, <3>2
    <3>3. CASE i # k - 1 /\ ~(i > n)
      <4>1. i \in k..(n + 1) /\ i + 1 \in k..(n + 1) /\ i + 1 # k - 1
        BY <2>3, <3>3
      <4>2. h[i] = g[i] /\ h[i + 1] = g[i + 1]
        BY <2>3, <4>1, <3>3
      <4> QED BY <2>2, <3>3, <4>1, <4>2
    <3> QED BY <3>1, <3>2, <3>3
  <2>5. h = [i \in (k - 1)..(n + 1) |-> h[i]]
    OBVIOUS
  <2> HIDE DEF h
  <2>6. h = [i \in (k - 1)..(n + 1) |-> IF i > n THEN fds ELSE Give(h[i + 1], saved[i])]
    BY <2>4, <2>5
  <2>7. IsBack(h, k - 1, fds, saved)
    BY <2>6 DEF IsBack, n
  <2>8. k - 1 = n + 1 - (m + 1) /\ m + 1 \in 0..n
    BY <1>2, <2>3 DEF k
  <2> QED BY <2>7, <2>8
<1>3. n \in 0..n /\ n + 1 - n = 1
  OBVIOUS
<1>4. n \in S
  <2> HIDE DEF S
  <2> QED BY <1>1, <1>2, <1>3, Induct
<1> QED BY <1>3, <1>4

LEMMA PutBackIs ==
    ASSUME NEW saved, Len(saved) \in Nat, NEW fds
    PROVE  \E g : IsBack(g, 1, fds, saved) /\ PutBack(fds, saved) = g[1]
<1> DEFINE g == CHOOSE g : IsBack(g, 1, fds, saved)
<1>1. PutBack(fds, saved) = g[1]
  BY DEF PutBack, IsBack, Give
<1>2. IsBack(g, 1, fds, saved)
  BY BackExists
<1> QED BY <1>1, <1>2

\* The copies k and later have been put back.
GivenFrom(f, k, fds, saved, opened) ==
    /\ DOMAIN f = Fd
    /\ \A fd \in Std : f[fd] # Closed
    /\ \A fd \in Above : fd \notin opened \cup Copies(saved) => f[fd] = fds[fd]
    /\ \A i \in DOMAIN saved : f[saved[i].copy] = IF i >= k THEN Closed ELSE fds[saved[i].copy]
Backable(fds, saved, opened) ==
    /\ DOMAIN fds = Fd /\ IsSeq(saved) /\ opened \subseteq Above
    /\ \A fd \in Std : fds[fd] # Closed
    /\ \A i \in DOMAIN saved : /\ saved[i].fd \in Std \cup opened /\ saved[i].copy \in Above \ opened
                              /\ fds[saved[i].copy] # Closed
    /\ \A i, j \in DOMAIN saved : saved[i].copy = saved[j].copy => i = j

LEMMA GiveGivenFrom ==
    ASSUME NEW fds, NEW saved, NEW opened, Backable(fds, saved, opened), NEW k \in DOMAIN saved,
           DOMAIN saved \subseteq Int, NEW f, GivenFrom(f, k + 1, fds, saved, opened)
    PROVE  GivenFrom(Give(f, saved[k]), k, fds, saved, opened)
<1> DEFINE one == saved[k]
           g == Give(f, one)
<1>1. /\ one.fd \in Std \cup opened /\ opened \subseteq Above
      /\ one.copy \in Above \ opened /\ one.copy \in Copies(saved)
  BY DEF Backable, Copies
<1>2. one.fd \in Fd /\ one.copy \in Fd /\ one.fd # one.copy /\ DOMAIN f = Fd
  BY <1>1, StdAbove DEF GivenFrom, Above
<1>3. f[one.copy] # Closed
  BY DEF GivenFrom, Backable
<1>4. DOMAIN g = Fd /\ \A fd \in Fd : g[fd] = IF fd = one.copy THEN Closed
                                             ELSE IF fd = one.fd THEN f[one.copy] ELSE f[fd]
  BY <1>2 DEF Give
<1> HIDE DEF g
<1>5. \A fd \in Std : g[fd] # Closed
  <2>1. \A fd \in Std : fd \in Fd /\ fd # one.copy /\ f[fd] # Closed
    BY <1>1, StdAbove DEF Above, GivenFrom
  <2> HIDE DEF one
  <2> QED BY <1>3, <1>4, <2>1
<1>6. \A fd \in Above : fd \notin opened \cup Copies(saved) => g[fd] = fds[fd]
  <2> SUFFICES ASSUME NEW fd \in Above, fd \notin opened \cup Copies(saved) PROVE g[fd] = fds[fd]
    OBVIOUS
  <2>1. fd # one.copy /\ fd # one.fd /\ fd \in Fd
    BY <1>1 DEF Above
  <2>2. f[fd] = fds[fd]
    BY DEF GivenFrom
  <2> QED BY <1>4, <2>1, <2>2
<1>7. ASSUME NEW i \in DOMAIN saved
      PROVE  g[saved[i].copy] = IF i >= k THEN Closed ELSE fds[saved[i].copy]
  <2>1. saved[i].copy \in Fd /\ saved[i].copy # one.fd
    BY <1>1 DEF Backable, Above
  <2>2. CASE i = k
    BY <1>4, <2>1, <2>2
  <2>3. CASE i # k
    <3>1. saved[i].copy # one.copy
      BY <2>3 DEF Backable
    <3>2. g[saved[i].copy] = f[saved[i].copy]
      BY <1>4, <2>1, <3>1
    <3>3. (i >= k) <=> (i >= k + 1)
      BY <2>3
    <3> QED BY <3>2, <3>3 DEF GivenFrom
  <2> QED BY <2>2, <2>3
<1>8. GivenFrom(g, k, fds, saved, opened)
  BY <1>4, <1>5, <1>6, <1>7 DEF GivenFrom
<1> QED BY <1>8 DEF g

LEMMA PutBackFacts ==
    ASSUME NEW fds, NEW saved, NEW opened, Backable(fds, saved, opened)
    PROVE  /\ DOMAIN PutBack(fds, saved) = Fd
           /\ \A fd \in Std : PutBack(fds, saved)[fd] # Closed
           /\ \A fd \in Copies(saved) : PutBack(fds, saved)[fd] = Closed
           /\ \A fd \in Above : fd \notin opened \cup Copies(saved) => PutBack(fds, saved)[fd] = fds[fd]
<1> DEFINE n == Len(saved)
<1>1. n \in Nat /\ DOMAIN saved = 1..n
  BY Stack DEF Backable
<1>2. PICK g : IsBack(g, 1, fds, saved) /\ PutBack(fds, saved) = g[1]
  BY <1>1, PutBackIs
<1> HIDE DEF n
<1>3. \A i \in 1..(n + 1) : g[i] = IF i > n THEN fds ELSE Give(g[i + 1], saved[i])
  BY <1>2 DEF IsBack, n
<1> DEFINE S == {m \in 0..n : GivenFrom(g[n + 1 - m], n + 1 - m, fds, saved, opened)}
<1>4. 0 \in S
  <2>1. g[n + 1] = fds
    BY <1>1, <1>3
  <2>2. \A i \in DOMAIN saved : ~(i >= n + 1)
    BY <1>1
  <2>3. GivenFrom(fds, n + 1, fds, saved, opened)
    BY <2>2 DEF GivenFrom, Backable
  <2>4. n + 1 - 0 = n + 1 /\ 0 \in 0..n
    BY <1>1
  <2> QED BY <2>1, <2>3, <2>4
<1>5. ASSUME NEW m \in 0..(n - 1), m \in S PROVE m + 1 \in S
  <2> DEFINE k == n - m
  <2>1. k \in 1..n /\ n + 1 - m = k + 1 /\ n + 1 - (m + 1) = k /\ m + 1 \in 0..n
    BY <1>1
  <2>2. GivenFrom(g[k + 1], k + 1, fds, saved, opened)
    BY <1>5, <2>1
  <2> HIDE DEF k
  <2>3. g[k] = Give(g[k + 1], saved[k])
    BY <1>1, <1>3, <2>1
  <2>4. DOMAIN saved \subseteq Int /\ k \in DOMAIN saved
    BY <1>1, <2>1
  <2>5. GivenFrom(g[k], k, fds, saved, opened)
    BY <2>2, <2>3, <2>4, GiveGivenFrom
  <2> QED BY <2>1, <2>5
<1>6. n \in S
  <2>1. n \in 0..n
    BY <1>1
  <2> HIDE DEF S
  <2> QED BY <1>1, <1>4, <1>5, <2>1, Induct
<1>7. GivenFrom(g[1], 1, fds, saved, opened)
  <2>1. n + 1 - n = 1
    BY <1>1
  <2> QED BY <1>6, <2>1
<1>8. \A i \in DOMAIN saved : i >= 1
  BY <1>1
<1> QED BY <1>2, <1>7, <1>8 DEF GivenFrom, Copies


-----------------------------------------------------------------------------
(* Steps that move no keeper.                                              *)

LEMMA SteadySub ==
    ASSUME NEW N, NEW K \in SUBSET N, NEW s, NEW r, Steady(N, s, r) PROVE Steady(K, s, r)
<1>1. \A i : (i \in DOMAIN r /\ r[i].f \in K) <=> (i \in DOMAIN s /\ s[i].f \in K)
  BY SteadyLess
<1> QED BY <1>1, Zenon DEF Steady

LEMMA KeepersNoted ==
    Keepers \in SUBSET Noted /\ "mixed" \notin Keepers /\ \A f \in Marks : f \notin Keepers
BY DEF Keepers, Noted, Marks

LEMMA CalmKeeps == ASSUME NEW th, NEW ti, Calm(th, ti) PROVE Steady(Keepers, th.stack, ti.stack)
BY SteadySub, KeepersNoted DEF Calm

LEMMA QuietPlain == ASSUME Quiet PROVE Plain
BY CalmKeeps DEF Quiet, Plain, Kin

LEMMA PushPlain ==
    ASSUME Body, NEW t \in Thread, NEW s, s.fds = sh.fds, NEW fr, FrameOK(fr), fr.f \notin Keepers,
           NEW c, Wakes(c), Moves(t, s, Push(threads[t], fr, c))
    PROVE  Plain
<1> DEFINE th == threads[t]
<1>1. WellFormed(th) /\ IsSeq(th.stack) /\ fr.f # "stage"
  BY DEF Body, Shape, WellFormed, Keepers
<1>2. Push(th, fr, c).stack = Append(th.stack, fr)
  BY <1>1, PushFits
<1>3. Steady(Keepers, th.stack, Append(th.stack, fr))
  BY <1>1, SteadyPush
<1> QED BY <1>2, <1>3, CalmKeeps DEF Moves, Plain

LEMMA PopPlain ==
    ASSUME Body, NEW t \in Thread, NEW s, s.fds = sh.fds, threads[t].stack # <<>>,
           Top(threads[t]).f \notin Keepers, NEW c, Wakes(c), Moves(t, s, Return(threads[t], c))
    PROVE  Plain
<1> DEFINE th == threads[t]
<1>1. WellFormed(th) /\ IsSeq(th.stack) /\ Last(th.stack).f \notin Keepers
  BY DEF Body, Shape, WellFormed, Top
<1>2. Return(th, c).stack = Front(th.stack)
  BY <1>1, PopFits
<1>3. Steady(Keepers, th.stack, Front(th.stack))
  BY <1>1, SteadyPop
<1> QED BY <1>2, <1>3, CalmKeeps DEF Moves, Plain

LEMMA CallFunctionPlain == ASSUME Body, NEW t \in Thread, CallFunction(t) PROVE Plain
<1> DEFINE s == PushScope(PushParams(sh, Tail(Words(t))))
           fr == [f |-> "call"]
           n == sh.funs[Words(t)[1]]
<1>1. Put(t, s, Call(threads[t], fr, n))
  BY DEF CallFunction, Only
<1>2. s.fds = sh.fds
  BY DEF PushScope, PushParams, Body, Shape, ShellOK, ShellFields
<1>3. FrameOK(fr) /\ fr.f \notin Keepers
  BY DEF FrameOK, Keepers
<1> HIDE DEF s, n, fr
<1>4. Moves(t, s, Push(threads[t], fr, Eval(n)))
  BY <1>1, PutMoves DEF Body, Call, Push
<1> QED BY <1>2, <1>3, <1>4, WakingControls, PushPlain

LEMMA SourcingPlain == ASSUME Body, NEW t \in Thread, Sourcing(t) PROVE Plain
<1> DEFINE s == PushParams(sh, RunArgs(t))
           fr == [f |-> "source"]
           n == Node(t).sub
<1>1. Put(t, s, Call(threads[t], fr, n))
  BY DEF Sourcing, Only
<1>2. s.fds = sh.fds
  BY DEF PushParams, Body, Shape, ShellOK, ShellFields
<1>3. FrameOK(fr) /\ fr.f \notin Keepers
  BY DEF FrameOK, Keepers
<1> HIDE DEF s, n, fr
<1>4. Moves(t, s, Push(threads[t], fr, Eval(n)))
  BY <1>1, PutMoves DEF Body, Call, Push
<1> QED BY <1>2, <1>3, <1>4, WakingControls, PushPlain

LEMMA SubshellPlain == ASSUME Body, NEW t \in Thread, Subshell(t) PROVE Plain
<1> DEFINE n == Node(t)
           s == PushSnapshot(sh)
           fr == [f |-> "subshell", cwd |-> sh.cwd, opts |-> sh.opts, params |-> sh.params]
           m == [t |-> "group", rs |-> n.rs, n |-> n.n]
<1>1. Put(t, s, Call(threads[t], fr, m))
  BY DEF Subshell, Only
<1>2. s.fds = sh.fds
  BY DEF PushSnapshot, Body, Shape, ShellOK, ShellFields
<1>3. FrameOK(fr) /\ fr.f \notin Keepers
  BY DEF FrameOK, Keepers, Body, Shape, ShellOK
<1> HIDE DEF s, m, fr
<1>4. Moves(t, s, Push(threads[t], fr, Eval(m)))
  BY <1>1, PutMoves DEF Body, Call, Push
<1> QED BY <1>2, <1>3, <1>4, WakingControls, PushPlain

LEMMA FunctionReturnsPlain == ASSUME Body, NEW t \in Thread, FunctionReturns(t) PROVE Plain
<1> DEFINE q1 == [sh EXCEPT !.pst = <<Value(t)>>]
           Left(q) == PopParams(PopScope(q))
<1>1. threads[t].stack # <<>> /\ Top(threads[t]).f = "call" /\ Wakes(threads[t].c)
  BY DEF FunctionReturns, Returning, Throwing, Wakes
<1>2. PICK q, c : q \in {sh, q1} /\ Wakes(c) /\ Put(t, Left(q), Return(threads[t], c))
  BY <1>1, WakingControls DEF FunctionReturns, Only
<1>3. DOMAIN q = ShellFields /\ q.fds = sh.fds
  BY <1>2 DEF Body, Shape, ShellOK, ShellFields
<1>4. Left(q).fds = sh.fds
  BY <1>3 DEF PopParams, PopScope, ShellFields
<1> DEFINE s == Left(q)
<1> HIDE DEF s
<1>5. Moves(t, s, Return(threads[t], c)) /\ s.fds = sh.fds
  BY <1>2, <1>4, PutMoves DEF Body, s
<1>6. Top(threads[t]).f \notin Keepers
  BY <1>1 DEF Keepers
<1> QED BY <1>1, <1>2, <1>5, <1>6, PopPlain

LEMMA UnwindPlain ==
    ASSUME Body, NEW t \in Thread, Unwind(t), Top(threads[t]).f # "redir" PROVE Plain
<1> DEFINE fr == Top(threads[t])
           s == Unwound(sh, fr, threads[t].c)
<1>1. /\ threads[t].stack # <<>> /\ Wakes(threads[t].c) /\ fr.f \in {"subshell", "source", "pipestatus"}
      /\ Moves(t, s, Return(threads[t], threads[t].c)) /\ DOMAIN sh = ShellFields
  BY Unwinds DEF ShellOK
<1>2. s.fds = sh.fds
  <2>1. \A a, b, d, e : [PopSnapshot(sh) EXCEPT !.opts = a, !.params = b, !.cwd = d].fds = sh.fds
    BY <1>1 DEF PopSnapshot, ShellFields
  <2>2. PopParams(sh).fds = sh.fds /\ \A a : [sh EXCEPT !.pst = a].fds = sh.fds
    BY <1>1 DEF PopParams, ShellFields
  <2> QED BY <1>1, <2>1, <2>2 DEF Unwound
<1> HIDE DEF s
<1>3. fr.f \notin Keepers
  BY <1>1 DEF Keepers
<1> QED BY <1>1, <1>2, <1>3, PopPlain

LEMMA MixedDonePlain == ASSUME Body, NEW t \in Thread, MixedDone(t) PROVE Plain
<1> DEFINE fr == Top(threads[t])
           kids == Range(fr.kids)
<1>1. /\ threads[t].stack # <<>> /\ fr.f = "mixed" /\ fr.left = {}
      /\ WellFormed(threads[t]) /\ ~Asleep(threads[t]) /\ DOMAIN threads = Thread
  BY Awake DEF MixedDone, Awaiting, Body, Shape
<1>2. \A u \in kids : u \in Thread => Asleep(threads[u])
  <2>1. Len(threads[t].stack) \in DOMAIN threads[t].stack /\ fr = threads[t].stack[Len(threads[t].stack)]
    BY <1>1, Popped DEF WellFormed, Top
  <2>2. KidsDone(fr)
    BY <1>1, <2>1 DEF Body, KidsAsleep
  <2> QED BY <1>1, <2>2 DEF KidsDone
<1>3. PICK codes, v : Collect(t, Return(threads[t], Ret(v)), kids) /\ sh' = [sh EXCEPT !.pst = codes]
  BY DEF MixedDone
<1> DEFINE s == [sh EXCEPT !.pst = codes]
           th == Return(threads[t], Ret(v))
<1>4. s.fds = sh.fds
  BY DEF Body, Shape, ShellOK, ShellFields
<1> HIDE DEF s, th, kids
<1>5. ASSUME NEW u \in Thread, u # t PROVE Calm(threads[u], threads'[u])
  <2>1. CASE u \in kids
    <3>1. threads'[u] = Idle
      BY <1>3, <1>5, <2>1 DEF Collect
    <3> QED BY <1>2, <1>5, <2>1, <3>1, IdleFits, CalmSleep DEF Body, Shape
  <2>2. CASE u \notin kids
    <3>1. threads'[u] = threads[u]
      BY <1>3, <1>5, <2>2 DEF Collect
    <3> QED BY <3>1, CalmSelf DEF Body, Shape
  <2> QED BY <2>1, <2>2
<1>6. Moves(t, s, th)
  BY <1>3, <1>5 DEF Moves, Collect, s, th
<1>7. fr.f \notin Keepers
  BY <1>1 DEF Keepers
<1> QED BY <1>1, <1>4, <1>6, <1>7, WakingControls, PopPlain DEF th

-----------------------------------------------------------------------------
(* Steps of one keeper: it comes, goes, or keeps other descriptors.        *)

\* Every descriptor is still in somebody's keeping.
Tended == Secure' /\ (Owned => Owned')

LEMMA OnePlace ==
    ASSUME Secure, NEW t \in Thread, NEW k, DOMAIN sh'.fds = Fd,
           \A u \in Thread : \A i : <<u, i>> # <<t, k>> => Same(u, i),
           \A fd \in Holds(t, k)' : fd \in Above /\ fd \in Holds(t, k) \cup FreeFds /\ sh'.fds[fd] # Closed,
           k \in DOMAIN threads'[t].stack => Notes(threads'[t].stack[k], sh'.fds),
           \A fd \in Std : sh'.fds[fd] # Closed,
           \A fd \in Above : sh'.fds[fd] # sh.fds[fd] => fd \in Holds(t, k) \cup FreeFds,
           \A fd \in Above : fd \in Holds(t, k) \cup FreeFds /\ Unread(sh'.fds[fd]) => fd \in Holds(t, k)'
    PROVE  Tended
<1>1. PICK G : G = Holds(t, k)
  OBVIOUS
<1> DEFINE M == {<<t, k>>}
<1>2. Secure'
  <2>1. \A u \in Thread : \A i : <<u, i>> \notin M => Same(u, i) /\ Holds(u, i) \cap G = {}
    BY <1>1 DEF Secure
  <2>2. \A u \in Thread : \A i : <<u, i>> \in M => u = t /\ i = k
    OBVIOUS
  <2> HIDE DEF M
  <2>3. \A u \in Thread : \A i : <<u, i>> \in M =>
          /\ \A fd \in Holds(u, i)' : fd \in Above /\ fd \in G \cup FreeFds /\ sh'.fds[fd] # Closed
          /\ i \in DOMAIN threads'[u].stack => Notes(threads'[u].stack[i], sh'.fds)
    BY <1>1, <2>2
  <2>4. \A u, v \in Thread : \A i, j : <<u, i>> \in M /\ <<v, j>> \in M /\ <<u, i>> # <<v, j>> =>
          Holds(u, i)' \cap Holds(v, j)' = {}
    BY <2>2
  <2>5. \A fd \in Above : sh'.fds[fd] # sh.fds[fd] => fd \in G \cup FreeFds
    BY <1>1
  <2> QED BY <2>1, <2>3, <2>4, <2>5, Exchange
<1>3. ASSUME Owned PROVE Owned'
  <2>1. \A u \in Thread : \A i : IF <<u, i>> \in M THEN Holds(u, i) \subseteq G ELSE Same(u, i)
    BY <1>1
  <2>2. \A fd \in Above : fd \in G \cup FreeFds /\ Unread(sh'.fds[fd]) =>
          \E u \in Thread : \E i : fd \in Holds(u, i)'
    BY <1>1
  <2>3. \A fd \in Above : sh'.fds[fd] # sh.fds[fd] => fd \in G \cup FreeFds
    BY <1>1
  <2> HIDE DEF M
  <2> QED BY <1>3, <2>1, <2>2, <2>3, ExchangeOwned
<1> QED BY <1>2, <1>3 DEF Tended

\* The places of a stack, as its top comes, goes or changes.
Elsewhere(t, k) == \A u \in Thread : \A i : <<u, i>> # <<t, k>> => Same(u, i)

\* Only the top of the stack of t, at place k, comes, goes or changes.
OnTop(t, k) == \A i : i # k => Same(t, i)

LEMMA OthersSame ==
    ASSUME NEW t \in Thread, NEW s, NEW th, Moves(t, s, th), NEW k, OnTop(t, k)
    PROVE  Elsewhere(t, k)
<1> SUFFICES ASSUME NEW u \in Thread, u # t PROVE \A i : Same(u, i)
  BY DEF Elsewhere, OnTop
<1>1. Steady(Keepers, threads[u].stack, threads'[u].stack)
  BY CalmKeeps DEF Moves
<1> QED BY <1>1, SteadySame

LEMMA AlikeSelf == \A fr : Alike(fr, fr)
BY DEF Alike

LEMMA PushSame ==
    ASSUME NEW t, IsSeq(threads[t].stack), NEW fr, threads'[t].stack = Append(threads[t].stack, fr),
           NEW k, k = Len(threads[t].stack) + 1
    PROVE  /\ OnTop(t, k)
           /\ Holds(t, k) = {} /\ Holds(t, k)' = Kept(fr)
           /\ k \in DOMAIN threads'[t].stack /\ threads'[t].stack[k] = fr
<1> DEFINE s == threads[t].stack
<1>1. /\ Len(s) \in Nat /\ DOMAIN s = 1..Len(s) /\ DOMAIN Append(s, fr) = 1..k
      /\ \A i \in 1..Len(s) : Append(s, fr)[i] = s[i]
      /\ Append(s, fr)[k] = fr
  BY Stack, Pushed
<1>2. k \notin DOMAIN s /\ k \in 1..k /\ \A i : i # k => (i \in 1..k <=> i \in DOMAIN s)
  BY <1>1
<1>3. k \in DOMAIN threads'[t].stack /\ threads'[t].stack[k] = fr
  BY <1>1, <1>2
<1>4. ASSUME NEW i, i # k PROVE Same(t, i)
  <2>1. i \in DOMAIN s => threads'[t].stack[i] = s[i]
    BY <1>1
  <2>2. i \in DOMAIN threads'[t].stack <=> i \in DOMAIN s
    BY <1>1, <1>2, <1>4
  <2> HIDE DEF s
  <2> QED BY <2>1, <2>2, AlikeSelf DEF Same, s
<1>5. Holds(t, k) = {} /\ Holds(t, k)' = Kept(fr)
  <2> QED BY <1>2, <1>3 DEF Holds
<1> QED BY <1>3, <1>4, <1>5 DEF OnTop

LEMMA PopSame ==
    ASSUME NEW t, IsSeq(threads[t].stack), threads[t].stack # <<>>,
           threads'[t].stack = Front(threads[t].stack), NEW k, k = Len(threads[t].stack)
    PROVE  /\ OnTop(t, k)
           /\ Holds(t, k) = Kept(Top(threads[t])) /\ Holds(t, k)' = {}
           /\ k \notin DOMAIN threads'[t].stack
           /\ k \in DOMAIN threads[t].stack /\ threads[t].stack[k] = Top(threads[t])
<1> DEFINE s == threads[t].stack
<1>1. /\ k \in Nat \ {0} /\ DOMAIN s = 1..k /\ DOMAIN Front(s) = 1..(k - 1)
      /\ \A i \in 1..(k - 1) : Front(s)[i] = s[i]
      /\ Last(s) = s[k]
  BY Stack, Popped
<1>2. k \in DOMAIN s /\ k \notin 1..(k - 1) /\ \A i : i # k => (i \in 1..(k - 1) <=> i \in DOMAIN s)
  BY <1>1
<1>3. k \notin DOMAIN threads'[t].stack
  BY <1>1, <1>2
<1>4. ASSUME NEW i, i # k PROVE Same(t, i)
  <2>1. i \in DOMAIN s => threads'[t].stack[i] = s[i]
    BY <1>1, <1>2, <1>4
  <2>2. i \in DOMAIN threads'[t].stack <=> i \in DOMAIN s
    BY <1>1, <1>2, <1>4
  <2> HIDE DEF s
  <2> QED BY <2>1, <2>2, AlikeSelf DEF Same, s
<1>5. Holds(t, k) = Kept(Top(threads[t])) /\ Holds(t, k)' = {}
  <2> QED BY <1>1, <1>2, <1>3 DEF Holds, Top
<1> QED BY <1>1, <1>2, <1>3, <1>4, <1>5 DEF Top, OnTop

LEMMA SwapSame ==
    ASSUME NEW t, IsSeq(threads[t].stack), threads[t].stack # <<>>, NEW fr,
           threads'[t].stack = Append(Front(threads[t].stack), fr), NEW k, k = Len(threads[t].stack)
    PROVE  /\ OnTop(t, k)
           /\ Holds(t, k) = Kept(Top(threads[t])) /\ Holds(t, k)' = Kept(fr)
           /\ k \in DOMAIN threads'[t].stack /\ threads'[t].stack[k] = fr
           /\ k \in DOMAIN threads[t].stack /\ threads[t].stack[k] = Top(threads[t])
<1> DEFINE s == threads[t].stack
           q == Front(s)
           r == Append(q, fr)
<1>1. /\ k \in Nat \ {0} /\ DOMAIN s = 1..k /\ Len(q) = k - 1 /\ IsSeq(q)
      /\ \A i \in 1..(k - 1) : q[i] = s[i]
      /\ Last(s) = s[k]
  BY Stack, Popped
<1>2. DOMAIN r = 1..(Len(q) + 1) /\ r[Len(q) + 1] = fr /\ \A i \in 1..Len(q) : r[i] = q[i]
  BY <1>1, Pushed
<1> HIDE DEF r, q
<1>3. DOMAIN r = DOMAIN s /\ r[k] = fr /\ \A i \in 1..(k - 1) : r[i] = s[i]
  BY <1>1, <1>2
<1>4. threads'[t].stack = r
  BY DEF r, q
<1>5. k \in DOMAIN s /\ \A i \in DOMAIN s : i # k => i \in 1..(k - 1)
  BY <1>1
<1> HIDE DEF s
<1>6. ASSUME NEW i, i # k PROVE Same(t, i)
  <2>1. i \in DOMAIN s => r[i] = s[i]
    BY <1>3, <1>5, <1>6
  <2> QED BY <1>3, <1>4, <2>1, AlikeSelf DEF Same, s
<1>7. Holds(t, k) = Kept(Top(threads[t])) /\ Holds(t, k)' = Kept(fr)
  BY <1>1, <1>3, <1>4, <1>5 DEF Holds, Top, s
<1> QED BY <1>1, <1>3, <1>4, <1>5, <1>6, <1>7 DEF Top, OnTop, s

\* A thread drops its frames for those of the exit; nothing it kept is anybody's now.
LEMMA DropSecure ==
    ASSUME Secure, NEW t \in Thread, NEW s, s.fds = sh.fds, NEW th, Moves(t, s, th),
           \A i \in DOMAIN th.stack : th.stack[i].f = "exit"
    PROVE  Secure'
<1>1. sh'.fds = sh.fds /\ threads'[t] = th
  BY DEF Moves
<1>2. \A i : Holds(t, i)' = {}
  <2>1. \A i \in DOMAIN th.stack : Kept(th.stack[i]) = {}
    BY KeptFrames DEF Keepers
  <2> QED BY <1>1, <2>1 DEF Holds
<1>3. \A u \in Thread : u # t => \A i : Same(u, i)
  <2> SUFFICES ASSUME NEW u \in Thread, u # t PROVE \A i : Same(u, i)
    OBVIOUS
  <2>1. Steady(Keepers, threads[u].stack, threads'[u].stack)
    BY CalmKeeps DEF Moves
  <2> QED BY <2>1, SteadySame
<1>4. \A u \in Thread : \A i : Holds(u, i)' \subseteq Holds(u, i)
  BY <1>2, <1>3, SameHolds
<1>5. ASSUME NEW u \in Thread, NEW i \in DOMAIN threads'[u].stack
      PROVE  Notes(threads'[u].stack[i], sh'.fds)
  <2>1. CASE u = t
    BY <1>1, <2>1 DEF Notes
  <2>2. CASE u # t
    <3> DEFINE p == threads[u].stack
               r == threads'[u].stack
    <3>1. CASE r[i].f \notin Keepers
      BY <3>1 DEF Notes, Keepers
    <3>2. CASE r[i].f \in Keepers
      <4>1. i \in DOMAIN p /\ Alike(p[i], r[i]) /\ Notes(p[i], sh.fds)
        BY <1>3, <2>2, <3>2 DEF Same, Secure
      <4>2. Notes(r[i], sh.fds)
        BY <4>1 DEF Alike, Notes
      <4> QED BY <1>1, <4>2
    <3> QED BY <3>1, <3>2
  <2> QED BY <2>1, <2>2
<1>6. \A u \in Thread : \A i : \A fd \in Holds(u, i)' : fd \in Above /\ sh'.fds[fd] # Closed
  BY <1>1, <1>4 DEF Secure
<1>7. \A u, v \in Thread : \A i, j : <<u, i>> # <<v, j>> => Holds(u, i)' \cap Holds(v, j)' = {}
  <2> SUFFICES ASSUME NEW u \in Thread, NEW v \in Thread, NEW i, NEW j, <<u, i>> # <<v, j>>
               PROVE  Holds(u, i)' \cap Holds(v, j)' = {}
    OBVIOUS
  <2>1. Holds(u, i) \cap Holds(v, j) = {}
    BY DEF Secure
  <2> QED BY <1>4, <2>1
<1> QED BY <1>1, <1>5, <1>6, <1>7 DEF Secure

LEMMA PushTended ==
    ASSUME Body, Secure, NEW t \in Thread, NEW s, NEW fr, NEW th, th.stack = Append(threads[t].stack, fr),
           Moves(t, s, th), DOMAIN s.fds = Fd, Notes(fr, s.fds),
           \A fd \in Kept(fr) : fd \in FreeFds /\ s.fds[fd] # Closed,
           \A fd \in Std : s.fds[fd] # Closed,
           \A fd \in Above : s.fds[fd] # sh.fds[fd] => fd \in FreeFds,
           \A fd \in FreeFds : Unread(s.fds[fd]) => fd \in Kept(fr)
    PROVE  Tended
<1>1. PICK k : k = Len(threads[t].stack) + 1
  OBVIOUS
<1>2. sh' = s /\ threads'[t].stack = Append(threads[t].stack, fr) /\ IsSeq(threads[t].stack)
  BY DEF Moves, Body, Shape, WellFormed
<1>3. /\ OnTop(t, k)
      /\ Holds(t, k) = {} /\ Holds(t, k)' = Kept(fr)
      /\ k \in DOMAIN threads'[t].stack /\ threads'[t].stack[k] = fr
  <2>1. OnTop(t, k)
    BY <1>1, <1>2, PushSame
  <2>2. Holds(t, k) = {}
    BY <1>1, <1>2, PushSame
  <2>3. Holds(t, k)' = Kept(fr)
    BY <1>1, <1>2, PushSame
  <2>4. k \in DOMAIN threads'[t].stack /\ threads'[t].stack[k] = fr
    BY <1>1, <1>2, PushSame
  <2> QED BY <2>1, <2>2, <2>3, <2>4
<1>4. \A u \in Thread : \A i : <<u, i>> # <<t, k>> => Same(u, i)
  BY <1>3, OthersSame DEF Elsewhere
<1> QED BY <1>2, <1>3, <1>4, FreeAbove, OnePlace

LEMMA PopTended ==
    ASSUME Body, Secure, NEW t \in Thread, NEW s, NEW th, threads[t].stack # <<>>,
           th.stack = Front(threads[t].stack), Moves(t, s, th), DOMAIN s.fds = Fd,
           \A fd \in Std : s.fds[fd] # Closed,
           \A fd \in Above : fd \notin Kept(Top(threads[t])) => s.fds[fd] = sh.fds[fd],
           \A fd \in Kept(Top(threads[t])) : ~Unread(s.fds[fd])
    PROVE  Tended
<1>1. PICK k : k = Len(threads[t].stack)
  OBVIOUS
<1>2. sh' = s /\ threads'[t].stack = Front(threads[t].stack) /\ IsSeq(threads[t].stack)
  BY DEF Moves, Body, Shape, WellFormed
<1>3. /\ OnTop(t, k)
      /\ Holds(t, k) = Kept(Top(threads[t])) /\ Holds(t, k)' = {}
      /\ k \notin DOMAIN threads'[t].stack
  BY <1>1, <1>2, PopSame
<1>4. \A u \in Thread : \A i : <<u, i>> # <<t, k>> => Same(u, i)
  BY <1>3, OthersSame DEF Elsewhere
<1>5. \A fd \in Above : fd \in Holds(t, k) \cup FreeFds => ~Unread(sh'.fds[fd])
  <2>1. ~Unread(Closed)
    BY DEF Unread, Closed
  <2> QED BY <1>2, <1>3, <2>1, FreeAbove
<1> QED BY <1>2, <1>3, <1>4, <1>5, OnePlace

LEMMA SwapTended ==
    ASSUME Body, Secure, NEW t \in Thread, NEW s, NEW fr, NEW th, threads[t].stack # <<>>,
           th.stack = Append(Front(threads[t].stack), fr), Moves(t, s, th), DOMAIN s.fds = Fd, Notes(fr, s.fds),
           \A fd \in Kept(fr) : fd \in Above /\ fd \in Kept(Top(threads[t])) \cup FreeFds /\ s.fds[fd] # Closed,
           \A fd \in Std : s.fds[fd] # Closed,
           \A fd \in Above : s.fds[fd] # sh.fds[fd] => fd \in Kept(Top(threads[t])) \cup FreeFds,
           \A fd \in Kept(Top(threads[t])) \cup FreeFds : Unread(s.fds[fd]) => fd \in Kept(fr)
    PROVE  Tended
<1>1. PICK k : k = Len(threads[t].stack)
  OBVIOUS
<1>2. sh' = s /\ threads'[t].stack = Append(Front(threads[t].stack), fr) /\ IsSeq(threads[t].stack)
  BY DEF Moves, Body, Shape, WellFormed
<1>3. /\ OnTop(t, k)
      /\ Holds(t, k) = Kept(Top(threads[t])) /\ Holds(t, k)' = Kept(fr)
      /\ k \in DOMAIN threads'[t].stack /\ threads'[t].stack[k] = fr
  <2>1. OnTop(t, k)
    BY <1>1, <1>2, SwapSame
  <2>2. Holds(t, k) = Kept(Top(threads[t]))
    BY <1>1, <1>2, SwapSame
  <2>3. Holds(t, k)' = Kept(fr)
    BY <1>1, <1>2, SwapSame
  <2>4. k \in DOMAIN threads'[t].stack /\ threads'[t].stack[k] = fr
    BY <1>1, <1>2, SwapSame
  <2> QED BY <2>1, <2>2, <2>3, <2>4
<1>4. \A u \in Thread : \A i : <<u, i>> # <<t, k>> => Same(u, i)
  BY <1>3, OthersSame DEF Elsewhere
<1> QED BY <1>2, <1>3, <1>4, OnePlace

LEMMA TopNotes ==
    ASSUME Body, Secure, NEW t \in Thread, threads[t].stack # <<>>
    PROVE  /\ Notes(Top(threads[t]), sh.fds) /\ FrameOK(Top(threads[t])) /\ WellFormed(threads[t])
           /\ \A fd \in Kept(Top(threads[t])) : fd \in Above /\ sh.fds[fd] # Closed
<1> DEFINE s == threads[t].stack
<1>1. IsSeq(s) /\ WellFormed(threads[t])
  BY DEF Body, Shape, WellFormed
<1>2. Len(s) \in DOMAIN s /\ Top(threads[t]) = s[Len(s)]
  BY <1>1, Popped DEF Top
<1>3. Holds(t, Len(s)) = Kept(Top(threads[t]))
  BY <1>2 DEF Holds
<1>4. FrameOK(Top(threads[t]))
  BY <1>1, <1>2 DEF WellFormed
<1> QED BY <1>1, <1>2, <1>3, <1>4 DEF Secure

\* A step of a thread whose top frame is a capture.
LEMMA CaptureFacts ==
    ASSUME Body, Secure, NEW t \in Thread, threads[t].stack # <<>>, Top(threads[t]).f = "capture"
    PROVE  LET fr == Top(threads[t])
           IN  /\ fr.rfd \in Above /\ sh.fds[fr.rfd].o = "reader" /\ fr.copy # fr.rfd
               /\ fr.copy # NoCopy => fr.copy \in Above /\ sh.fds[fr.copy] # Closed
               /\ Kept(fr) = {fr.rfd, fr.copy} \ {NoCopy} /\ fr.rfd # NoCopy
               /\ DOMAIN fr = {"f", "x", "rfd", "p", "copy", "text"}
               /\ WellFormed(threads[t])
<1> DEFINE fr == Top(threads[t])
<1>1. /\ fr.rfd \in Fd /\ sh.fds[fr.rfd].o = "reader" /\ fr.copy # fr.rfd
      /\ DOMAIN fr = {"f", "x", "rfd", "p", "copy", "text"} /\ WellFormed(threads[t])
  BY TopNotes DEF Notes, FrameOK
<1>2. Kept(fr) = {fr.rfd, fr.copy} \ {NoCopy} /\ fr.rfd # NoCopy
  BY <1>1, KeptFrames, StdAbove
<1>3. \A fd \in Kept(fr) : fd \in Above /\ sh.fds[fd] # Closed
  BY TopNotes
<1> QED BY <1>1, <1>2, <1>3

LEMMA CaptureRestoresTended == ASSUME Body, Secure, NEW t \in Thread, CaptureRestores(t) PROVE Tended
<1> DEFINE fr == Top(threads[t])
           gr == [fr EXCEPT !.copy = NoCopy]
           ends == [sh.fds EXCEPT ![1] = sh.fds[fr.copy], ![fr.copy] = Closed]
           s == [sh EXCEPT !.fds = ends]
           th == [threads[t] EXCEPT !.stack = Append(Front(@), gr)]
<1>1. threads[t].stack # <<>> /\ fr.f = "capture" /\ fr.copy # NoCopy
  BY DEF CaptureRestores, Captured, Returning, Throwing
<1>2. /\ fr.rfd \in Above /\ sh.fds[fr.rfd].o = "reader" /\ fr.copy # fr.rfd
      /\ fr.copy \in Above /\ sh.fds[fr.copy] # Closed
      /\ Kept(fr) = {fr.rfd, fr.copy} \ {NoCopy} /\ fr.rfd # NoCopy
      /\ DOMAIN fr = {"f", "x", "rfd", "p", "copy", "text"} /\ WellFormed(threads[t])
  BY <1>1, CaptureFacts
<1>3. Put(t, s, th)
  BY DEF CaptureRestores, Only
<1>4. Moves(t, s, th) /\ th.stack = Append(Front(threads[t].stack), gr) /\ s.fds = ends
  <2>1. th.stack = Append(Front(threads[t].stack), gr) /\ s.fds = ends
    BY <1>2 DEF WellFormed, ThreadFields, Body, Shape, ShellOK, ShellFields
  <2> HIDE DEF s, th
  <2> QED BY <1>3, <2>1, PutMoves DEF Body
<1>5. gr.f = "capture" /\ gr.rfd = fr.rfd /\ gr.copy = NoCopy
  BY <1>1, <1>2
<1>6. Kept(gr) = {fr.rfd}
  <2> HIDE DEF gr
  <2>1. Kept(gr) = {gr.rfd, gr.copy} \ {NoCopy}
    BY <1>5, KeptFrames
  <2> QED BY <1>2, <1>5, <2>1
<1>7. DOMAIN sh.fds = Fd /\ 1 \in Std /\ 1 \in Fd /\ fr.copy \in Fd /\ fr.copy # 1 /\ fr.rfd # 1 /\ fr.rfd \in Fd
  BY <1>2, StdAbove DEF Secure, Std, Above
<1>8. DOMAIN ends = Fd /\ \A fd \in Fd : ends[fd] = IF fd = fr.copy THEN Closed
                                                   ELSE IF fd = 1 THEN sh.fds[fr.copy] ELSE sh.fds[fd]
  BY <1>7
<1> HIDE DEF ends, s, th, gr
<1>9. Notes(gr, ends)
  BY <1>2, <1>5, <1>7, <1>8, StdAbove DEF Notes
<1>10. \A fd \in Std : ends[fd] # Closed
  BY <1>2, <1>8, StdAbove DEF Secure, Above
<1>11. \A fd \in Above : ends[fd] # sh.fds[fd] => fd \in Kept(fr)
  BY <1>1, <1>2, <1>7, <1>8, StdAbove DEF Above
<1>12. \A fd \in Kept(fr) \cup FreeFds : Unread(ends[fd]) => fd = fr.rfd
  <2>1. ~Unread(Closed)
    BY DEF Unread, Closed
  <2>2. \A fd \in FreeFds : fd \in Fd /\ fd # 1 /\ sh.fds[fd] = Closed
    BY <1>7, FreeAbove, StdAbove DEF Above
  <2> QED BY <1>2, <1>7, <1>8, <2>1, <2>2
<1>13. ends[fr.rfd] = sh.fds[fr.rfd] /\ fr.rfd \in Kept(fr) /\ sh.fds[fr.rfd] # Closed
  BY <1>2, <1>7, <1>8 DEF Closed
<1> QED BY <1>1, <1>2, <1>4, <1>6, <1>8, <1>9, <1>10, <1>11, <1>12, <1>13, SwapTended

LEMMA CaptureEndsTended ==
    ASSUME Body, Secure, NEW t \in Thread, CaptureEnds(t) \/ CaptureThrows(t) PROVE Tended
<1> DEFINE fr == Top(threads[t])
           q == CloseFds(sh, {fr.rfd})
           s == SetVar(q, fr.x, fr.text)
<1>1. threads[t].stack # <<>> /\ fr.f = "capture" /\ fr.copy = NoCopy
  BY DEF CaptureEnds, CaptureThrows, Returning, Throwing
<1>2. /\ fr.rfd \in Above /\ sh.fds[fr.rfd].o = "reader"
      /\ Kept(fr) = {fr.rfd, fr.copy} \ {NoCopy} /\ fr.rfd # NoCopy /\ WellFormed(threads[t])
  BY <1>1, CaptureFacts
<1>3. Kept(fr) = {fr.rfd}
  BY <1>1, <1>2
<1>4. q.fds = CloseAll(sh.fds, {fr.rfd}) /\ DOMAIN q = ShellFields /\ sh.fds = sh.fds
  BY DEF CloseFds, Body, Shape, ShellOK, ShellFields
<1>5. s.fds = CloseAll(sh.fds, {fr.rfd})
  <2> HIDE DEF q
  <2> QED BY <1>4 DEF SetVar, ShellFields
<1>6. PICK r, c : r \in {sh, s} /\ Wakes(c) /\ Put(t, r, Return(threads[t], c))
  <2>1. CASE CaptureEnds(t)
    BY <2>1, WakingControls DEF CaptureEnds, Only
  <2>2. CASE CaptureThrows(t)
    <3>1. Wakes(threads[t].c)
      BY <2>2 DEF CaptureThrows, Throwing, Wakes
    <3> QED BY <2>2, <3>1 DEF CaptureThrows, Only
  <2> QED BY <2>1, <2>2
<1> HIDE DEF q, s
<1>7. /\ DOMAIN r.fds = Fd
      /\ \A fd \in Fd : fd # fr.rfd => r.fds[fd] = sh.fds[fd]
      /\ r.fds[fr.rfd] \in {Closed, sh.fds[fr.rfd]}
  <2>1. \A fd \in Fd : s.fds[fd] = IF fd = fr.rfd THEN Closed ELSE sh.fds[fd]
    BY <1>5 DEF CloseAll
  <2>2. DOMAIN s.fds = Fd /\ fr.rfd \in Fd /\ DOMAIN sh.fds = Fd
    BY <1>2, <1>5 DEF CloseAll, Secure, Above
  <2> QED BY <1>6, <2>1, <2>2
<1>8. ~Unread(r.fds[fr.rfd])
  BY <1>2, <1>7 DEF Unread, Closed
<1>9. \A fd \in Std : r.fds[fd] # Closed
  BY <1>2, <1>7, StdAbove DEF Secure, Above
<1>10. \A fd \in Above : fd \notin Kept(fr) => r.fds[fd] = sh.fds[fd]
  BY <1>3, <1>7 DEF Above
<1> DEFINE th == Return(threads[t], c)
<1>11. th.stack = Front(threads[t].stack) /\ Moves(t, r, th)
  BY <1>1, <1>2, <1>6, PopFits, PutMoves DEF Body
<1> HIDE DEF th
<1> QED BY <1>1, <1>3, <1>7, <1>8, <1>9, <1>10, <1>11, PopTended

LEMMA NthFacts ==
    ASSUME NEW S, NEW n, Enough(S, n)
    PROVE  /\ n \in Nat
           /\ \A i \in 1..n : Nth(S, i) \in S
           /\ \A i, j \in 1..n : Nth(S, i) = Nth(S, j) => i = j
<1>1. n \in Nat /\ \A i \in 1..n : IsNth(S, i, Nth(S, i))
  BY DEF Enough, Nth
<1>2. \A i \in 1..n : Nth(S, i) \in S /\ Cardinality({y \in S : y < Nth(S, i)}) = i - 1
  BY <1>1 DEF IsNth
<1>3. ASSUME NEW i \in 1..n, NEW j \in 1..n, Nth(S, i) = Nth(S, j) PROVE i = j
  <2>1. i - 1 = j - 1
    BY <1>2, <1>3
  <2> QED BY <1>1, <2>1
<1> QED BY <1>1, <1>2, <1>3

LEMMA TwoFree ==
    ASSUME Enough(FreeFds, 2)
    PROVE  /\ Nth(FreeFds, 1) \in FreeFds /\ Nth(FreeFds, 2) \in FreeFds
           /\ Nth(FreeFds, 1) # Nth(FreeFds, 2)
<1>1. 1 \in 1..2 /\ 2 \in 1..2 /\ 1 # 2
  OBVIOUS
<1> QED BY <1>1, NthFacts

LEMMA CaptureTended == ASSUME Body, Secure, NEW t \in Thread, Capture(t) PROVE Tended
<1>1. PICK rfd, second, p : /\ rfd = Nth(FreeFds, 1) /\ second = Nth(FreeFds, 2) /\ p = Nth(FreeChans, 1)
  OBVIOUS
<1>2. PICK copy : copy = IF NativeCapture(Node(t).n) THEN NoCopy ELSE second
  OBVIOUS
<1> DEFINE fr == [f |-> "capture", x |-> Node(t).x, rfd |-> rfd, p |-> p, copy |-> copy, text |-> <<>>]
           ends == [fd \in Fd |-> IF fd = rfd THEN Reader(p)
                                  ELSE IF copy = NoCopy THEN sh.fds[fd]
                                  ELSE IF fd = copy THEN sh.fds[1] ELSE IF fd = 1 THEN Writer(p) ELSE sh.fds[fd]]
           s == [sh EXCEPT !.fds = ends]
<1>3. Enough(FreeFds, 2) /\ ~Asleep(threads[t])
  BY Awake DEF Capture, Evaluating
<1>4. \E n : Put(t, s, Call(threads[t], fr, n))
  BY <1>1, <1>2 DEF Capture
<1>5. PICK n : Put(t, s, Call(threads[t], fr, n))
  BY <1>4
<1>6. FrameOK(fr) /\ fr.f = "capture" /\ fr.rfd = rfd /\ fr.copy = copy
  BY DEF FrameOK
<1>7. s.fds = ends
  BY DEF Body, Shape, ShellOK, ShellFields
<1> HIDE DEF fr, s
<1>8. /\ rfd \in Above /\ rfd \in FreeFds /\ sh.fds[rfd] = Closed
      /\ copy # NoCopy => copy \in Above /\ copy \in FreeFds /\ copy # rfd /\ sh.fds[copy] = Closed
      /\ NoCopy # rfd /\ 1 \in Std /\ 1 \in Fd /\ sh.fds[1] # Closed
  <2>1. rfd \in FreeFds /\ second \in FreeFds /\ rfd # second
    BY <1>1, <1>3, TwoFree
  <2>2. rfd \in Above /\ second \in Above /\ sh.fds[rfd] = Closed /\ sh.fds[second] = Closed
    BY <2>1, FreeAbove
  <2>3. NoCopy # rfd /\ 1 \in Std /\ 1 \in Fd /\ sh.fds[1] # Closed
    BY <2>2, StdAbove DEF Std, Above, Secure
  <2> QED BY <1>2, <2>1, <2>2, <2>3
<1>9. Kept(fr) = {rfd, copy} \ {NoCopy}
  BY <1>6, KeptFrames
<1>10. Reader(p) # Closed /\ Writer(p) # Closed /\ Reader(p).o = "reader"
  BY DEF Reader, Writer, Closed
<1>11. Notes(fr, ends)
  <2>1. rfd \in Fd /\ ends[rfd].o = "reader" /\ copy # rfd
    BY <1>8, <1>10 DEF Above
  <2> HIDE DEF ends
  <2> QED BY <1>6, <2>1 DEF Notes
<1>12. \A fd \in Kept(fr) : fd \in FreeFds /\ ends[fd] # Closed
  BY <1>8, <1>9, <1>10 DEF Above
<1>13. \A fd \in Std : ends[fd] # Closed
  BY <1>8, <1>10, StdAbove DEF Secure, Above
<1>14. \A fd \in Fd : ends[fd] # sh.fds[fd] => fd \in {rfd, 1} \cup ({copy} \ {NoCopy})
  OBVIOUS
<1>15. DOMAIN ends = Fd
  OBVIOUS
<1> HIDE DEF ends
<1>16. \A fd \in Above : ends[fd] # sh.fds[fd] => fd \in FreeFds
  BY <1>8, <1>14, StdAbove DEF Above
<1>17. \A fd \in FreeFds : Unread(ends[fd]) => fd \in Kept(fr)
  <2>1. ~Unread(Closed)
    BY DEF Unread, Closed
  <2>2. \A fd \in FreeFds : fd \in Fd /\ sh.fds[fd] = Closed /\ fd # 1
    BY <1>8, FreeAbove DEF Above
  <2> QED BY <1>8, <1>9, <1>14, <2>1, <2>2
<1> DEFINE th == Call(threads[t], fr, n)
<1>18. th.stack = Append(threads[t].stack, fr) /\ Moves(t, s, th)
  <2>1. WellFormed(threads[t]) /\ fr.f # "stage"
    BY <1>6 DEF Body, Shape
  <2>2. Push(threads[t], fr, Eval(n)).stack = Append(threads[t].stack, fr)
    BY <1>6, <2>1, WakingControls, PushFits
  <2> QED BY <1>5, <2>2, PutMoves DEF Call, Push, Body
<1> HIDE DEF th
<1> QED BY <1>7, <1>11, <1>12, <1>13, <1>15, <1>16, <1>17, <1>18, PushTended

LEMMA GroupTended ==
    ASSUME Body, Secure, NEW t \in Thread, Group(t), Node(t).rs # <<>> PROVE Tended
<1> DEFINE fr == [f |-> "redir", saved |-> <<>>, opened |-> {}]
           c == [k |-> "redirect", rs |-> Node(t).rs, n |-> Node(t).n]
           th == [threads[t] EXCEPT !.stack = Append(@, fr), !.c = c]
<1>1. Put(t, sh, th)
  BY DEF Group, Only, WithRedirections
<1>2. fr.f = "redir" /\ fr.saved = <<>> /\ fr.opened = {}
  OBVIOUS
<1> HIDE DEF fr, c
<1>3. th.stack = Append(threads[t].stack, fr)
  BY DEF Body, Shape, WellFormed, ThreadFields
<1> HIDE DEF th
<1>4. Kept(fr) = {} /\ Copies(fr.saved) = {}
  BY <1>2, KeptFrames, EmptyStack DEF Copies
<1>5. Notes(fr, sh.fds)
  BY <1>2, <1>4, EmptyStack DEF Notes
<1>6. Moves(t, sh, th)
  BY <1>1, PutMoves DEF Body
<1>7. \A fd \in FreeFds : ~Unread(sh.fds[fd])
  BY DEF FreeFds, Unread, Closed
<1> QED BY <1>3, <1>4, <1>5, <1>6, <1>7, PushTended DEF Secure

LEMMA CloseAllFacts ==
    ASSUME NEW ends, NEW fds
    PROVE  /\ DOMAIN CloseAll(ends, fds) = Fd
           /\ \A fd \in Fd : CloseAll(ends, fds)[fd] = IF fd \in fds THEN Closed ELSE ends[fd]
BY DEF CloseAll

LEMMA UnwindTended ==
    ASSUME Body, Secure, NEW t \in Thread, Unwind(t), Top(threads[t]).f = "redir" PROVE Tended
<1> DEFINE fr == Top(threads[t])
           s == Unwound(sh, fr, threads[t].c)
           th == Return(threads[t], threads[t].c)
           back == PutBack(sh.fds, fr.saved)
           ends == CloseAll(back, fr.opened)
<1>1. /\ threads[t].stack # <<>> /\ Wakes(threads[t].c) /\ DOMAIN sh = ShellFields
      /\ Moves(t, s, th)
  BY Unwinds DEF ShellOK
<1>2. s.fds = ends
  <2>1. s = [sh EXCEPT !.fds = ends]
    BY DEF Unwound, Restore
  <2> HIDE DEF s, ends
  <2> QED BY <1>1, <2>1 DEF ShellFields
<1>3. /\ Notes(fr, sh.fds) /\ WellFormed(threads[t])
      /\ \A fd \in Kept(fr) : fd \in Above /\ sh.fds[fd] # Closed
      /\ Kept(fr) = fr.opened \cup Copies(fr.saved)
  BY <1>1, TopNotes, KeptFrames
<1>4. Backable(sh.fds, fr.saved, fr.opened)
  <2>1. \A i \in DOMAIN fr.saved : fr.saved[i].copy \in Copies(fr.saved)
    BY DEF Copies
  <2> QED BY <1>3, <2>1 DEF Notes, Backable, Secure
<1>5. /\ DOMAIN back = Fd
      /\ \A fd \in Std : back[fd] # Closed
      /\ \A fd \in Copies(fr.saved) : back[fd] = Closed
      /\ \A fd \in Above : fd \notin fr.opened \cup Copies(fr.saved) => back[fd] = sh.fds[fd]
  BY <1>4, PutBackFacts
<1> HIDE DEF back, s
<1>6. DOMAIN ends = Fd /\ \A fd \in Fd : ends[fd] = IF fd \in fr.opened THEN Closed ELSE back[fd]
  BY CloseAllFacts
<1> HIDE DEF ends
<1>7. \A fd \in Std : ends[fd] # Closed
  BY <1>3, <1>5, <1>6, StdAbove DEF Above
<1>8. \A fd \in Above : fd \notin Kept(fr) => ends[fd] = sh.fds[fd]
  BY <1>3, <1>5, <1>6 DEF Above
<1>9. \A fd \in Kept(fr) : ~Unread(ends[fd])
  BY <1>3, <1>5, <1>6 DEF Above, Unread, Closed
<1>10. th.stack = Front(threads[t].stack)
  BY <1>1, <1>3, PopFits
<1> HIDE DEF th
<1> QED BY <1>1, <1>2, <1>6, <1>7, <1>8, <1>9, <1>10, PopTended

-----------------------------------------------------------------------------
(* The ends of stages. What is asked of a run: its redirections replace only the
   standard descriptors or those that were closed, JavaScript stages do not throw
   with their ends open (src/executor/index.ts: executeJsStageRaw), and a stage
   starts a pipeline of its own only while the outer one still holds its ends. *)
Tame ==
    /\ \A t \in Thread : threads[t].c.k \in {"redirect", "exec"} /\ threads[t].c.rs # <<>> =>
         LET fd == Head(threads[t].c.rs).fd
         IN  fd \in Std \/ (threads[t].c.k = "redirect" /\ fd \in FreeFds)
    /\ \A t \in Thread : AtStageEnd(t) /\ Top(threads[t]).js => Settled(threads[t].c)
    /\ \A t \in Thread : Evaluating(t, "pipe") => \A i \in {1, 2} : sh.fds[threads[t].io[i]] # Closed

LEMMA StageTended ==
    ASSUME Body, Secure, NEW t \in Thread, AtStageEnd(t), threads'[t] = Idle,
           \A u \in Thread : u # t => Steady(Keepers, threads[u].stack, threads'[u].stack),
           sh'.fds = CloseAll(sh.fds, Top(threads[t]).close)
    PROVE  Tended
<1> DEFINE s == threads[t].stack
           close == Top(threads[t]).close
<1>1. DOMAIN s = {1} /\ Top(threads[t]) = s[1] /\ s[1].f = "stage"
  BY StageFacts
<1>2. Holds(t, 1) = close
  BY <1>1, KeptFrames DEF Holds
<1>3. DOMAIN threads'[t].stack = {}
  BY EmptyStack DEF Idle
<1>4. Holds(t, 1)' = {}
  BY <1>3 DEF Holds
<1>5. \A u \in Thread : \A i : <<u, i>> # <<t, 1>> => Same(u, i)
  <2>1. \A u \in Thread : u # t => \A i : Same(u, i)
    BY SteadySame
  <2>2. \A i : i # 1 => Same(t, i)
    BY <1>1, <1>3 DEF Same
  <2> QED BY <2>1, <2>2
<1>6. \A fd \in close : fd \in Above
  BY <1>2 DEF Secure
<1>7. DOMAIN sh'.fds = Fd /\ \A fd \in Fd : sh'.fds[fd] = IF fd \in close THEN Closed ELSE sh.fds[fd]
  BY CloseAllFacts
<1> HIDE DEF close
<1>8. \A fd \in Std : sh'.fds[fd] # Closed
  BY <1>6, <1>7, StdAbove DEF Secure, Above
<1>9. \A fd \in Above : sh'.fds[fd] # sh.fds[fd] => fd \in Holds(t, 1) \cup FreeFds
  BY <1>2, <1>7 DEF Above
<1>10. \A fd \in Above : fd \in Holds(t, 1) \cup FreeFds => ~Unread(sh'.fds[fd])
  BY <1>2, <1>7, FreeAbove DEF Above, Unread, Closed
<1> QED BY <1>3, <1>4, <1>5, <1>7, <1>8, <1>9, <1>10, OnePlace

LEMMA StageEndsTended == ASSUME Body, Secure, NEW t \in Thread, StageEnds(t) PROVE Tended
<1> DEFINE p == threads[t].par
           fr == Top(threads[p])
           at == CHOOSE i \in DOMAIN fr.kids : fr.kids[i] = t
           top == [fr EXCEPT !.left = @ \ {t}, !.codes[at] = StageCode(threads[t].c)]
           new == [threads[p] EXCEPT !.stack = Append(Front(@), top)]
<1>1. /\ AtStageEnd(t) /\ DOMAIN threads' = Thread /\ threads'[t] = Idle
      /\ \A u \in Thread : u # t /\ ~(u = p /\ Waits(p, t)) => threads'[u] = threads[u]
      /\ p \in Thread /\ p # t /\ Waits(p, t) => threads'[p] = new
  BY DEF StageEnds
<1>2. sh'.fds = CloseAll(sh.fds, Top(threads[t]).close)
  BY DEF StageEnds, CloseFds, Body, Shape, ShellOK, ShellFields
<1>3. ASSUME p \in Thread, p # t, Waits(p, t) PROVE Steady(Keepers, threads[p].stack, threads'[p].stack)
  <2>1. /\ WellFormed(threads[p]) /\ threads[p].stack # <<>> /\ FrameOK(fr) /\ fr.f = "mixed"
    BY <1>3, WaitsFacts
  <2>2. top.f = Last(threads[p].stack).f /\ top.f \notin Keepers /\ IsSeq(threads[p].stack)
    BY <2>1 DEF FrameOK, Keepers, Top, WellFormed
  <2> HIDE DEF top
  <2>3. new.stack = Append(Front(threads[p].stack), top)
    BY <2>1 DEF WellFormed, ThreadFields
  <2>4. Steady(Keepers, threads[p].stack, new.stack)
    BY <2>1, <2>2, <2>3, SteadySwap
  <2> HIDE DEF new, p
  <2> QED BY <1>1, <1>3, <2>4
<1> HIDE DEF p, new
<1>4. \A u \in Thread : u # t => Steady(Keepers, threads[u].stack, threads'[u].stack)
  BY <1>1, <1>3, SteadySelf
<1> QED BY <1>1, <1>2, <1>4, StageTended

LEMMA StageThrowsTended == ASSUME Body, Secure, Tame, NEW t \in Thread, StageThrows(t) PROVE Tended
<1> DEFINE p == threads[t].par
           c == threads[t].c
<1>1. /\ AtStageEnd(t) /\ threads'[t] = Idle
      /\ \A u \in Thread : u # t /\ u = p /\ Waits(p, t) => threads'[u] = Return(threads[p], c)
      /\ \A u \in Thread : u # t /\ ~(u = p /\ Waits(p, t)) =>
            threads'[u] = threads[u] \/ threads'[u] = [threads[u] EXCEPT !.par = 0]
  BY DEF StageThrows
<1>2. sh'.fds = CloseAll(sh.fds, Top(threads[t]).close)
  <2>1. ~Top(threads[t]).js
    BY DEF StageThrows, Tame
  <2>2. sh' = CloseFds(sh, Top(threads[t]).close)
    BY <2>1 DEF StageThrows
  <2> QED BY <2>2 DEF CloseFds, Body, Shape, ShellOK, ShellFields
<1>3. Wakes(c)
  BY <1>1 DEF AtStageEnd, Wakes
<1>4. ASSUME p \in Thread, p # t, Waits(p, t) PROVE Steady(Keepers, threads[p].stack, threads'[p].stack)
  <2>1. /\ WellFormed(threads[p]) /\ threads[p].stack # <<>> /\ Top(threads[p]).f = "mixed"
    BY <1>4, WaitsFacts
  <2>2. threads'[p].stack = Front(threads[p].stack)
    BY <1>1, <1>3, <1>4, <2>1, PopFits
  <2>3. IsSeq(threads[p].stack) /\ Last(threads[p].stack).f \notin Keepers
    BY <2>1 DEF WellFormed, Top, Keepers
  <2> QED BY <2>1, <2>2, <2>3, SteadyPop
<1>5. ASSUME NEW u \in Thread, u # t, ~(u = p /\ Waits(p, t))
      PROVE  Steady(Keepers, threads[u].stack, threads'[u].stack)
  <2>1. Calm(threads[u], threads[u]) /\ Calm(threads[u], [threads[u] EXCEPT !.par = 0])
    BY ParCalm, CalmSelf DEF Body, Shape
  <2>2. Calm(threads[u], threads'[u])
    BY <1>1, <1>5, <2>1
  <2> QED BY <2>2, CalmKeeps
<1> HIDE DEF p
<1>6. \A u \in Thread : u # t => Steady(Keepers, threads[u].stack, threads'[u].stack)
  BY <1>4, <1>5
<1> QED BY <1>1, <1>2, <1>6, StageTended

-----------------------------------------------------------------------------
(* Redirections: what one of them does to the descriptors and to the frame, when
   K are those the frame keeps and those that are free.                    *)

Filled(saved, opened) == [f |-> "redir", saved |-> saved, opened |-> opened]
Fine(fds, saved, opened, K) ==
    /\ DOMAIN fds = Fd
    /\ Notes(Filled(saved, opened), fds)
    /\ \A fd \in opened \cup Copies(saved) : fd \in K /\ fds[fd] # Closed
    /\ \A fd \in Std : fds[fd] # Closed
    /\ \A fd \in Above : fds[fd] # sh.fds[fd] => fd \in K
    /\ \A fd \in K : Unread(fds[fd]) => fd \in opened \cup Copies(saved)
FineAcc(acc, K) == DOMAIN acc = AccFields /\ Fine(acc.fds, acc.saved, acc.opened, K)

LEMMA FilledNotes ==
    ASSUME NEW saved, NEW opened, NEW fds
    PROVE  /\ Filled(saved, opened).f = "redir" /\ Filled(saved, opened).saved = saved
           /\ Filled(saved, opened).opened = opened
           /\ Notes(Filled(saved, opened), fds) <=>
                /\ IsSeq(saved)
                /\ \A i \in DOMAIN saved : saved[i].fd \in Std \cup opened
                /\ \A i, j \in DOMAIN saved : saved[i].copy = saved[j].copy => i = j
                /\ Copies(saved) \cap opened = {}
BY DEF Filled, Notes

LEMMA OpenFine ==
    ASSUME NEW K, K \subseteq Above, NEW fds, NEW saved, NEW opened, Fine(fds, saved, opened, K),
           NEW fd \in K, fds[fd] = Closed, NEW end, end # Closed
    PROVE  Fine([fds EXCEPT ![fd] = end], saved, opened \cup {fd}, K)
<1> DEFINE g == [fds EXCEPT ![fd] = end]
<1>1. DOMAIN fds = Fd /\ fd \in Fd /\ fd \notin Std /\ fd \notin opened \cup Copies(saved)
  BY StdAbove DEF Fine, Above
<1>2. DOMAIN g = Fd /\ g[fd] = end /\ \A x \in Fd : x # fd => g[x] = fds[x]
  BY <1>1
<1> HIDE DEF g
<1>3. Notes(Filled(saved, opened \cup {fd}), g)
  BY <1>1, FilledNotes DEF Fine
<1>4. \A x \in opened \cup {fd} \cup Copies(saved) : x \in K /\ g[x] # Closed
  BY <1>1, <1>2 DEF Fine, Above
<1>5. \A x \in Std : g[x] # Closed
  BY <1>1, <1>2, StdAbove DEF Fine
<1>6. \A x \in Above : g[x] # sh.fds[x] => x \in K
  BY <1>1, <1>2 DEF Fine, Above
<1>7. \A x \in K : Unread(g[x]) => x \in opened \cup {fd} \cup Copies(saved)
  BY <1>1, <1>2 DEF Fine, Above
<1> QED BY <1>2, <1>3, <1>4, <1>5, <1>6, <1>7 DEF Fine, g

LEMMA CopyFine ==
    ASSUME NEW K, K \subseteq Above, NEW fds, NEW saved, NEW opened, Fine(fds, saved, opened, K),
           NEW copy \in K, fds[copy] = Closed, NEW fd \in Std \cup opened, NEW end
    PROVE  LET one == [fd |-> fd, copy |-> copy]
               put == [fds EXCEPT ![copy] = fds[fd]]
           IN  /\ Fine(put, Append(saved, one), opened, K)
               /\ end # Closed => Fine([put EXCEPT ![fd] = end], Append(saved, one), opened, K)
<1> DEFINE one == [fd |-> fd, copy |-> copy]
           put == [fds EXCEPT ![copy] = fds[fd]]
           more == Append(saved, one)
<1>1. /\ DOMAIN fds = Fd /\ copy \in Fd /\ copy \notin Std /\ copy \notin opened \cup Copies(saved)
      /\ fd \in Fd /\ fds[fd] # Closed /\ fd # copy
  BY StdAbove DEF Fine, Above
<1>2. /\ IsSeq(saved)
      /\ \A i \in DOMAIN saved : saved[i].fd \in Std \cup opened
      /\ \A i, j \in DOMAIN saved : saved[i].copy = saved[j].copy => i = j
      /\ Copies(saved) \cap opened = {}
  BY FilledNotes DEF Fine
<1>3. one.fd = fd /\ one.copy = copy
  OBVIOUS
<1>4. DOMAIN put = Fd /\ put[copy] = fds[fd] /\ \A x \in Fd : x # copy => put[x] = fds[x]
  BY <1>1
<1> HIDE DEF one
<1>5. /\ IsSeq(more) /\ Len(saved) \in Nat /\ DOMAIN saved = 1..Len(saved)
      /\ DOMAIN more = 1..(Len(saved) + 1)
      /\ \A i \in 1..Len(saved) : more[i] = saved[i]
      /\ more[Len(saved) + 1] = one
  BY <1>2, Pushed, Stack
<1> HIDE DEF more, put
<1>6. \A i : i \in DOMAIN more <=> i \in DOMAIN saved \/ i = Len(saved) + 1
  BY <1>5
<1>7. Len(saved) + 1 \notin DOMAIN saved
  BY <1>5
<1>8. \A i \in DOMAIN saved : saved[i].copy \in Copies(saved)
  BY DEF Copies
<1>9. Copies(more) = Copies(saved) \cup {copy}
  <2>1. \A i \in DOMAIN more : more[i].copy \in Copies(saved) \cup {copy}
    BY <1>3, <1>5, <1>6, <1>8
  <2>2. \A x \in Copies(saved) \cup {copy} : \E i \in DOMAIN more : more[i].copy = x
    <3>1. \A x \in Copies(saved) : \E i \in DOMAIN saved : saved[i].copy = x
      BY DEF Copies
    <3> QED BY <1>3, <1>5, <1>6, <3>1
  <2> QED BY <2>1, <2>2 DEF Copies
<1>10. ASSUME NEW g, DOMAIN g = Fd, g[copy] = fds[fd], g[fd] # Closed,
              \A x \in Fd : x \notin {fd, copy} => g[x] = fds[x]
       PROVE  Fine(g, more, opened, K)
  <2>1. Notes(Filled(more, opened), g)
    <3>1. \A i \in DOMAIN more : more[i].fd \in Std \cup opened
      BY <1>2, <1>3, <1>5, <1>6
    <3>2. \A i, j \in DOMAIN more : more[i].copy = more[j].copy => i = j
      BY <1>1, <1>2, <1>3, <1>5, <1>6, <1>8
    <3>3. Copies(more) \cap opened = {}
      BY <1>1, <1>2, <1>9
    <3> QED BY <1>5, <3>1, <3>2, <3>3, FilledNotes
  <2>2. \A x \in Copies(more) \cup opened : x \in K /\ g[x] # Closed
    BY <1>1, <1>9, <1>10 DEF Fine, Above
  <2>3. \A x \in Std : g[x] # Closed
    BY <1>1, <1>10, StdAbove DEF Fine
  <2>4. \A x \in Above : g[x] # sh.fds[x] => x \in K
    <3>1. \A x \in Above : x = fd => x \in K
      BY StdAbove DEF Fine, Above
    <3> QED BY <1>10, <3>1 DEF Fine, Above
  <2>5. \A x \in K : Unread(g[x]) => x \in opened \cup Copies(more)
    <3>1. \A x \in K : x = fd => x \in opened
      BY StdAbove DEF Above
    <3> QED BY <1>9, <1>10, <3>1 DEF Fine, Above
  <2> QED BY <1>10, <2>1, <2>2, <2>3, <2>4, <2>5 DEF Fine
<1>11. Fine(put, more, opened, K)
  BY <1>1, <1>4, <1>10
<1> DEFINE over == [put EXCEPT ![fd] = end]
<1>12. /\ DOMAIN over = Fd /\ over[fd] = end /\ over[copy] = fds[fd]
       /\ \A x \in Fd : x \notin {fd, copy} => over[x] = fds[x]
  BY <1>1, <1>4
<1> HIDE DEF over
<1>13. end # Closed => Fine(over, more, opened, K)
  BY <1>10, <1>12
<1> QED BY <1>11, <1>13 DEF one, put, more, over

\* The descriptors but those of D are the same in a as in acc.
Past(acc, a, D) == \A x \in Fd \ D : a.fds[x] = acc.fds[x]

LEMMA DupIs ==
    ASSUME NEW acc, DOMAIN acc = AccFields, NEW fd, NEW end
    PROVE  LET a == Dup2(acc, fd, end)
           IN  /\ DOMAIN a = AccFields /\ a.saved = acc.saved /\ a.opened = acc.opened
               /\ a.fds = [acc.fds EXCEPT ![fd] = end] /\ a.c = acc.c
BY DEF Dup2, AccFields

LEMMA OverIs ==
    ASSUME NEW acc, DOMAIN acc = AccFields, NEW fd, NEW copy, NEW end
    PROVE  LET a == Over(acc, fd, copy, end)
               more == Append(acc.saved, [fd |-> fd, copy |-> copy])
               put == [acc.fds EXCEPT ![copy] = acc.fds[fd]]
           IN  /\ DOMAIN a = AccFields /\ a.opened = acc.opened
               /\ \/ a.fds = acc.fds /\ a.saved = acc.saved
                  \/ /\ acc.fds[fd] # Closed /\ a.saved = more
                     /\ a.fds = put \/ (end # Closed /\ a.fds = [put EXCEPT ![fd] = end])
<1> DEFINE more == Append(acc.saved, [fd |-> fd, copy |-> copy])
           put == [acc.fds EXCEPT ![copy] = acc.fds[fd]]
           d == Dup2(acc, copy, acc.fds[fd])
           b == [d EXCEPT !.saved = more]
           a == Over(acc, fd, copy, end)
<1>1. DOMAIN d = AccFields /\ d.fds = put /\ d.opened = acc.opened /\ d.saved = acc.saved
  BY DupIs
<1>2. \/ a = acc
      \/ a = Refuse(acc)
      \/ acc.fds[fd] # Closed /\ (a = Refuse(b) \/ (end # Closed /\ a = Dup2(b, fd, end)))
  BY <1>1 DEF Over
<1> HIDE DEF d, more, put, a
<1>3. DOMAIN b = AccFields /\ b.fds = put /\ b.opened = acc.opened /\ b.saved = more
  BY <1>1 DEF AccFields
<1> HIDE DEF b
<1>4. /\ \A e : DOMAIN e = AccFields => /\ DOMAIN Refuse(e) = AccFields /\ Refuse(e).fds = e.fds
                                        /\ Refuse(e).saved = e.saved /\ Refuse(e).opened = e.opened
  BY DEF Refuse, AccFields
<1>5. /\ DOMAIN Dup2(b, fd, end) = AccFields /\ Dup2(b, fd, end).saved = more /\ Dup2(b, fd, end).opened = acc.opened
      /\ Dup2(b, fd, end).fds = [put EXCEPT ![fd] = end]
  BY <1>3, DupIs
<1>6. /\ DOMAIN a = AccFields /\ a.opened = acc.opened
      /\ \/ a.fds = acc.fds /\ a.saved = acc.saved
         \/ /\ acc.fds[fd] # Closed /\ a.saved = more
            /\ a.fds = put \/ (end # Closed /\ a.fds = [put EXCEPT ![fd] = end])
  BY <1>2, <1>3, <1>4, <1>5
<1> QED BY <1>6 DEF a, more, put

LEMMA OverFine ==
    ASSUME NEW K, K \subseteq Above, NEW acc, FineAcc(acc, K), NEW copy \in K, acc.fds[copy] = Closed,
           NEW fd \in Fd, fd \in Std \cup acc.opened \/ acc.fds[fd] = Closed, NEW end
    PROVE  /\ FineAcc(Over(acc, fd, copy, end), K)
           /\ Past(acc, Over(acc, fd, copy, end), {fd, copy})
<1> DEFINE a == Over(acc, fd, copy, end)
           one == [fd |-> fd, copy |-> copy]
           more == Append(acc.saved, one)
           put == [acc.fds EXCEPT ![copy] = acc.fds[fd]]
           over == [put EXCEPT ![fd] = end]
<1>1. DOMAIN acc = AccFields /\ Fine(acc.fds, acc.saved, acc.opened, K) /\ DOMAIN acc.fds = Fd
  BY DEF FineAcc, Fine
<1>2. /\ DOMAIN a = AccFields /\ a.opened = acc.opened
      /\ \/ a.fds = acc.fds /\ a.saved = acc.saved
         \/ /\ acc.fds[fd] # Closed /\ a.saved = more
            /\ a.fds = put \/ (end # Closed /\ a.fds = over)
  BY <1>1, OverIs
<1>3. ASSUME fd \in Std \cup acc.opened
      PROVE  Fine(put, more, acc.opened, K) /\ (end # Closed => Fine(over, more, acc.opened, K))
  BY <1>1, <1>3, CopyFine
<1>4. \A x \in Fd \ {fd, copy} : put[x] = acc.fds[x] /\ over[x] = acc.fds[x]
  BY <1>1
<1> HIDE DEF a, more, put, over
<1>5. FineAcc(a, K)
  BY <1>1, <1>2, <1>3 DEF FineAcc
<1>6. Past(acc, a, {fd, copy})
  BY <1>2, <1>4 DEF Past
<1> QED BY <1>5, <1>6 DEF a

LEMMA OpensFine ==
    ASSUME NEW K, K \subseteq Above, NEW acc, FineAcc(acc, K), NEW fd \in K, acc.fds[fd] = Closed,
           NEW end, end # Closed
    PROVE  LET a == Open(acc, fd, end)
           IN  FineAcc(a, K) /\ Past(acc, a, {fd}) /\ fd \in a.opened
<1> DEFINE d == Dup2(acc, fd, end)
           a == [d EXCEPT !.opened = @ \cup {fd}]
<1>1. DOMAIN d = AccFields /\ d.saved = acc.saved /\ d.opened = acc.opened /\ d.fds = [acc.fds EXCEPT ![fd] = end]
  BY DupIs DEF FineAcc
<1>2. Fine([acc.fds EXCEPT ![fd] = end], acc.saved, acc.opened \cup {fd}, K)
  BY OpenFine DEF FineAcc
<1>3. \A x \in Fd \ {fd} : [acc.fds EXCEPT ![fd] = end][x] = acc.fds[x]
  BY DEF FineAcc, Fine
<1> HIDE DEF d
<1>4. DOMAIN a = AccFields /\ a.saved = acc.saved /\ a.opened = acc.opened \cup {fd} /\ a.fds = d.fds
  BY <1>1 DEF AccFields
<1> HIDE DEF a
<1>5. a = Open(acc, fd, end)
  BY DEF Open, a, d
<1> QED BY <1>1, <1>2, <1>3, <1>4, <1>5 DEF FineAcc, Past

LEMMA CreateFine ==
    ASSUME NEW K, NEW acc, FineAcc(acc, K), NEW f, NEW b, NEW p, NEW ls
    PROVE  /\ FineAcc(Create(acc, f, b), K)
           /\ Past(acc, Create(acc, f, b), {}) /\ Create(acc, f, b).opened = acc.opened
           /\ FineAcc(Source(acc, p, ls), K)
           /\ Past(acc, Source(acc, p, ls), {}) /\ Source(acc, p, ls).opened = acc.opened
           /\ FineAcc(Refuse(acc), K) /\ FineAcc([acc EXCEPT !.c = Ret(1)], K)
<1>1. DOMAIN acc = AccFields
  BY DEF FineAcc
<1>2. \A a : DOMAIN a = AccFields /\ a.fds = acc.fds /\ a.saved = acc.saved /\ a.opened = acc.opened =>
             FineAcc(a, K) /\ Past(acc, a, {})
  BY DEF FineAcc, Past
<1>3. /\ DOMAIN Create(acc, f, b) = AccFields /\ Create(acc, f, b).fds = acc.fds
      /\ Create(acc, f, b).saved = acc.saved /\ Create(acc, f, b).opened = acc.opened
  BY <1>1 DEF Create, AccFields
<1>4. /\ DOMAIN Source(acc, p, ls) = AccFields /\ Source(acc, p, ls).fds = acc.fds
      /\ Source(acc, p, ls).saved = acc.saved /\ Source(acc, p, ls).opened = acc.opened
  BY <1>1 DEF Source, AccFields
<1>5. \A c : LET a == [acc EXCEPT !.c = c]
             IN  DOMAIN a = AccFields /\ a.fds = acc.fds /\ a.saved = acc.saved /\ a.opened = acc.opened
  BY <1>1 DEF AccFields
<1>6. FineAcc(Refuse(acc), K) /\ FineAcc([acc EXCEPT !.c = Ret(1)], K)
  BY <1>2, <1>5 DEF Refuse
<1> QED BY <1>2, <1>3, <1>4, <1>6

LEMMA RedirectFine ==
    ASSUME NEW K, K \subseteq Above, NEW acc, FineAcc(acc, K),
           NEW one \in K, NEW two \in K, NEW three \in K, one # two, one # three, two # three,
           one = Nth(FreeFds, 1), two = Nth(FreeFds, 2), three = Nth(FreeFds, 3),
           acc.fds[one] = Closed, acc.fds[two] = Closed, acc.fds[three] = Closed,
           NEW r, r.fd \in Fd, r.fd \in Std \/ acc.fds[r.fd] = Closed
    PROVE  FineAcc(Redirect(acc, r), K)
<1> DEFINE p == Nth(FreeChans, 1)
           made == Create(acc, r.to, r.op \in {">", "&>"})
           file == Open(made, one, Into(r.to))
           text == Source(acc, p, r.text)
           lines == Source(acc, p, Lines[r.to])
           source == Open(lines, one, Reader(p))
           both == Over(file, 1, two, Into(r.to))
           R == Redirect(acc, r)
<1>1. \/ R = Over(text, r.fd, two, Reader(p))
      \/ R = [acc EXCEPT !.c = Ret(1)] \/ R = acc \/ R = Refuse(acc)
      \/ R = Over(file, r.fd, two, Into(r.to))
      \/ R = Over(both, 2, three, Into(r.to))
      \/ R = Over(source, r.fd, two, Reader(p))
      \/ R = Over(acc, r.fd, two, sh.fds[r.num])
  BY DEF Redirect
<1>2. /\ Into(r.to) # Closed /\ Reader(p) # Closed /\ 1 \in Std /\ 2 \in Std /\ 1 \in Fd /\ 2 \in Fd
      /\ \A x \in K : x \notin Std /\ x \in Fd
  BY StdAbove DEF Into, Reader, Closed, Std, Above
<1>3. /\ FineAcc(made, K) /\ Past(acc, made, {}) /\ FineAcc(text, K) /\ Past(acc, text, {})
      /\ FineAcc(lines, K) /\ Past(acc, lines, {})
      /\ FineAcc(Refuse(acc), K) /\ FineAcc([acc EXCEPT !.c = Ret(1)], K)
  BY CreateFine
<1> HIDE DEF made, lines, text, R
<1>4. made.fds[one] = Closed /\ lines.fds[one] = Closed
  BY <1>2, <1>3 DEF Past
<1>5. FineAcc(file, K) /\ Past(made, file, {one}) /\ one \in file.opened
  BY <1>2, <1>3, <1>4, OpensFine
<1>6. FineAcc(source, K) /\ Past(lines, source, {one}) /\ one \in source.opened
  BY <1>2, <1>3, <1>4, OpensFine
<1> HIDE DEF file, source
<1>7. /\ text.fds[two] = Closed
      /\ file.fds[two] = Closed /\ file.fds[three] = Closed /\ source.fds[two] = Closed
  BY <1>2, <1>3, <1>5, <1>6 DEF Past
<1>8. /\ r.fd \in Std \/ text.fds[r.fd] = Closed
      /\ r.fd \in Std \cup file.opened \/ file.fds[r.fd] = Closed
      /\ r.fd \in Std \cup source.opened \/ source.fds[r.fd] = Closed
  BY <1>2, <1>3, <1>5, <1>6 DEF Past
<1>9. FineAcc(both, K) /\ Past(file, both, {1, two})
  BY <1>2, <1>5, <1>7, OverFine
<1> HIDE DEF both
<1>10. both.fds[three] = Closed
  BY <1>2, <1>7, <1>9 DEF Past
<1>11. FineAcc(Over(both, 2, three, Into(r.to)), K)
  BY <1>2, <1>9, <1>10, OverFine
<1>12. FineAcc(Over(text, r.fd, two, Reader(p)), K)
  BY <1>3, <1>7, <1>8, OverFine
<1>13. FineAcc(Over(file, r.fd, two, Into(r.to)), K)
  BY <1>5, <1>7, <1>8, OverFine
<1>14. FineAcc(Over(source, r.fd, two, Reader(p)), K)
  BY <1>6, <1>7, <1>8, OverFine
<1>15. FineAcc(Over(acc, r.fd, two, sh.fds[r.num]), K)
  BY OverFine
<1> QED BY <1>1, <1>3, <1>11, <1>12, <1>13, <1>14, <1>15 DEF R

LEMMA RedirectNextTended ==
    ASSUME Body, Secure, Tame, NEW t \in Thread, RedirectNext(t) PROVE Tended
<1> DEFINE c == threads[t].c
           d == [c EXCEPT !.rs = Tail(@)]
           top == Top(threads[t])
           from == Acc(top, d)
           acc == Redirect(from, Head(c.rs))
           fr == [f |-> "redir", saved |-> acc.saved, opened |-> acc.opened]
           s == [sh EXCEPT !.fds = acc.fds, !.made = acc.made]
           th == Placed(threads[t], Append(Front(threads[t].stack), fr), acc.c)
<1>1. /\ threads[t].stack # <<>> /\ top.f = "redir" /\ c.k = "redirect" /\ c.rs # <<>>
      /\ WellFormed(threads[t])
  BY DEF RedirectNext, Controlled, Body, Shape, WellFormed, Top
<1>2. Put(t, s, th) /\ Enough(FreeFds, 3)
  BY DEF RedirectNext, Apply, Placed
<1>3. PICK one, two, three : one = Nth(FreeFds, 1) /\ two = Nth(FreeFds, 2) /\ three = Nth(FreeFds, 3)
  OBVIOUS
<1>4. /\ one \in FreeFds /\ two \in FreeFds /\ three \in FreeFds
      /\ one # two /\ one # three /\ two # three
  <2>1. 1 \in 1..3 /\ 2 \in 1..3 /\ 3 \in 1..3 /\ 1 # 2 /\ 1 # 3 /\ 2 # 3
    OBVIOUS
  <2> QED BY <1>2, <1>3, <2>1, NthFacts
<1>5. PICK K : K = Kept(top) \cup FreeFds
  OBVIOUS
<1>6. /\ from.fds = sh.fds /\ from.saved = top.saved /\ from.opened = top.opened /\ DOMAIN from = AccFields
      /\ from.c = d
  BY DEF Acc, AccFields
<1>7. /\ Notes(top, sh.fds) /\ Kept(top) = top.opened \cup Copies(top.saved)
      /\ \A fd \in Kept(top) : fd \in Above /\ sh.fds[fd] # Closed
  BY <1>1, TopNotes, KeptFrames
<1>8. K \subseteq Above /\ \A fd \in FreeFds : fd \in Fd /\ sh.fds[fd] = Closed
  BY <1>5, <1>7, FreeAbove DEF Above
<1>9. FineAcc(from, K)
  <2>1. Notes(Filled(top.saved, top.opened), sh.fds)
    <3>1. PICK saved, opened : saved = top.saved /\ opened = top.opened
      OBVIOUS
    <3>2. /\ IsSeq(saved)
          /\ \A i \in DOMAIN saved : saved[i].fd \in Std \cup opened
          /\ \A i, j \in DOMAIN saved : saved[i].copy = saved[j].copy => i = j
          /\ Copies(saved) \cap opened = {}
      BY <1>1, <1>7, <3>1 DEF Notes
    <3>3. Notes(Filled(saved, opened), sh.fds)
      BY <3>2, FilledNotes
    <3> QED BY <3>1, <3>3
  <2>2. \A fd \in K : Unread(sh.fds[fd]) => fd \in top.opened \cup Copies(top.saved)
    BY <1>5, <1>7, <1>8 DEF Unread, Closed
  <2>3. Fine(sh.fds, top.saved, top.opened, K)
    BY <1>5, <1>7, <2>1, <2>2 DEF Fine, Secure
  <2> HIDE DEF from
  <2> QED BY <1>6, <2>3 DEF FineAcc
<1>10. LET r == Head(c.rs) IN r.fd \in Fd /\ (r.fd \in Std \/ sh.fds[r.fd] = Closed)
  <2>1. Head(c.rs).fd \in Std \/ Head(c.rs).fd \in FreeFds
    BY <1>1 DEF Tame
  <2> QED BY <1>8, <2>1, StdAbove
<1> HIDE DEF from
<1>11. FineAcc(acc, K)
  <2>1. /\ one \in K /\ two \in K /\ three \in K
        /\ from.fds[one] = Closed /\ from.fds[two] = Closed /\ from.fds[three] = Closed
    BY <1>4, <1>5, <1>6, <1>8
  <2>2. Head(c.rs).fd \in Fd /\ (Head(c.rs).fd \in Std \/ from.fds[Head(c.rs).fd] = Closed)
    BY <1>6, <1>10
  <2> QED BY <1>3, <1>4, <1>8, <1>9, <2>1, <2>2, RedirectFine
<1>12. acc.c \in Controls(d)
  BY <1>6, RedirectFrom DEF From
<1>13. d.k = "redirect"
  BY <1>1
<1> HIDE DEF acc, d
<1>14. /\ fr = Filled(acc.saved, acc.opened) /\ FrameOK(fr)
       /\ fr.f = "redir" /\ fr.opened = acc.opened /\ fr.saved = acc.saved
  BY DEF Filled, FrameOK
<1>15. s.fds = acc.fds
  BY DEF Body, Shape, ShellOK, ShellFields
<1> HIDE DEF s, fr
<1>16. Wakes(acc.c) \/ acc.c.k = "redirect"
  BY <1>12, <1>13, WakingControls DEF Controls
<1>17. th.stack = Append(Front(threads[t].stack), fr)
  BY <1>1, <1>14, <1>16, SwapFits DEF Top
<1> HIDE DEF th
<1>18. Moves(t, s, th)
  BY <1>2, PutMoves DEF Body
<1>19. Kept(fr) = acc.opened \cup Copies(acc.saved)
  BY <1>14, KeptFrames
<1>20. Fine(acc.fds, acc.saved, acc.opened, K)
  BY <1>11 DEF FineAcc
<1>21. DOMAIN s.fds = Fd /\ Notes(fr, s.fds)
  BY <1>14, <1>15, <1>20 DEF Fine
<1>22. \A fd \in Kept(fr) : fd \in Above /\ fd \in Kept(top) \cup FreeFds /\ s.fds[fd] # Closed
  BY <1>5, <1>8, <1>15, <1>19, <1>20 DEF Fine
<1>23. /\ \A fd \in Std : s.fds[fd] # Closed
       /\ \A fd \in Above : s.fds[fd] # sh.fds[fd] => fd \in Kept(top) \cup FreeFds
       /\ \A fd \in Kept(top) \cup FreeFds : Unread(s.fds[fd]) => fd \in Kept(fr)
  BY <1>5, <1>15, <1>19, <1>20 DEF Fine
<1> QED BY <1>1, <1>17, <1>18, <1>21, <1>22, <1>23, SwapTended

\* A step that leaves the keepers alone, and the descriptors above 2.
LEMMA StdTended ==
    ASSUME Secure, \A u \in Thread : Steady(Keepers, threads[u].stack, threads'[u].stack),
           DOMAIN sh'.fds = Fd, \A fd \in Std : sh'.fds[fd] # Closed,
           \A fd \in Above : sh'.fds[fd] = sh.fds[fd]
    PROVE  Tended
<1>1. \A u \in Thread : \A i : Same(u, i)
  BY SteadySame
<1>2. Secure'
  <2> DEFINE M == {}
             G == {}
  <2>1. \A u \in Thread : \A i : <<u, i>> \notin M => Same(u, i) /\ Holds(u, i) \cap G = {}
    BY <1>1
  <2>2. \A u \in Thread : \A i : <<u, i>> \notin M
    OBVIOUS
  <2> HIDE DEF M, G
  <2> QED BY <2>1, <2>2, Exchange
<1>3. ASSUME Owned PROVE Owned'
  <2>1. \A u \in Thread : \A i : Holds(u, i)' = Holds(u, i)
    BY <1>1, SameHolds
  <2> QED BY <1>3, <2>1 DEF Owned
<1> QED BY <1>2, <1>3 DEF Tended

\* What exec may make of the descriptors.
Reopened(fds) == DOMAIN fds = Fd /\ \A fd \in Fd : fds[fd] # sh.fds[fd] => fd \in Std /\ fds[fd] # Closed

LEMMA ApplyExecReopens ==
    ASSUME DOMAIN sh.fds = Fd, NEW acc, DOMAIN acc = AccFields, acc.fds = sh.fds, NEW r, r.fd \in Std
    PROVE  Reopened(ApplyExec(acc, r).fds)
<1> DEFINE p == Nth(FreeChans, 1)
           file == Create(acc, r.to, r.op \in {">", "&>"})
           lines == Source(acc, p, Lines[r.to])
           first == Dup2(file, 1, Into(r.to))
           R == ApplyExec(acc, r)
<1>1. \/ R = Dup2(file, r.fd, Into(r.to))
      \/ R = Dup2(first, 2, Into(r.to))
      \/ R = Refuse(acc) \/ R = acc
      \/ R = Dup2(lines, r.fd, Reader(p))
      \/ sh.fds[r.num] # Closed /\ R = Dup2(acc, r.fd, sh.fds[r.num])
  BY DEF ApplyExec
<1>2. Into(r.to) # Closed /\ Reader(p) # Closed /\ 1 \in Std /\ 2 \in Std /\ Std \subseteq Fd
  BY StdAbove DEF Into, Reader, Closed, Std
<1>3. /\ DOMAIN file = AccFields /\ file.fds = sh.fds /\ DOMAIN lines = AccFields /\ lines.fds = sh.fds
      /\ Refuse(acc).fds = sh.fds
  BY DEF Create, Source, Refuse, AccFields
<1> HIDE DEF file, lines, R
<1>4. ASSUME NEW a, DOMAIN a = AccFields, Reopened(a.fds), NEW fd \in Std, NEW end, end # Closed
      PROVE  DOMAIN Dup2(a, fd, end) = AccFields /\ Reopened(Dup2(a, fd, end).fds)
  <2>1. DOMAIN Dup2(a, fd, end) = AccFields /\ Dup2(a, fd, end).fds = [a.fds EXCEPT ![fd] = end]
    BY <1>4, DupIs
  <2>2. Reopened([a.fds EXCEPT ![fd] = end])
    BY <1>2, <1>4 DEF Reopened
  <2> QED BY <2>1, <2>2
<1>5. Reopened(sh.fds)
  BY DEF Reopened
<1>6. DOMAIN first = AccFields /\ Reopened(first.fds)
  BY <1>2, <1>3, <1>4, <1>5
<1> HIDE DEF first, p
<1>7. Reopened(R.fds)
  BY <1>1, <1>2, <1>3, <1>4, <1>5, <1>6
<1> QED BY <1>7 DEF R

LEMMA ExecAppliesTended ==
    ASSUME Body, Secure, Tame, NEW t \in Thread, ExecApplies(t) PROVE Tended
<1> DEFINE c == threads[t].c
           d == [c EXCEPT !.rs = Tail(@)]
           from == Acc(NoSaves, d)
           acc == ApplyExec(from, Head(c.rs))
           s == [sh EXCEPT !.fds = acc.fds, !.made = acc.made]
           th == Become(threads[t], acc.c)
<1>1. c.k = "exec" /\ c.rs # <<>> /\ WellFormed(threads[t])
  BY DEF ExecApplies, Controlled, Body, Shape
<1>2. Put(t, s, th)
  BY DEF ExecApplies, Apply
<1>3. DOMAIN from = AccFields /\ from.fds = sh.fds /\ from.c = d
  BY DEF Acc, AccFields
<1>4. Head(c.rs).fd \in Std
  BY <1>1 DEF Tame
<1> HIDE DEF from
<1>5. Reopened(acc.fds) /\ acc.c \in Controls(d)
  BY <1>3, <1>4, ApplyExecReopens, ApplyExecFrom DEF Secure, From
<1>6. Wakes(d)
  BY <1>1 DEF Wakes
<1> HIDE DEF acc, d
<1>7. s.fds = acc.fds
  BY DEF Body, Shape, ShellOK, ShellFields
<1>8. Wakes(acc.c)
  BY <1>5, <1>6, WakingControls DEF Controls
<1>9. th.stack = threads[t].stack
  BY <1>1, <1>8, BecomeFits
<1> HIDE DEF s, th
<1>10. Moves(t, s, th)
  BY <1>2, PutMoves DEF Body
<1>11. \A u \in Thread : Steady(Keepers, threads[u].stack, threads'[u].stack)
  BY <1>9, <1>10, CalmKeeps, SteadySelf DEF Moves
<1>12. sh'.fds = acc.fds
  BY <1>7, <1>10 DEF Moves
<1>13. DOMAIN sh'.fds = Fd /\ \A fd \in Std : sh'.fds[fd] # Closed
  BY <1>5, <1>12, StdAbove DEF Reopened, Secure
<1>14. \A fd \in Above : sh'.fds[fd] = sh.fds[fd]
  BY <1>5, <1>12 DEF Reopened, Above
<1> QED BY <1>11, <1>13, <1>14, StdTended

-----------------------------------------------------------------------------
(* A mixed pipeline of k stages: the ends of its pipes, and whose they are. *)

ReadEnd(i) == Nth(FreeFds, 2 * i - 1)
WriteEnd(i) == Nth(FreeFds, 2 * i)
Between(k) == 1..(k - 1)
\* The ends of stage i: of the pipe before it and of the pipe after it.
Mine(k, i) == {ReadEnd(j) : j \in {i - 1} \cap Between(k)} \cup {WriteEnd(j) : j \in {i} \cap Between(k)}

LEMMA EndsDistinct ==
    ASSUME NEW k \in Nat, Enough(FreeFds, 2 * (k - 1))
    PROVE  /\ k >= 1
           /\ \A i \in Between(k) : ReadEnd(i) \in FreeFds /\ WriteEnd(i) \in FreeFds
           /\ \A i, j \in Between(k) : /\ ReadEnd(i) = ReadEnd(j) => i = j
                                       /\ WriteEnd(i) = WriteEnd(j) => i = j
                                       /\ ReadEnd(i) # WriteEnd(j)
<1> DEFINE n == 2 * (k - 1)
<1>1. /\ n \in Nat /\ \A i \in 1..n : Nth(FreeFds, i) \in FreeFds
      /\ \A i, j \in 1..n : Nth(FreeFds, i) = Nth(FreeFds, j) => i = j
  BY NthFacts
<1>2. k >= 1 /\ \A i \in Between(k) : i \in Nat /\ 2 * i - 1 \in 1..n /\ 2 * i \in 1..n
  BY <1>1 DEF Between
<1>3. \A i, j \in Nat : 2 * i - 1 # 2 * j /\ (2 * i - 1 = 2 * j - 1 => i = j) /\ (2 * i = 2 * j => i = j)
  OBVIOUS
<1> HIDE DEF n
<1> QED BY <1>1, <1>2, <1>3 DEF ReadEnd, WriteEnd

LEMMA MineDisjoint ==
    ASSUME NEW k \in Nat, Enough(FreeFds, 2 * (k - 1))
    PROVE  /\ \A i : Mine(k, i) \subseteq FreeFds
           /\ \A i, j \in 1..k : i # j => Mine(k, i) \cap Mine(k, j) = {}
<1>1. \A i, x : x \in Mine(k, i) <=> \/ i - 1 \in Between(k) /\ x = ReadEnd(i - 1)
                                     \/ i \in Between(k) /\ x = WriteEnd(i)
  BY DEF Mine
<1>2. \A i : Mine(k, i) \subseteq FreeFds
  BY <1>1, EndsDistinct
<1>3. ASSUME NEW i \in 1..k, NEW j \in 1..k, i # j, NEW x, x \in Mine(k, i), x \in Mine(k, j) PROVE FALSE
  <2>1. i - 1 # j - 1
    BY <1>3
  <2> QED BY <1>1, <1>3, <2>1, EndsDistinct
<1> QED BY <1>2, <1>3

\* The descriptors of the process when the pipes are made: only the stages S, which
\* run in it, have their ends there.
Piped(fds, k, S) ==
    /\ DOMAIN fds = Fd
    /\ \A i \in Between(k) : /\ i + 1 \in S => fds[ReadEnd(i)] # Closed
                             /\ i \in S => fds[WriteEnd(i)] # Closed
    /\ \A fd \in Fd : fds[fd] # sh.fds[fd] =>
         \E i \in Between(k) : (i + 1 \in S /\ fd = ReadEnd(i)) \/ (i \in S /\ fd = WriteEnd(i))
Stage(s, close) == DOMAIN s = {1} /\ s[1].f = "stage" /\ s[1].close = close

\* What changes becomes an end of one of those stages.
Handed(fds, k, S) ==
    /\ \A i \in S : \A fd \in Mine(k, i) : fds[fd] # Closed
    /\ \A fd \in Fd : fds[fd] # sh.fds[fd] => fd \in FreeFds /\ \E i \in S : fd \in Mine(k, i)

LEMMA PipedMine ==
    ASSUME NEW k \in Nat, Enough(FreeFds, 2 * (k - 1)), NEW S, S \subseteq 1..k, NEW fds, Piped(fds, k, S), Secure
    PROVE  Handed(fds, k, S)
<1>1. \A i, x : x \in Mine(k, i) <=> \/ i - 1 \in Between(k) /\ x = ReadEnd(i - 1)
                                     \/ i \in Between(k) /\ x = WriteEnd(i)
  BY DEF Mine
<1>2. ASSUME NEW i \in S, NEW fd \in Mine(k, i) PROVE fds[fd] # Closed
  <2>1. CASE i - 1 \in Between(k) /\ fd = ReadEnd(i - 1)
    <3>1. (i - 1) + 1 = i
      OBVIOUS
    <3> QED BY <2>1, <3>1 DEF Piped
  <2>2. CASE i \in Between(k) /\ fd = WriteEnd(i)
    BY <2>2 DEF Piped
  <2> QED BY <1>1, <1>2, <2>1, <2>2
<1>3. ASSUME NEW fd \in Fd, fds[fd] # sh.fds[fd] PROVE fd \in FreeFds /\ \E i \in S : fd \in Mine(k, i)
  <2>1. PICK i \in Between(k) : (i + 1 \in S /\ fd = ReadEnd(i)) \/ (i \in S /\ fd = WriteEnd(i))
    BY <1>3 DEF Piped
  <2>2. fd \in FreeFds
    BY <2>1, EndsDistinct
  <2>3. CASE i + 1 \in S /\ fd = ReadEnd(i)
    <3>1. PICK j : j = i + 1 /\ j - 1 = i
      BY DEF Between
    <3>2. j \in S /\ fd \in Mine(k, j)
      BY <1>1, <2>3, <3>1
    <3> QED BY <2>2, <3>2
  <2>4. CASE i \in S /\ fd = WriteEnd(i)
    BY <1>1, <2>2, <2>4
  <2> QED BY <2>1, <2>3, <2>4
<1> QED BY <1>2, <1>3 DEF Handed

\* New keepers at the places M, where there was none.
Hires(M) ==
    /\ DOMAIN sh'.fds = Fd
    /\ \A fd \in Std : sh'.fds[fd] # Closed
    /\ \A fd \in Above : sh'.fds[fd] # sh.fds[fd] => fd \in FreeFds
    /\ \A u \in Thread : \A i : <<u, i>> \notin M => Same(u, i)
    /\ \A u \in Thread : \A i : <<u, i>> \in M =>
         /\ Holds(u, i) = {}
         /\ \A fd \in Holds(u, i)' : fd \in Above /\ fd \in FreeFds /\ sh'.fds[fd] # Closed
         /\ i \in DOMAIN threads'[u].stack => Notes(threads'[u].stack[i], sh'.fds)
    /\ \A u, v \in Thread : \A i, j : <<u, i>> \in M /\ <<v, j>> \in M /\ <<u, i>> # <<v, j>> =>
         Holds(u, i)' \cap Holds(v, j)' = {}
    /\ \A fd \in Above : fd \in FreeFds /\ Unread(sh'.fds[fd]) =>
         \E u \in Thread : \E i : fd \in Holds(u, i)'

LEMMA HiresTended == ASSUME Secure, NEW M, Hires(M) PROVE Tended
<1> DEFINE G == {}
<1>1. \A u \in Thread : \A i : <<u, i>> \notin M => Same(u, i) /\ Holds(u, i) \cap G = {}
  BY DEF Hires
<1>2. \A u \in Thread : \A i : <<u, i>> \in M =>
        /\ \A fd \in Holds(u, i)' : fd \in Above /\ fd \in G \cup FreeFds /\ sh'.fds[fd] # Closed
        /\ i \in DOMAIN threads'[u].stack => Notes(threads'[u].stack[i], sh'.fds)
  BY DEF Hires
<1>3. \A u, v \in Thread : \A i, j : <<u, i>> \in M /\ <<v, j>> \in M /\ <<u, i>> # <<v, j>> =>
        Holds(u, i)' \cap Holds(v, j)' = {}
  BY DEF Hires
<1>4. \A fd \in Above : sh'.fds[fd] # sh.fds[fd] => fd \in G \cup FreeFds
  BY DEF Hires
<1>5. DOMAIN sh'.fds = Fd /\ \A fd \in Std : sh'.fds[fd] # Closed
  BY DEF Hires
<1>6. \A u \in Thread : \A i : IF <<u, i>> \in M THEN Holds(u, i) \subseteq G ELSE Same(u, i)
  BY DEF Hires
<1>7. \A fd \in Above : fd \in G \cup FreeFds /\ Unread(sh'.fds[fd]) =>
        \E u \in Thread : \E i : fd \in Holds(u, i)'
  BY DEF Hires
<1> HIDE DEF G
<1>8. Secure'
  BY <1>1, <1>2, <1>3, <1>4, <1>5, Exchange
<1>9. ASSUME Owned PROVE Owned'
  BY <1>4, <1>6, <1>7, <1>9, ExchangeOwned
<1> QED BY <1>8, <1>9 DEF Tended

LEMMA PipedTended ==
    ASSUME Secure, NEW k \in Nat, Enough(FreeFds, 2 * (k - 1)), NEW S, S \subseteq 1..k, NEW kids,
           \A i \in 1..k : kids[i] \in Thread /\ DOMAIN threads[kids[i]].stack = {},
           \A i, j \in 1..k : kids[i] = kids[j] => i = j,
           Piped(sh'.fds, k, S),
           \A u \in Thread : (\A i \in 1..k : u # kids[i]) => Steady(Keepers, threads[u].stack, threads'[u].stack),
           \A i \in S : Stage(threads'[kids[i]].stack, Mine(k, i)),
           \A i \in (1..k) \ S : DOMAIN threads'[kids[i]].stack = {}
    PROVE  Tended
<1> DEFINE M == {<<kids[i], 1>> : i \in 1..k}
<1>1. \A u, i : <<u, i>> \in M <=> i = 1 /\ \E j \in 1..k : u = kids[j]
  OBVIOUS
<1>2. ASSUME NEW i \in 1..k
      PROVE  /\ Holds(kids[i], 1) = {}
             /\ Holds(kids[i], 1)' = IF i \in S THEN Mine(k, i) ELSE {}
             /\ \A j : j # 1 => Same(kids[i], j)
             /\ 1 \in DOMAIN threads'[kids[i]].stack => threads'[kids[i]].stack[1].f = "stage"
  <2>1. CASE i \in S
    <3>1. Stage(threads'[kids[i]].stack, Mine(k, i))
      BY <2>1
    <3>2. /\ DOMAIN threads'[kids[i]].stack = {1} /\ threads'[kids[i]].stack[1].f = "stage"
          /\ threads'[kids[i]].stack[1].close = Mine(k, i)
      BY <3>1 DEF Stage
    <3> QED BY <2>1, <3>2, KeptFrames DEF Holds, Same
  <2>2. CASE i \notin S
    BY <2>2 DEF Holds, Same
  <2> QED BY <2>1, <2>2
<1>3. ASSUME NEW u \in Thread, NEW i, <<u, i>> \notin M PROVE Same(u, i)
  <2>1. CASE \E j \in 1..k : u = kids[j]
    <3>1. i # 1
      BY <1>1, <1>3, <2>1
    <3> QED BY <1>2, <2>1, <3>1
  <2>2. CASE ~\E j \in 1..k : u = kids[j]
    <3>1. Steady(Keepers, threads[u].stack, threads'[u].stack)
      BY <2>2
    <3> QED BY <3>1, SteadySame
  <2> QED BY <2>1, <2>2
<1>4. Handed(sh'.fds, k, S) /\ DOMAIN sh'.fds = Fd
  <2>1. PICK fds : fds = sh'.fds /\ Piped(fds, k, S)
    OBVIOUS
  <2>2. Handed(fds, k, S)
    BY <2>1, PipedMine
  <2> QED BY <2>1, <2>2 DEF Piped
<1>5. ASSUME NEW u \in Thread, NEW i, <<u, i>> \in M
      PROVE  /\ \A fd \in Holds(u, i)' : fd \in Above /\ fd \in FreeFds /\ sh'.fds[fd] # Closed
             /\ i \in DOMAIN threads'[u].stack => Notes(threads'[u].stack[i], sh'.fds)
  <2>1. PICK j \in 1..k : i = 1 /\ u = kids[j]
    BY <1>1, <1>5
  <2>2. \A fd \in Holds(u, i)' : j \in S /\ fd \in Mine(k, j)
    BY <1>2, <2>1
  <2>3. \A fd \in Holds(u, i)' : fd \in FreeFds /\ sh'.fds[fd] # Closed
    BY <1>4, <2>2, MineDisjoint DEF Handed
  <2> QED BY <1>2, <2>1, <2>3, FreeAbove DEF Notes
<1>6. ASSUME NEW u \in Thread, NEW v \in Thread, NEW i, NEW j, <<u, i>> \in M, <<v, j>> \in M, <<u, i>> # <<v, j>>
      PROVE  Holds(u, i)' \cap Holds(v, j)' = {}
  <2>1. PICK a \in 1..k, b \in 1..k : i = 1 /\ j = 1 /\ u = kids[a] /\ v = kids[b] /\ a # b
    BY <1>1, <1>6
  <2>2. Holds(u, i)' \subseteq Mine(k, a) /\ Holds(v, j)' \subseteq Mine(k, b)
    BY <1>2, <2>1
  <2> QED BY <2>1, <2>2, MineDisjoint
<1>7. \A fd \in Std : sh'.fds[fd] # Closed
  <2>1. \A fd \in Std : fd \in Fd /\ fd \notin FreeFds
    BY StdAbove DEF Secure, FreeFds
  <2> QED BY <1>4, <2>1 DEF Secure, Handed
<1>8. \A fd \in Above : sh'.fds[fd] # sh.fds[fd] => fd \in FreeFds
  BY <1>4 DEF Above, Handed
<1>9. \A fd \in Above : fd \in FreeFds /\ Unread(sh'.fds[fd]) =>
           \E u \in Thread : \E i : fd \in Holds(u, i)'
  <2> SUFFICES ASSUME NEW fd \in Above, fd \in FreeFds, Unread(sh'.fds[fd])
               PROVE  \E u \in Thread : \E i : fd \in Holds(u, i)'
    OBVIOUS
  <2>1. sh'.fds[fd] # sh.fds[fd]
    BY DEF FreeFds, Unread, Closed
  <2>2. PICK i \in S : fd \in Mine(k, i)
    BY <1>4, <2>1 DEF Above, Handed
  <2>3. i \in 1..k /\ kids[i] \in Thread /\ fd \in Holds(kids[i], 1)'
    BY <1>2, <2>2
  <2> QED BY <2>3
<1>10. Hires(M)
  <2> HIDE DEF M
  <2>1. \A u \in Thread : \A i : <<u, i>> \in M => Holds(u, i) = {}
    BY <1>1, <1>2
  <2> QED BY <1>3, <1>4, <1>5, <1>6, <1>7, <1>8, <1>9, <2>1 DEF Hires
<1> HIDE DEF M
<1> QED BY <1>10, HiresTended

LEMMA StageCloses ==
    ASSUME NEW k \in Nat, NEW i \in 1..k, Enough(FreeFds, 2 * (k - 1)),
           NEW a, NEW b, a \notin FreeFds, b \notin FreeFds,
           NEW in, in = IF i = 1 THEN a ELSE ReadEnd(i - 1), NEW out, out = IF i = k THEN b ELSE WriteEnd(i)
    PROVE  ({in} \ {a}) \cup ({out} \ {b}) = Mine(k, i)
<1>1. \A x : x \in Mine(k, i) <=> \/ i - 1 \in Between(k) /\ x = ReadEnd(i - 1)
                                  \/ i \in Between(k) /\ x = WriteEnd(i)
  BY DEF Mine
<1>2. (i - 1 \in Between(k) <=> i # 1) /\ (i \in Between(k) <=> i # k)
  BY DEF Between
<1>3. i # 1 => ReadEnd(i - 1) # a
  BY <1>2, EndsDistinct
<1>4. i # k => WriteEnd(i) # b
  BY <1>2, EndsDistinct
<1>5. \A x : x \in {in} \ {a} <=> i # 1 /\ x = ReadEnd(i - 1)
  BY <1>3
<1>6. \A x : x \in {out} \ {b} <=> i # k /\ x = WriteEnd(i)
  BY <1>4
<1> QED BY <1>1, <1>2, <1>5, <1>6

LEMMA MixedPipelineTended ==
    ASSUME Body, Secure, Tame, NEW t \in Thread, MixedPipeline(t) PROVE Tended
<1> DEFINE n == Node(t)
           k == Len(n.ns)
           kids == Lowest(FreeThreads, k)
           ctx == threads[t].io
           ps == Lowest(FreeChans, k - 1)
           S == {i \in 1..k : InProcess(n.ns[i])}
           ends == [f \in Fd |->
               IF \E i \in 1..(k - 1) : f = ReadEnd(i) /\ InProcess(n.ns[i + 1])
               THEN Reader(ps[CHOOSE i \in 1..(k - 1) : f = ReadEnd(i)])
               ELSE IF \E i \in 1..(k - 1) : f = WriteEnd(i) /\ InProcess(n.ns[i])
               THEN Writer(ps[CHOOSE i \in 1..(k - 1) : f = WriteEnd(i)])
               ELSE sh.fds[f]]
           in(i) == IF i = 1 THEN ctx[1] ELSE ReadEnd(i - 1)
           out(i) == IF i = k THEN ctx[2] ELSE WriteEnd(i)
           tree(i) == StageTree(n.ns[i], in(i), out(i))
           stage(i) == StageThread(t, <<in(i), out(i), ctx[3]>>, ({in(i)} \ {ctx[1]}) \cup ({out(i)} \ {ctx[2]}),
                                   tree(i).t = "js", tree(i))
           process(i) == Fork(t, SimpleCmd(ExpandAll(sh, n.ns[i].ws), <<>>),
                              IF i = 1 THEN sh.fds[ctx[1]] ELSE Reader(ps[i - 1]),
                              IF i = k THEN sh.fds[ctx[2]] ELSE Writer(ps[i]), sh.fds[ctx[3]])
           fr == [f |-> "mixed", kids |-> kids, neg |-> n.neg, codes |-> [i \in 1..k |-> 0],
                  left |-> {kids[i] : i \in {j \in 1..k : InProcess(n.ns[j])}}]
           me == Push(threads[t], fr, Await)
<1>1. Evaluating(t, "pipe") /\ Enough(FreeThreads, k) /\ Enough(FreeFds, 2 * (k - 1))
  BY Zenon DEF MixedPipeline
<1>2. sh' = [sh EXCEPT !.fds = ends]
  BY Zenon DEF MixedPipeline, ReadEnd, WriteEnd
<1>3. threads'[t] = me /\ \A u \in Thread : u # t /\ u \notin Range(kids) => threads'[u] = threads[u]
  BY DEF MixedPipeline, Push
<1>4. k \in Nat /\ DOMAIN kids = 1..k
  BY <1>1, NthFacts DEF Lowest
<1>5. /\ \A i \in 1..k : kids[i] \in FreeThreads
      /\ \A i, j \in 1..k : kids[i] = kids[j] => i = j
  BY <1>1, NthFacts DEF Lowest
<1>6. ~Asleep(threads[t]) /\ WellFormed(threads[t]) /\ Shape
  BY <1>1, Awake DEF Evaluating, Body, Shape
<1>7. \A i \in 1..k : kids[i] \in Thread /\ kids[i] # t /\ threads[kids[i]].stack = <<>>
  BY <1>5, <1>6, FreeAsleep DEF FreeThreads, Shape, WellFormed
<1>8. ctx[1] \notin FreeFds /\ ctx[2] \notin FreeFds
  BY <1>1 DEF Tame, FreeFds
<1>9. sh'.fds = ends
  BY <1>2 DEF Body, Shape, ShellOK, ShellFields
<1>10. Piped(ends, k, S)
  <2>1. \A p : Reader(p) # Closed /\ Writer(p) # Closed
    BY DEF Reader, Writer, Closed
  <2>2. \A i \in Between(k) : ReadEnd(i) \in Fd /\ WriteEnd(i) \in Fd /\ i \in 1..(k - 1)
    BY <1>1, <1>4, EndsDistinct DEF FreeFds, Between
  <2>3. \A i \in 1..(k - 1) : i \in 1..k /\ i + 1 \in 1..k
    BY <1>4
  <2>4. ASSUME NEW i \in Between(k), i + 1 \in S PROVE ends[ReadEnd(i)] # Closed
    BY <2>1, <2>2, <2>4
  <2>5. ASSUME NEW i \in Between(k), i \in S PROVE ends[WriteEnd(i)] # Closed
    BY <2>1, <2>2, <2>5
  <2>6. ASSUME NEW fd \in Fd, ends[fd] # sh.fds[fd]
        PROVE  \E i \in Between(k) : (i + 1 \in S /\ fd = ReadEnd(i)) \/ (i \in S /\ fd = WriteEnd(i))
    BY <2>3, <2>6 DEF Between
  <2>7. DOMAIN ends = Fd
    OBVIOUS
  <2> HIDE DEF ends, S
  <2> QED BY <2>4, <2>5, <2>6, <2>7 DEF Piped
<1>11. \A i \in 1..k : threads'[kids[i]] = IF i \in S THEN stage(i) ELSE process(i)
  <2> SUFFICES ASSUME NEW v \in 1..k PROVE threads'[kids[v]] = IF v \in S THEN stage(v) ELSE process(v)
    OBVIOUS
  <2> DEFINE u == kids[v]
             i == CHOOSE i \in 1..k : kids[i] = u
  <2>1. u \in Range(kids) /\ u \in Thread /\ u # t
    BY <1>4, <1>7 DEF Range
  <2>2. i = v
    BY <1>5
  <2>3. threads'[u] = IF InProcess(n.ns[i]) THEN stage(i) ELSE process(i)
    BY <2>1 DEF MixedPipeline, StageThread, ReadEnd, WriteEnd
  <2>4. v \in S <=> InProcess(n.ns[v])
    OBVIOUS
  <2> HIDE DEF S, i, kids, stage, process, me, n, k
  <2> QED BY <2>2, <2>3, <2>4
<1>12. ASSUME NEW i \in S PROVE Stage(threads'[kids[i]].stack, Mine(k, i))
  <2>1. i \in 1..k
    OBVIOUS
  <2>2. ({in(i)} \ {ctx[1]}) \cup ({out(i)} \ {ctx[2]}) = Mine(k, i)
    <3>1. PICK m, a, b, first, last :
            /\ m = k /\ a = ctx[1] /\ b = ctx[2] /\ first = in(i) /\ last = out(i)
            /\ first = IF i = 1 THEN a ELSE ReadEnd(i - 1)
            /\ last = IF i = m THEN b ELSE WriteEnd(i)
      OBVIOUS
    <3>2. m \in Nat /\ i \in 1..m /\ Enough(FreeFds, 2 * (m - 1)) /\ a \notin FreeFds /\ b \notin FreeFds
      BY <1>1, <1>4, <1>8, <2>1, <3>1
    <3>3. ({first} \ {a}) \cup ({last} \ {b}) = Mine(m, i)
      BY <3>1, <3>2, StageCloses
    <3> QED BY <3>1, <3>3
  <2>3. threads'[kids[i]] = stage(i)
    BY <1>11, <2>1
  <2> HIDE DEF in, out, tree, k, kids, n, S, ctx
  <2>4. Stage(stage(i).stack, Mine(k, i))
    BY <2>2, StageFits DEF Stage
  <2> QED BY <2>3, <2>4
<1>13. ASSUME NEW i \in (1..k) \ S PROVE DOMAIN threads'[kids[i]].stack = {}
  <2>1. i \in 1..k /\ threads'[kids[i]] = process(i)
    BY <1>11
  <2> HIDE DEF k, kids, n, S, ctx, ps
  <2>2. process(i).stack = <<>>
    BY ForkFits DEF WellFormed
  <2> QED BY <2>1, <2>2, EmptyStack
<1>14. ASSUME NEW u \in Thread, \A i \in 1..k : u # kids[i]
       PROVE  Steady(Keepers, threads[u].stack, threads'[u].stack)
  <2>1. u \notin Range(kids)
    BY <1>4, <1>14 DEF Range
  <2>2. CASE u = t
    <3>1. threads'[t] = me
      BY <1>3
    <3>2. FrameOK(fr) /\ fr.f \notin Keepers /\ fr.f # "stage" /\ Wakes(Await) /\ IsSeq(threads[t].stack)
      BY <1>6, WakingControls DEF FrameOK, Keepers, WellFormed
    <3> HIDE DEF fr
    <3>3. me.stack = Append(threads[t].stack, fr)
      BY <1>6, <3>2, PushFits
    <3> HIDE DEF me
    <3> QED BY <2>2, <3>1, <3>2, <3>3, SteadyPush
  <2>3. CASE u # t
    BY <1>3, <2>1, <2>3, SteadySelf
  <2> QED BY <2>2, <2>3
<1>15. \A i \in 1..k : kids[i] \in Thread /\ DOMAIN threads[kids[i]].stack = {}
  BY <1>7, EmptyStack
<1>16. S \subseteq 1..k
  OBVIOUS
<1> HIDE DEF n, k, kids, S, ends, stage, process, me, fr, ctx, ps
<1> QED BY <1>1, <1>4, <1>5, <1>9, <1>10, <1>12, <1>13, <1>14, <1>15, <1>16, PipedTended

-----------------------------------------------------------------------------
(* Every step: what is kept is kept, unless the shell exits.               *)

Minded == Secure' /\ (Owned => Owned' \/ Exiting')

LEMMA PlainMinded == ASSUME Secure, Plain PROVE Minded
BY PlainSecure DEF Minded

LEMMA QuietMinded == ASSUME Secure, Quiet PROVE Minded
BY QuietPlain, PlainMinded

LEMMA TendedMinded == ASSUME Tended PROVE Minded
BY DEF Tended, Minded

LEMMA DropMinded ==
    ASSUME Secure, NEW t \in Thread, NEW s, s.fds = sh.fds, NEW th, Moves(t, s, th),
           \A i \in DOMAIN th.stack : th.stack[i].f = "exit", Exiting'
    PROVE  Minded
BY DropSecure DEF Minded

LEMMA ExitPlaceMinded ==
    ASSUME Body, Secure, NEW t \in Thread, NEW s, s.fds = sh.fds, NEW v, NEW c,
           Put(t, s, Placed(threads[t], <<ExitFrame(v)>>, c)), Exiting'
    PROVE  Minded
<1> DEFINE stack == <<ExitFrame(v)>>
           th == Placed(threads[t], stack, c)
<1>1. DOMAIN stack = {1} /\ stack[1].f = "exit"
  BY ExitStack
<1> HIDE DEF stack
<1>2. th.stack = stack
  BY DEF Body, Shape, WellFormed, Placed, ThreadFields
<1>3. Moves(t, s, th)
  BY PutMoves DEF stack, Body
<1> HIDE DEF th
<1> QED BY <1>1, <1>2, <1>3, DropMinded

LEMMA ExitMinded == ASSUME Body, Heights, Secure, NEW t \in Thread, Exit(t) PROVE Minded
<1> DEFINE v == NumberOr(RunArgs(t), sh.status)
           c == IF sh.trap = None THEN Ret(0) ELSE Eval(sh.trap)
<1>1. Put(t, sh, Placed(threads[t], <<ExitFrame(v)>>, c))
  BY DEF Exit, Only, Placed, ExitFrame
<1> HIDE DEF v, c
<1> QED BY <1>1, ExitDrops, ExitPlaceMinded

LEMMA ScriptEndsMinded == ASSUME Body, Heights, Secure, ScriptEnds PROVE Minded
<1> DEFINE v == Value(1)
           s == [sh EXCEPT !.status = v]
           c == IF sh.trap = None THEN Ret(0) ELSE Eval(sh.trap)
<1>1. 1 \in Thread
  BY BoundsAssumption DEF Thread
<1>2. Put(1, s, Placed(threads[1], <<ExitFrame(v)>>, c))
  BY DEF ScriptEnds, Only, Placed, ExitFrame
<1>3. s.fds = sh.fds
  BY DEF Body, Shape, ShellOK, ShellFields
<1> HIDE DEF v, s, c
<1> QED BY <1>1, <1>2, <1>3, ScriptEndsDrops, ExitPlaceMinded

LEMMA ProcessExitMinded == ASSUME Body, Heights, Secure, NEW t \in Thread, ProcessExit(t) PROVE Minded
<1> DEFINE s == [sh EXCEPT !.exited = <<Top(threads[t]).v>>]
           th == [threads[t] EXCEPT !.stack = <<>>]
<1>1. Put(t, s, th)
  BY DEF ProcessExit, Only
<1>2. s.fds = sh.fds /\ th.stack = <<>>
  BY DEF Body, Shape, ShellOK, ShellFields, WellFormed, ThreadFields
<1> HIDE DEF s, th
<1>3. Moves(t, s, th)
  BY <1>1, PutMoves DEF Body
<1>4. \A i \in DOMAIN th.stack : th.stack[i].f = "exit"
  BY <1>2, EmptyStack
<1> QED BY <1>2, <1>3, <1>4, ProcessExitDrops, DropMinded

LEMMA SimpleMinded == ASSUME Body, Secure, Tame, NEW t \in Thread, Simple(t) PROVE Minded
<1>1. Shape
  BY DEF Body
<1>2. CASE ExpandAlias(t)
  BY <1>1, <1>2, ExpandAliasQuiet, QuietMinded
<1>3. CASE Assign(t)
  BY <1>1, <1>3, AssignQuiet, QuietMinded
<1>4. CASE OnlyAssign(t)
  BY <1>1, <1>4, OnlyAssignQuiet, QuietMinded
<1>5. CASE CallFunction(t)
  BY <1>5, CallFunctionPlain, PlainMinded
<1>6. CASE CallJs(t)
  BY <1>1, <1>6, CallJsQuiet, QuietMinded
<1>7. CASE ExecRedirections(t)
  BY <1>1, <1>7, ExecRedirectionsQuiet, QuietMinded
<1>8. CASE ExecApplies(t)
  BY <1>8, ExecAppliesTended, TendedMinded
<1>9. CASE ExecApplied(t)
  BY <1>1, <1>9, ExecAppliedQuiet, QuietMinded
<1>10. CASE CallBuiltin(t)
  BY <1>1, <1>10, CallBuiltinQuiet, QuietMinded
<1>11. CASE RedirectNext(t)
  BY <1>11, RedirectNextTended, TendedMinded
<1>12. CASE Redirected(t)
  BY <1>1, <1>12, RedirectedQuiet, QuietMinded
<1>13. CASE External(t)
  BY <1>1, <1>13, ExternalQuiet, QuietMinded
<1> QED BY <1>2, <1>3, <1>4, <1>5, <1>6, <1>7, <1>8, <1>9, <1>10, <1>11, <1>12, <1>13, Zenon DEF Simple

LEMMA InBuiltinMinded == ASSUME Body, Heights, Secure, NEW t \in Thread, InBuiltin(t) PROVE Minded
<1>1. Shape
  BY DEF Body
<1>2. CASE RunBuiltin(t)
  BY <1>1, <1>2, RunBuiltinQuiet, QuietMinded
<1>3. CASE Echo(t)
  BY <1>1, <1>3, EchoQuiet, QuietMinded
<1>4. CASE ReadFile(t) \/ Read(t)
  BY <1>1, <1>4, ReadQuiet, QuietMinded
<1>5. CASE RunTree(t)
  BY <1>1, <1>5, RunTreeCases, QuietMinded, SourcingPlain, PlainMinded
<1>6. CASE RunCommand(t)
  BY <1>1, <1>6, RunCommandQuiet, QuietMinded
<1>7. CASE SetTrap(t)
  BY <1>1, <1>7, SetTrapQuiet, QuietMinded
<1>8. CASE Exit(t)
  BY <1>8, ExitMinded
<1>9. CASE ProcessExit(t)
  BY <1>9, ProcessExitMinded
<1> QED BY <1>2, <1>3, <1>4, <1>5, <1>6, <1>7, <1>8, <1>9, Zenon DEF InBuiltin

LEMMA InPipelineMinded == ASSUME Body, Secure, Tame, NEW t \in Thread, InPipeline(t) PROVE Minded
<1>1. Shape
  BY DEF Body
<1>2. CASE Spawn(t)
  BY <1>1, <1>2, SpawnQuiet, QuietMinded
<1>3. CASE Spawned(t)
  BY <1>1, <1>3, SpawnedQuiet, QuietMinded
<1>4. CASE Background(t)
  BY <1>1, <1>4, BackgroundQuiet, QuietMinded
<1>5. CASE PurePipeline(t)
  BY <1>1, <1>5, PurePipelineQuiet, QuietMinded
<1>6. CASE MixedPipeline(t)
  BY <1>6, MixedPipelineTended, TendedMinded
<1>7. CASE StageEnds(t)
  BY <1>7, StageEndsTended, TendedMinded
<1>8. CASE StageThrows(t)
  BY <1>8, StageThrowsTended, TendedMinded
<1>9. CASE MixedDone(t)
  BY <1>9, MixedDonePlain, PlainMinded
<1>10. CASE JsThrows(t) \/ JsReads(t) \/ JsWrites(t) \/ JsEnds(t)
  BY <1>1, <1>10, JsQuiet, QuietMinded
<1>11. CASE JsBroken(t)
  BY <1>1, <1>11, JsBrokenQuiet, QuietMinded
<1> QED BY <1>2, <1>3, <1>4, <1>5, <1>6, <1>7, <1>8, <1>9, <1>10, <1>11, Zenon DEF InPipeline

LEMMA InCaptureMinded == ASSUME Body, Secure, NEW t \in Thread, InCapture(t) PROVE Minded
<1>1. Shape
  BY DEF Body
<1>2. CASE Capture(t)
  BY <1>2, CaptureTended, TendedMinded
<1>3. CASE \E i \in DOMAIN threads[t].stack : CaptureReads(t, i)
  BY <1>1, <1>3, CaptureReadsQuiet, QuietMinded
<1>4. CASE CaptureRestores(t)
  BY <1>4, CaptureRestoresTended, TendedMinded
<1>5. CASE CaptureEnds(t) \/ CaptureThrows(t)
  BY <1>5, CaptureEndsTended, TendedMinded
<1> QED BY <1>2, <1>3, <1>4, <1>5, Zenon DEF InCapture

LEMMA InCompoundMinded == ASSUME Body, Secure, NEW t \in Thread, InCompound(t) PROVE Minded
<1>1. Shape
  BY DEF Body
<1>2. CASE AndOr(t) \/ List(t) \/ If(t) \/ Case(t) \/ FunctionDef(t)
  BY <1>1, <1>2, CompoundQuiet, QuietMinded
<1>3. CASE Group(t)
  <2>1. CASE Node(t).rs = <<>>
    BY <1>1, <1>3, <2>1, CompoundQuiet, QuietMinded
  <2>2. CASE Node(t).rs # <<>>
    BY <1>3, <2>2, GroupTended, TendedMinded
  <2> QED BY <2>1, <2>2
<1>4. CASE Subshell(t)
  BY <1>4, SubshellPlain, PlainMinded
<1>5. CASE Loop(t)
  BY <1>1, <1>5, LoopQuiet, QuietMinded
<1>6. CASE AfterLeft(t)
  BY <1>1, <1>6, AfterLeftQuiet, QuietMinded
<1>7. CASE AfterEntry(t)
  BY <1>1, <1>7, AfterEntryQuiet, QuietMinded
<1>8. CASE AfterCondition(t)
  BY <1>1, <1>8, AfterConditionQuiet, QuietMinded
<1>9. CASE AfterRound(t)
  BY <1>1, <1>9, AfterRoundQuiet, QuietMinded
<1>10. CASE CatchJump(t)
  BY <1>1, <1>10, CatchJumpQuiet, QuietMinded
<1>11. CASE FunctionReturns(t)
  BY <1>11, FunctionReturnsPlain, PlainMinded
<1>12. CASE Unwind(t)
  <2>1. CASE Top(threads[t]).f = "redir"
    BY <1>12, <2>1, UnwindTended, TendedMinded
  <2>2. CASE Top(threads[t]).f # "redir"
    BY <1>12, <2>2, UnwindPlain, PlainMinded
  <2> QED BY <2>1, <2>2
<1>13. CASE PassOn(t)
  BY <1>1, <1>13, PassOnQuiet, QuietMinded
<1> QED BY <1>2, <1>3, <1>4, <1>5, <1>6, <1>7, <1>8, <1>9, <1>10, <1>11, <1>12, <1>13, Zenon DEF InCompound

LEMMA SelfPlain == ASSUME UNCHANGED vars PROVE Plain
<1>1. sh' = sh /\ threads' = threads
  BY DEF vars
<1> QED BY <1>1, SteadySelf DEF Plain

LEMMA NextMinded == ASSUME Body, Heights, Secure, Tame, [Next]_vars PROVE Minded
<1>1. Shape
  BY DEF Body
<1>2. CASE ScriptEnds
  BY <1>2, ScriptEndsMinded
<1>3. CASE Gone
  BY <1>3, SelfPlain, PlainMinded DEF Gone
<1>4. CASE \E t \in Thread : Step(t)
  BY <1>4, SimpleMinded, InBuiltinMinded, InPipelineMinded, InCaptureMinded, InCompoundMinded, Zenon DEF Step
<1>5. CASE \E t \in Thread : Process(t)
  BY <1>1, <1>5, ProcessQuiet, QuietMinded
<1>6. CASE \E t \in Thread : Forgotten(t)
  BY <1>1, <1>6, ForgottenQuiet, QuietMinded
<1>7. CASE UNCHANGED vars
  BY <1>7, SelfPlain, PlainMinded
<1> QED BY <1>2, <1>3, <1>4, <1>5, <1>6, <1>7, Zenon DEF Next

\* A shell that exits goes on exiting.
LEMMA ExitingStays == ASSUME Body, Heights, [Next]_vars, Exiting PROVE Exiting'
<1>1. CASE Still
  <2>1. Frames({"exit"})' = Frames({"exit"})
    BY <1>1, StillFrames, Kinds
  <2> QED BY <1>1, <2>1 DEF Exiting, Running, Still, Level
<1>2. CASE Drops
  BY <1>2 DEF Drops
<1>3. CASE \E t \in Thread : Enters(t) \/ Leaves(t)
  BY <1>3, EntersHeights, LeavesHeights
<1> QED BY <1>1, <1>2, <1>3, NextSorted DEF Sorted

LEMMA InitMinded == ASSUME Init PROVE Secure /\ Owned
<1>1. \A t \in Thread : threads[t].stack = <<>>
  <2>1. Idle.stack = <<>> /\ Idle.c.k = "idle" /\ DOMAIN Idle = ThreadFields
    BY IdleFits DEF Idle
  <2>2. [Idle EXCEPT !.c = Eval(prog)].stack = <<>>
    BY <2>1 DEF ThreadFields
  <2> QED BY <2>1, <2>2 DEF Init
<1>2. \A t \in Thread : DOMAIN threads[t].stack = {}
  BY <1>1, EmptyStack
<1>3. \A t \in Thread : \A i : Holds(t, i) = {}
  BY <1>2 DEF Holds
<1>4. sh.fds = [f \in Fd |-> IF f < 3 THEN Tty ELSE Closed]
  BY DEF Init, Shell
<1>5. Tty # Closed /\ ~Unread(Closed)
  BY DEF Tty, Closed, Unread, Into
<1>6. \A fd \in Above : sh.fds[fd] = Closed
  BY <1>4, StdAbove DEF Above, Std, Fd
<1>7. \A fd \in Std : sh.fds[fd] # Closed
  BY <1>4, <1>5, StdAbove DEF Std
<1>8. Secure
  BY <1>2, <1>3, <1>4, <1>7 DEF Secure
<1>9. Owned
  BY <1>5, <1>6 DEF Owned
<1> QED BY <1>8, <1>9

(* No end of a pipe is left open behind the back of the shell: a descriptor above
   2 that can be written to is always in the keeping of a block of redirections, a
   stage or a capture that closes it on its way out, whatever is thrown through
   them (src/executor/index.ts: withRedirections, executeMixedPipeline and
   captureAst close what they opened in finally blocks). It is asked of the run
   that it is Tame: a redirection of the program over a descriptor some frame
   holds, a JavaScript stage that throws before its own handler and a pipeline
   inside a stage whose outer pipeline has already closed its ends all do lose
   descriptors. *)
THEOREM EndsOwnedHolds == Spec /\ []Tame => []EndsOwned
<1>1. Exiting \/ Owned => EndsOwned
  <2> SUFFICES ASSUME Owned, NEW fd \in Fd, fd > 2, sh.fds[fd].o \notin {"closed", "reader"}
               PROVE  \E t \in Thread : \E i \in DOMAIN threads[t].stack : fd \in Kept(threads[t].stack[i])
    BY DEF EndsOwned
  <2>1. fd \in Above /\ Unread(sh.fds[fd])
    BY StdAbove DEF Unread
  <2>2. PICK t \in Thread : \E i : fd \in Holds(t, i)
    BY <2>1 DEF Owned
  <2>3. PICK i : fd \in Holds(t, i)
    BY <2>2
  <2>4. i \in DOMAIN threads[t].stack /\ fd \in Kept(threads[t].stack[i])
    BY <2>3 DEF Holds
  <2> QED BY <2>4
<1>2. Body /\ Heights /\ Secure /\ (Exiting \/ Owned) /\ Tame /\ [Next]_vars => (Secure /\ (Exiting \/ Owned))'
  BY NextMinded, ExitingStays DEF Minded
<1>3. Init => Secure /\ (Exiting \/ Owned)
  BY InitMinded
<1> QED BY <1>1, <1>2, <1>3, HeightsAlways, PTL DEF Spec
=============================================================================
