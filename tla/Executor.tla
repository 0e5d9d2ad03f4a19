------------------------------ MODULE Executor ------------------------------
(* The AST executor of src/executor/index.ts: executeNode and the function
   per node type it calls, with the in-process redirections, the variable
   scopes, the positional parameters, the subshell snapshots, the builtins
   that change the shell, command substitution, and pipelines whose stages run
   inside the shell next to forked processes.

   The code is a tree of async functions; here a call is a frame on the stack
   of a thread, and a finally or a catch is what its frame does when a value
   or an exception comes back to it. The threads are the main program and the
   stages that run in process; a forked process is a thread of its own with
   its own three descriptors. Everything in sh is global to the process, as in
   the code. Threads take turns at every step, which is more often than the
   awaits of the code let them. Words are taken as parsed, and expanding one is
   a lookup: see Lexer and Parser for the rest. A stop (Ctrl-Z) is
   JobControl's. *)
EXTENDS Integers, FiniteSets, SequencesExt, Functions, TLC

CONSTANTS
    Programs,   \* the syntax trees a run may start with
    Var,        \* variable names
    File,       \* file names; every one but those in Missing exists at the start
    Missing,    \* files that do not exist at the start
    MaxFd,      \* bound: the descriptors of the shell are 0..MaxFd
    MaxThread,  \* bound: threads are 1..MaxThread, the main program is 1
    Lines,      \* file -> the lines it has at the start
    PipeRoom    \* lines a pipe holds before its writer waits

ASSUME BoundsAssumption == MaxThread \in Nat \ {0} /\ MaxFd \in Nat /\ MaxFd >= 2

VARIABLES
    prog,       \* the tree being executed
    sh,         \* the state of the shell process
    threads,    \* Thread -> stack of frames, control, IO context, descriptors
    chan,       \* channel -> lines a reader of it has still to read
    wrote,      \* file or terminal -> lines written to it
    got         \* history: the lines read gave out, with the words of the read

vars == <<prog, sh, threads, chan, wrote, got>>

Thread == 1..MaxThread
Fd == 0..MaxFd
Chan == 1..MaxThread
Unset == <<"unset">>
NotSaved == <<"not saved">>
None == [t |-> "none"]
Options == {"errexit", "pipefail", "allexport", "noclobber"}
Levels == [w \in {"0", "1", "2", "3", "5", "9", "141"} |->
             CASE w = "0" -> 0 [] w = "1" -> 1 [] w = "2" -> 2 [] w = "3" -> 3
               [] w = "5" -> 5 [] w = "9" -> 9 [] w = "141" -> 141]
Digits(n) == IF \E w \in DOMAIN Levels : Levels[w] = n
             THEN CHOOSE w \in DOMAIN Levels : Levels[w] = n ELSE "many"

(* What a descriptor refers to. A channel is a pipe, or the rest of a file that
   was opened for reading or of a here-document: then it has no writer. A
   dup and a forked process share it. *)
Closed == [o |-> "closed", id |-> 0]
Tty == [o |-> "tty", id |-> 0]
Reader(p) == [o |-> "reader", id |-> p]
Writer(p) == [o |-> "writer", id |-> p]
Into(f) == [o |-> f, id |-> -1]

Eval(n) == [k |-> "eval", n |-> n]
Ret(v) == [k |-> "ret", v |-> v]
Throw(e, v) == [k |-> "throw", e |-> e, v |-> v]
Await == [k |-> "await"]
Idle == [par |-> 0, stack |-> <<>>, c |-> [k |-> "idle"], io |-> <<0, 1, 2>>,
         fds |-> <<>>]

IsProcess(th) == th.c.k = "process"
Running == sh.exited = <<>>
Top(th) == Last(th.stack)
Under(th) == Front(th.stack)
Stdin(th) == th.io[1]
Stdout(th) == th.io[2]
Stderr(th) == th.io[3]

(* What a thread does next: evaluate n with frame fr waiting for it; give the
   value v or the exception e to the frame below. *)
Call(th, fr, n) == [th EXCEPT !.stack = Append(@, fr), !.c = Eval(n)]
Become(th, c) == [th EXCEPT !.c = c]
Return(th, c) == [th EXCEPT !.stack = Front(@), !.c = c]

Ends == Range(sh.fds) \cup UNION {Range(threads[u].fds) : u \in {v \in Thread : IsProcess(threads[v])}}
HasWriter(p) == Writer(p) \in Ends
HasReader(p) == Reader(p) \in Ends

(* What nothing uses: descriptors, channels, and threads that no pipeline is
   going to ask for its status. The i-th lowest of them is taken; a step that
   needs more than there are is beyond the bounds. *)
FreeFds == {fd \in Fd : sh.fds[fd] = Closed}
FreeChans == {p \in Chan : {Reader(p), Writer(p)} \cap Ends = {}}
AskedFor(u) ==
    \E t \in Thread : \E i \in DOMAIN threads[t].stack :
        threads[t].stack[i].f \in {"wait", "mixed"} /\ u \in Range(threads[t].stack[i].kids)
FreeThreads == {u \in Thread : threads[u].c.k = "idle" /\ ~AskedFor(u)}
IsNth(S, i, x) == x \in S /\ Cardinality({y \in S : y < x}) = i - 1
Enough(S, n) == n \in Nat /\ \A i \in 1..n : \E x \in S : IsNth(S, i, x)
Nth(S, i) == CHOOSE x \in S : IsNth(S, i, x)
Lowest(S, n) == [i \in 1..n |-> Nth(S, i)]

CloseAll(ends, fds) == [fd \in Fd |-> IF fd \in fds THEN Closed ELSE ends[fd]]
CloseFds(s, fds) == [s EXCEPT !.fds = CloseAll(@, fds)]

--------------------------------------------------------------------------
(* Variables, scopes, snapshots, parameters (src/variables). *)

(* The setter of the $ proxy: a readonly variable keeps its value. *)
SetVar(s, x, v) == IF x \in s.ro THEN s ELSE [s EXCEPT !.store[x] = v]
UnsetVar(s, x) ==
    IF x \in s.ro THEN s ELSE [s EXCEPT !.store[x] = Unset, !.env[x] = Unset]
PushScope(s) == [s EXCEPT !.scopes = Append(@, [x \in Var |-> NotSaved])]
PopScope(s) ==
    LET frame == Last(s.scopes)
    IN  [s EXCEPT !.scopes = Front(@),
                  !.store = [x \in Var |-> IF frame[x] = NotSaved THEN @[x] ELSE frame[x]]]
(* The value a variable had before it was first declared local in this scope. *)
DeclareLocal(s, x) ==
    LET k == Len(s.scopes)
    IN  IF k = 0 \/ s.scopes[k][x] # NotSaved THEN s
        ELSE [s EXCEPT !.scopes[k][x] = s.store[x]]
(* The store of the code also holds $?, PIPESTATUS and OLDPWD. *)
PushSnapshot(s) ==
    [s EXCEPT !.snaps = Append(@, [store |-> s.store, status |-> s.status, pst |-> s.pst,
                                   oldpwd |-> s.oldpwd])]
PopSnapshot(s) ==
    LET saved == Last(s.snaps)
    IN  [s EXCEPT !.snaps = Front(@), !.store = saved.store, !.status = saved.status,
                  !.pst = saved.pst, !.oldpwd = saved.oldpwd]
PushParams(s, args) == [s EXCEPT !.params = Append(@, args)]
PopParams(s) == IF Len(s.params) > 1 THEN [s EXCEPT !.params = Front(@)] ELSE s
Params(s) == Last(s.params)
SetParams(s, args) == [s EXCEPT !.params[Len(s.params)] = args]

(* The words a word expands to: a variable gives its fields, $1 and $@ the
   parameters, $? and $PIPESTATUS the results, anything else itself. *)
Expand(s, w) ==
    CASE w \in {"$" \o x : x \in Var} ->
           LET v == s.store[CHOOSE x \in Var : w = "$" \o x] IN IF v = Unset THEN <<>> ELSE v
      [] w = "$1" -> IF Params(s) = <<>> THEN <<>> ELSE <<Params(s)[1]>>
      [] w = "$@" -> Params(s)
      [] w = "$?" -> <<Digits(s.status)>>
      [] w = "$#" -> <<Digits(Len(Params(s)))>>
      [] w = "$PIPESTATUS" -> [i \in DOMAIN s.pst |-> Digits(s.pst[i])]
      [] w = "$PWD" -> <<s.cwd>>
      [] OTHER -> <<w>>
ExpandAll(s, ws) == FlattenSeq([i \in DOMAIN ws |-> Expand(s, ws[i])])

--------------------------------------------------------------------------
(* withRedirections: the redirections rs are applied one after the other, each
   over a copy of the descriptor it replaces, and then node n is evaluated. The
   frame keeps the copies and the descriptors that were opened for the finally
   block. acc is what one of them does; its c is what comes next: the rest, an
   error, or the early return of noclobber. *)
WithRedirections(th, rs, n) ==
    [th EXCEPT !.stack = Append(@, [f |-> "redir", saved |-> <<>>, opened |-> {}]),
               !.c = [k |-> "redirect", rs |-> rs, n |-> n]]
NoSaves == [saved |-> <<>>, opened |-> {}]
Acc(fr, c) ==
    [fds |-> sh.fds, made |-> sh.made, chan |-> chan, wrote |-> wrote,
     saved |-> fr.saved, opened |-> fr.opened, c |-> c]

Refuse(acc) == [acc EXCEPT !.c = Throw("error", 1)]
Dup2(acc, fd, end) == [acc EXCEPT !.fds[fd] = end]
(* dup2 of the object end over fd, after fd was saved at copy. *)
Over(acc, fd, copy, end) ==
    LET a == [Dup2(acc, copy, acc.fds[fd]) EXCEPT !.saved = Append(@, [fd |-> fd, copy |-> copy])]
    IN  IF acc.c.k = "throw" THEN acc
        ELSE IF acc.fds[fd] = Closed THEN Refuse(acc)
        ELSE IF end = Closed THEN Refuse(a) ELSE Dup2(a, fd, end)
(* open: closed again when the block ends. *)
Open(acc, fd, end) == [Dup2(acc, fd, end) EXCEPT !.opened = @ \cup {fd}]
Create(acc, f, truncate) ==
    [acc EXCEPT !.made = @ \cup {f}, !.wrote[f] = IF truncate THEN <<>> ELSE @]
(* The channel p holds ls and has no writer: a file, a here-document. *)
Source(acc, p, ls) == [acc EXCEPT !.chan[p] = ls]

Redirect(acc, r) ==
    LET fd(i) == Nth(FreeFds, i)
        p == Nth(FreeChans, 1)
        file == Open(Create(acc, r.to, r.op \in {">", "&>"}), fd(1), Into(r.to))
    IN  CASE r.op = "<<" -> Over(Source(acc, p, r.text), r.fd, fd(2), Reader(p))
          [] r.op = ">" /\ "noclobber" \in sh.opts /\ r.to \in sh.made -> [acc EXCEPT !.c = Ret(1)]
          [] r.op \in {">", ">>"} -> Over(file, r.fd, fd(2), Into(r.to))
          [] r.op \in {"&>", "&>>"} ->
               Over(Over(file, 1, fd(2), Into(r.to)), 2, fd(3), Into(r.to))
          [] r.op = "<" /\ r.to \notin sh.made -> Refuse(acc)
          [] r.op = "<" ->
               Over(Open(Source(acc, p, Lines[r.to]), fd(1), Reader(p)), r.fd, fd(2), Reader(p))
          [] r.op \in {">&", "<&"} -> Over(acc, r.fd, fd(2), sh.fds[r.num])
          [] OTHER -> acc

(* The finally block: the copies are put back in reverse order, then what was
   opened is closed. *)
PutBack(fds, saved) ==
    LET back[i \in 1..(Len(saved) + 1)] ==
          IF i > Len(saved) THEN fds
          ELSE [back[i + 1] EXCEPT ![saved[i].fd] = back[i + 1][saved[i].copy],
                                   ![saved[i].copy] = Closed]
    IN  back[1]
(* Fault: the copies are put back in the order they were made. *)
RestoreInOrder(s, fr) == [s EXCEPT !.fds = CloseAll(PutBack(@, Reverse(fr.saved)), fr.opened)]
Restore(s, fr) == [s EXCEPT !.fds = CloseAll(PutBack(@, fr.saved), fr.opened)]

(* exec with redirections and no command: applied for good, nothing saved. *)
ApplyExec(acc, r) ==
    LET p == Nth(FreeChans, 1)
        file == Create(acc, r.to, r.op \in {">", "&>"})
    IN  CASE r.op \in {">", ">>"} -> Dup2(file, r.fd, Into(r.to))
          [] r.op \in {"&>", "&>>"} -> Dup2(Dup2(file, 1, Into(r.to)), 2, Into(r.to))
          [] r.op = "<" /\ r.to \notin sh.made -> Refuse(acc)
          [] r.op = "<" -> Dup2(Source(acc, p, Lines[r.to]), r.fd, Reader(p))
          [] r.op \in {">&", "<&"} ->
               IF sh.fds[r.num] = Closed THEN Refuse(acc) ELSE Dup2(acc, r.fd, sh.fds[r.num])
          [] OTHER -> acc

--------------------------------------------------------------------------
(* The builtins that read or change the shell. Each gives the new state and the
   control it returns or throws; what they print is left out, save echo. *)
Ok(s) == [s |-> s, c |-> Ret(0)]
Fails(s) == [s |-> s, c |-> Ret(1)]
NumberOr(args, d) ==
    IF args = <<>> THEN d ELSE IF args[1] \in DOMAIN Levels THEN Levels[args[1]] ELSE d
AtLeastOne(n) == IF n < 1 THEN 1 ELSE n

ChangeDir(s, args) ==
    LET to == IF args = <<>> THEN "home" ELSE IF args[1] = "-" THEN s.oldpwd ELSE args[1]
    IN  IF to \in {"", "nowhere"} THEN Fails(s) ELSE Ok([s EXCEPT !.cwd = to, !.oldpwd = s.cwd])
PushDir(s, args) ==
    IF args[1] = "nowhere" THEN Fails(s)
    ELSE Ok([s EXCEPT !.cwd = args[1], !.dirs = Append(@, s.cwd)])
PopDir(s) ==
    IF s.dirs = <<>> THEN Fails(s)
    ELSE Ok([s EXCEPT !.cwd = Last(s.dirs), !.dirs = Front(@)])
Export(s, args) ==
    IF Len(args) = 2
    THEN Ok([SetVar(s, args[1], <<args[2]>>) EXCEPT !.env[args[1]] = <<args[2]>>])
    ELSE Ok(IF s.store[args[1]] = Unset THEN s ELSE [s EXCEPT !.env[args[1]] = s.store[args[1]]])
Unsets(s, args) ==
    IF args[1] = "-f" THEN Ok([s EXCEPT !.funs = Restrict(@, DOMAIN @ \ {args[2]})])
    ELSE Ok(UnsetVar(s, args[1]))
Local(s, args) ==
    LET d == DeclareLocal(s, args[1])
    IN  Ok(IF Len(args) = 1 THEN d ELSE SetVar(d, args[1], <<args[2]>>))
Shift(s, args) ==
    LET n == NumberOr(args, 1)
    IN  IF n > Len(Params(s)) THEN Fails(s)
        ELSE Ok(SetParams(s, SubSeq(Params(s), n + 1, Len(Params(s)))))
Readonly(s, args) ==
    Ok([s EXCEPT !.ro = @ \cup {args[1]},
                 !.store[args[1]] = IF Len(args) = 2 THEN <<args[2]>> ELSE @])
Set(s, args) ==
    CASE args[1] = "--" -> Ok(SetParams(s, Tail(args)))
      [] args[1] = "-o" /\ args[2] \in Options -> Ok([s EXCEPT !.opts = @ \cup {args[2]}])
      [] args[1] = "+o" /\ args[2] \in Options -> Ok([s EXCEPT !.opts = @ \ {args[2]}])
      [] OTHER -> Fails(s)
Alias(s, args) == Ok([s EXCEPT !.aliases = (args[1] :> Tail(args)) @@ @])
Unalias(s, args) ==
    IF args[1] \in DOMAIN s.aliases THEN Ok([s EXCEPT !.aliases = Restrict(@, DOMAIN @ \ {args[1]})])
    ELSE Fails(s)
Jump(s, name, args) ==
    [s |-> s, c |-> CASE name = "return" -> Throw("return", NumberOr(args, s.status))
                      [] name = "break" -> Throw("break", AtLeastOne(NumberOr(args, 1)))
                      [] name = "continue" -> Throw("continue", AtLeastOne(NumberOr(args, 1)))]

StateBuiltins == {"cd", "pushd", "popd", "export", "unset", "local", "shift", "readonly", "set",
                  "alias", "unalias", "return", "break", "continue", "true", "false", ":"}
Builtins == StateBuiltins \cup
            {"echo", "read", "eval", "time", "source", "command", "trap", "exit", "exec"}
Builtin(s, name, args) ==
    CASE name \in {"true", ":"} -> Ok(s)
      [] name = "false" -> Fails(s)
      [] name = "cd" -> ChangeDir(s, args)
      [] name = "pushd" -> PushDir(s, args)
      [] name = "popd" -> PopDir(s)
      [] name = "export" -> Export(s, args)
      [] name = "unset" -> Unsets(s, args)
      [] name = "local" -> Local(s, args)
      [] name = "shift" -> Shift(s, args)
      [] name = "readonly" -> Readonly(s, args)
      [] name = "set" -> Set(s, args)
      [] name = "alias" -> Alias(s, args)
      [] name = "unalias" -> Unalias(s, args)
      [] name \in {"return", "break", "continue"} -> Jump(s, name, args)

--------------------------------------------------------------------------
(* Steps. Put: thread t becomes th and the shell s, nothing else changes. *)
Put(t, s, th) ==
    /\ sh' = s
    /\ threads' = [threads EXCEPT ![t] = th]
Only(t, s, th) == Put(t, s, th) /\ UNCHANGED <<prog, chan, wrote, got>>
(* One redirection of thread t has come to acc. *)
Apply(t, acc, th) ==
    /\ Enough(FreeFds, 3) /\ Enough(FreeChans, 1)
    /\ Put(t, [sh EXCEPT !.fds = acc.fds, !.made = acc.made], th)
    /\ chan' = acc.chan /\ wrote' = acc.wrote
    /\ UNCHANGED <<prog, got>>

Evaluating(t, type) ==
    Running /\ threads[t].c.k = "eval" /\ threads[t].c.n.t = type
Node(t) == threads[t].c.n
Words(t) == ExpandAll(sh, Node(t).ws)

(* What executeSimple finds its first word to be, in the order it looks. *)
JsFunctions == {"up", "boom"}
BareJs(s, w) == w \in JsFunctions
Sort(s, ws, n) ==
    CASE ws = <<>> -> "nothing"
      [] ws[1] \in DOMAIN s.funs -> "function"
      [] BareJs(s, ws[1]) -> "js"
      [] ws[1] = "exec" /\ Len(ws) = 1 /\ n.rs # <<>> -> "exec"
      [] ws[1] \in Builtins -> "builtin"
      [] OTHER -> "external"
IsAlias(t) == Words(t) # <<>> /\ Words(t)[1] \in DOMAIN sh.aliases
(* A command that is no alias makes its assignments, and then is what its first
   word says. Each assignment is a step: the code awaits the expansion of its
   words. *)
Ready(t) == Evaluating(t, "assigning") \/ (Evaluating(t, "cmd") /\ ~IsAlias(t))
Command(t, sort) ==
    /\ Ready(t) /\ Node(t).as = <<>>
    /\ Sort(sh, Words(t), Node(t)) = sort

SimpleCmd(ws, rs) == [t |-> "cmd", as |-> <<>>, ws |-> ws, rs |-> rs]

(* executeNode: an alias is joined with the expanded words and parsed again:
   the redirections and the assignments of the command are not carried over. *)
ExpandAlias(t) ==
    /\ Evaluating(t, "cmd") /\ IsAlias(t)
    /\ Only(t, sh, Become(threads[t],
              Eval(SimpleCmd(sh.aliases[Words(t)[1]] \o Tail(Words(t)), <<>>))))
(* A readonly name stops the command. *)
Assign(t) ==
    LET n == Node(t)
        x == Head(n.as)[1]
        v == ExpandAll(sh, Head(n.as)[2])
        s == SetVar(sh, x, v)
    IN  /\ Ready(t) /\ n.as # <<>>
        /\ IF x \in sh.ro THEN Only(t, sh, Become(threads[t], Ret(1)))
           ELSE Only(t, IF "allexport" \in sh.opts THEN [s EXCEPT !.env[x] = v] ELSE s,
                     Become(threads[t], Eval([n EXCEPT !.t = "assigning", !.as = Tail(@)])))
OnlyAssign(t) == Command(t, "nothing") /\ Only(t, sh, Become(threads[t], Ret(0)))
CallFunction(t) ==
    /\ Command(t, "function")
    /\ Only(t, PushScope(PushParams(sh, Tail(Words(t)))),
            Call(threads[t], [f |-> "call"], sh.funs[Words(t)[1]]))
(* A JavaScript function called by its bare name, outside of any pipeline. *)
CallJs(t) ==
    /\ Command(t, "js")
    /\ Only(t, sh, Call(threads[t], [f |-> "pipestatus"],
                              [t |-> "js", name |-> Words(t)[1], in |-> 0, out |-> 1,
                               held |-> <<>>, eof |-> FALSE]))
ExecRedirections(t) ==
    /\ Command(t, "exec")
    /\ Only(t, sh, Become(threads[t], [k |-> "exec", rs |-> Node(t).rs]))
Controlled(t, k) == Running /\ threads[t].c.k = k
ExecApplies(t) ==
    LET c == threads[t].c
        acc == ApplyExec(Acc(NoSaves, [c EXCEPT !.rs = Tail(@)]), Head(c.rs))
    IN  /\ Controlled(t, "exec") /\ c.rs # <<>>
        /\ Apply(t, acc, Become(threads[t], acc.c))
ExecApplied(t) ==
    /\ Controlled(t, "exec") /\ threads[t].c.rs = <<>>
    /\ Only(t, [sh EXCEPT !.pst = <<0>>], Become(threads[t], Ret(0)))
(* A builtin: $PIPESTATUS is set when it returns; with redirections it runs
   under withRedirections. *)
CallBuiltin(t) ==
    LET run == [t |-> "run", ws |-> Words(t), rs |-> Node(t).rs,
                sub |-> IF "sub" \in DOMAIN Node(t) THEN Node(t).sub ELSE None]
    IN  /\ Command(t, "builtin")
        /\ Only(t, sh, Call(threads[t], [f |-> "pipestatus"],
                                  IF Node(t).rs = <<>> THEN run
                                  ELSE [t |-> "group", rs |-> Node(t).rs, n |-> run]))
RedirectNext(t) ==
    LET c == threads[t].c
        acc == Redirect(Acc(Top(threads[t]), [c EXCEPT !.rs = Tail(@)]), Head(c.rs))
        fr == [f |-> "redir", saved |-> acc.saved, opened |-> acc.opened]
    IN  /\ Controlled(t, "redirect") /\ c.rs # <<>>
        /\ Apply(t, acc, [threads[t] EXCEPT !.stack = Append(Front(@), fr), !.c = acc.c])
Redirected(t) ==
    /\ Controlled(t, "redirect") /\ threads[t].c.rs = <<>>
    /\ Only(t, sh, Become(threads[t], Eval(threads[t].c.n)))

--------------------------------------------------------------------------
(* Builtins at work: node [t |-> "run"] is builtins[command].run(args). *)
Running1(t, names) == Evaluating(t, "run") /\ Node(t).ws[1] \in names
RunArgs(t) == Tail(Node(t).ws)

RunBuiltin(t) ==
    /\ Running1(t, StateBuiltins)
    /\ LET r == Builtin(sh, Node(t).ws[1], RunArgs(t)) IN Only(t, r.s, Become(threads[t], r.c))

CanWrite(end, ls) ==
    end.o = "writer" /\ HasReader(end.id) => Len(chan[end.id]) + Len(ls) <= PipeRoom
Broken(end) == end.o = "writer" /\ ~HasReader(end.id)
Refused(end) == end.o \in {"closed", "reader"}
Write(end, ls) ==
    /\ chan' = IF end.o = "writer" /\ ~Broken(end) THEN [chan EXCEPT ![end.id] = @ \o ls] ELSE chan
    /\ wrote' = IF end.o \in DOMAIN wrote THEN [wrote EXCEPT ![end.o] = @ \o ls] ELSE wrote
WriteResult(end) ==
    CASE Broken(end) -> Throw("epipe", 1) [] Refused(end) -> Throw("error", 1) [] OTHER -> Ret(0)

(* echo writes to the stdout of the IO context, whatever redirections do. *)
Echo(t) ==
    LET end == sh.fds[Stdout(threads[t])]
    IN  /\ Running1(t, {"echo"}) /\ CanWrite(end, RunArgs(t))
        /\ Put(t, sh, Become(threads[t], WriteResult(end)))
        /\ Write(end, RunArgs(t))
        /\ UNCHANGED <<prog, got>>

(* readLineFromFdAsync: a line of the buffer kept for this descriptor number, or
   else everything the descriptor has to give at once goes into the buffer. A
   read of a redirected file opens the file once more, with a buffer of its own. *)
Readable(end) == end.o = "reader" => chan[end.id] # <<>> \/ ~HasWriter(end.id)
Given(fd) ==
    IF sh.bufs[fd] # <<>> THEN sh.bufs[fd]
    ELSE IF sh.fds[fd].o = "reader" THEN chan[sh.fds[fd].id] ELSE <<>>
ReadLine(t, fd, ls) ==
    LET x == RunArgs(t)[1]
    IN  /\ threads' = [threads EXCEPT ![t] = Become(@, Ret(IF ls = <<>> THEN 1 ELSE 0))]
        /\ sh' = LET s == IF ls = <<>> THEN sh ELSE SetVar(sh, x, <<ls[1]>>)
                 IN  IF fd = -1 \/ ls = <<>> THEN s ELSE [s EXCEPT !.bufs[fd] = Tail(ls)]
        /\ got' = IF ls = <<>> THEN got ELSE Append(got, ls[1])
        /\ UNCHANGED <<prog, wrote>>
FromFile(t) == \E r \in Range(Node(t).rs) : r.op = "<"
ReadFile(t) ==
    /\ Running1(t, {"read"}) /\ FromFile(t)
    /\ LET r == CHOOSE r \in Range(Node(t).rs) : r.op = "<" IN ReadLine(t, -1, Lines[r.to])
    /\ UNCHANGED chan
Read(t) ==
    LET fd == Stdin(threads[t])
        end == sh.fds[fd]
    IN  /\ Running1(t, {"read"}) /\ ~FromFile(t)
        /\ sh.bufs[fd] # <<>> \/ Readable(end)
        /\ ReadLine(t, fd, Given(fd))
        /\ chan' = IF sh.bufs[fd] = <<>> /\ end.o = "reader" THEN [chan EXCEPT ![end.id] = <<>>]
                   ELSE chan

(* eval, time and source run the tree their text parses to. *)
RunTree(t) ==
    LET n == Node(t)
        th == threads[t]
    IN  /\ Running1(t, {"eval", "time", "source"})
        /\ CASE n.ws[1] = "eval" -> Only(t, sh, Call(th, [f |-> "eval"], n.sub))
             [] n.ws[1] = "time" -> Only(t, sh, Become(th, Eval(n.sub)))
             [] n.ws[1] = "source" /\ Len(n.ws) = 1 -> Only(t, sh, Become(th, Eval(n.sub)))
             [] OTHER -> Only(t, PushParams(sh, RunArgs(t)), Call(th, [f |-> "source"], n.sub))
(* command: the builtin or the external of that name, never the function. *)
RunCommand(t) ==
    LET args == RunArgs(t)
    IN  /\ Running1(t, {"command"})
        /\ Only(t, sh, Become(threads[t],
               IF args[1] \in Builtins THEN Eval([Node(t) EXCEPT !.ws = args])
               ELSE Eval([t |-> "spawn", ns |-> <<SimpleCmd(args, Node(t).rs)>>, neg |-> FALSE,
                          quiet |-> TRUE, pipe |-> FALSE, io |-> threads[t].io, into |-> 0])))
SetTrap(t) ==
    /\ Running1(t, {"trap"})
    /\ Only(t, [sh EXCEPT !.trap = Node(t).sub], Become(threads[t], Ret(0)))
(* exit runs the EXIT trap and then ends the process: it never returns to its
   caller, whose frames are dropped here. Errors of the trap are ignored. *)
Exit(t) ==
    LET exiting == <<[f |-> "exit", v |-> NumberOr(RunArgs(t), sh.status)]>>
    IN  /\ Running1(t, {"exit"})
        /\ Only(t, sh, [threads[t] EXCEPT !.stack = exiting,
                          !.c = IF sh.trap = None THEN Ret(0) ELSE Eval(sh.trap)])
ProcessExit(t) ==
    /\ Running /\ threads[t].stack # <<>> /\ Top(threads[t]).f = "exit"
    /\ Len(threads[t].stack) = 1 /\ threads[t].c.k \in {"ret", "throw"}
    /\ Only(t, [sh EXCEPT !.exited = <<Top(threads[t]).v>>], [threads[t] EXCEPT !.stack = <<>>])

--------------------------------------------------------------------------
(* Processes. spawnPipeline and forkExec give a child its three descriptors;
   the native code applies the redirections of the command in the child. *)
ChildFd(fds, r) ==
    CASE r.op \in {">", ">>"} -> [fds EXCEPT ![r.fd + 1] = Into(r.to)]
      [] r.op \in {">&", "<&"} -> [fds EXCEPT ![r.fd + 1] = fds[r.num + 1]]
      [] OTHER -> fds
Fork(par, cmd, in, out, err) ==
    LET w == cmd.ws[1]
        reads == w \in {"cat", "head"}
    IN  [Idle EXCEPT
           !.par = par,
           !.fds = FoldLeft(ChildFd, <<in, out, err>>, cmd.rs),
           !.c = [k |-> "process", name |-> w, eof |-> ~reads,
                  out |-> IF w = "ls" THEN <<"ls">> ELSE <<>>,
                  v |-> CASE w \in {"ls", "cat", "head", "true"} -> 0
                          [] w \in {"fail", "false"} -> 1 [] OTHER -> 127]]
Exited(v) == [k |-> "exited", v |-> v]

ProcessReads(t) ==
    LET c == threads[t].c
        end == threads[t].fds[1]
        line == IF end.o = "reader" THEN chan[end.id] ELSE <<>>
    IN  /\ Running /\ IsProcess(threads[t]) /\ ~c.eof /\ c.out = <<>> /\ Readable(end)
        /\ threads' = [threads EXCEPT
              ![t].c = IF line = <<>> THEN [c EXCEPT !.eof = TRUE]
                       ELSE [c EXCEPT !.out = <<line[1]>>, !.eof = c.name = "head"]]
        /\ chan' = IF line = <<>> THEN chan ELSE [chan EXCEPT ![end.id] = Tail(@)]
        /\ UNCHANGED <<prog, sh, wrote, got>>
ProcessWrites(t) ==
    LET c == threads[t].c
        end == threads[t].fds[2]
    IN  /\ Running /\ IsProcess(threads[t]) /\ c.out # <<>> /\ CanWrite(end, c.out)
        /\ Write(end, c.out)
        /\ threads' = [threads EXCEPT
              ![t].c = IF Broken(end) THEN Exited(141) ELSE [c EXCEPT !.out = <<>>],
              ![t].fds = IF Broken(end) THEN <<>> ELSE @]
        /\ UNCHANGED <<prog, sh, got>>
ProcessExits(t) ==
    /\ Running /\ IsProcess(threads[t]) /\ threads[t].c.eof /\ threads[t].c.out = <<>>
    /\ threads' = [threads EXCEPT ![t].c = Exited(threads[t].c.v), ![t].fds = <<>>]
    /\ UNCHANGED <<prog, sh, chan, wrote, got>>
(* A process nobody waits for any more. *)
Forgotten(t) ==
    /\ threads[t].c.k = "exited" /\ threads[t].par = 0
    /\ threads' = [threads EXCEPT ![t] = Idle]
    /\ UNCHANGED <<prog, sh, chan, wrote, got>>

(* An external command or a pipeline of them: spawnPipeline, then its answer.
   Node [t |-> "spawn"]: ns the commands, out where the last one writes. *)
External(t) ==
    LET n == Node(t)
    IN  /\ Command(t, "external")
        /\ Only(t, sh, Become(threads[t],
             Eval([t |-> "spawn", neg |-> FALSE, quiet |-> FALSE, io |-> threads[t].io, into |-> 0,
                   pipe |-> FALSE, ns |-> <<SimpleCmd(Words(t), n.rs)>>])))
(* n commands with a pipe between neighbours; ends of the pipes go to nobody
   else. kids[i] runs cmds[i]. *)
SpawnAll(ths, par, cmds, kids, ps, in, out, err) ==
    [u \in Thread |->
       IF u \notin Range(kids) THEN ths[u]
       ELSE LET i == CHOOSE i \in DOMAIN kids : kids[i] = u
            IN  Fork(par, cmds[i], IF i = 1 THEN in ELSE Reader(ps[i - 1]),
                     IF i = Len(cmds) THEN out ELSE Writer(ps[i]), err)]
Emptied(ps) == [p \in Chan |-> IF p \in ps THEN <<>> ELSE chan[p]]
Spawn(t) ==
    LET n == Node(t)
        k == Len(n.ns)
        kids == Lowest(FreeThreads, k)
        end(i) == IF i = 2 /\ n.into # 0 THEN Writer(n.into) ELSE sh.fds[n.io[i]]
        ps == Lowest(FreeChans, k - 1)
        th == [threads[t] EXCEPT !.stack = Append(@, [f |-> "wait", kids |-> kids, neg |-> n.neg,
                                                      quiet |-> n.quiet, pipe |-> n.pipe]),
                                 !.c = Await]
    IN  /\ Evaluating(t, "spawn") /\ Enough(FreeThreads, k) /\ Enough(FreeChans, k - 1)
        /\ threads' = SpawnAll([threads EXCEPT ![t] = th], t, n.ns, kids, ps, end(1), end(2), end(3))
        /\ chan' = Emptied(Range(ps))
        /\ UNCHANGED <<prog, sh, wrote, got>>

(* The value of a pipeline: its last stage, or with pipefail the last stage
   that failed; ! turns it round. *)
PipelineValue(codes, s, neg) ==
    LET bad == {i \in DOMAIN codes : codes[i] # 0}
        v == IF "pipefail" \in s.opts /\ bad # {} THEN codes[Max(bad)] ELSE codes[Len(codes)]
    IN  IF neg THEN IF v = 0 THEN 1 ELSE 0 ELSE v
Awaiting(t, f) ==
    Running /\ threads[t].c.k = "await" /\ threads[t].stack # <<>> /\ Top(threads[t]).f = f
Collect(t, th, kids) ==
    threads' = [u \in Thread |-> IF u = t THEN th ELSE IF u \in kids THEN Idle ELSE threads[u]]
Spawned(t) ==
    LET fr == Top(threads[t])
        codes == [i \in DOMAIN fr.kids |-> threads[fr.kids[i]].c.v]
        value == IF fr.pipe THEN PipelineValue(codes, sh, fr.neg) ELSE codes[1]
    IN  /\ Awaiting(t, "wait")
        /\ \A i \in DOMAIN fr.kids : threads[fr.kids[i]].c.k = "exited"
        /\ Collect(t, Return(threads[t], Ret(value)), Range(fr.kids))
        /\ sh' = IF fr.quiet THEN sh ELSE [sh EXCEPT !.pst = codes]
        /\ UNCHANGED <<prog, chan, wrote, got>>

(* A list entry followed by &: only external commands really go to the
   background, with the descriptors 0, 1 and 2 of the process; anything else
   runs in the foreground. *)
Background(t) ==
    LET n == Node(t).n
        cmds == IF n.t = "cmd" THEN <<n>> ELSE n.ns
        kids == Lowest(FreeThreads, Len(cmds))
        ps == Lowest(FreeChans, Len(cmds) - 1)
    IN  /\ Evaluating(t, "background")
        /\ IF n.t = "cmd" \/ (n.t = "pipe" /\ \A i \in DOMAIN n.ns : n.ns[i].t = "cmd")
           THEN /\ Enough(FreeThreads, Len(cmds)) /\ Enough(FreeChans, Len(cmds) - 1)
                /\ threads' = SpawnAll([threads EXCEPT ![t] = Become(@, Ret(0))], 0, cmds, kids, ps,
                                       sh.fds[0], sh.fds[1], sh.fds[2])
                /\ chan' = Emptied(Range(ps))
                /\ UNCHANGED <<prog, sh, wrote, got>>
           ELSE Only(t, sh, Become(threads[t], Eval(n)))

--------------------------------------------------------------------------
(* executePipeline. A pipeline with a JavaScript function, a compound command
   or a builtin that is no external command is mixed: those stages run in this
   process. The rest goes to spawnPipeline, its aliases expanded. *)
Compound == {"while", "for", "cfor", "if", "group", "subshell", "case", "select"}
BuiltinOnly == Builtins \ {"true", "false"}
InProcess(n) ==
    n.t \in Compound \cup {"js"} \/ (n.t = "cmd" /\ n.ws[1] \in BuiltinOnly \cup JsFunctions)
AliasesExpanded(ns) ==
    [i \in DOMAIN ns |->
       LET ws == ExpandAll(sh, ns[i].ws)
       IN  IF ws[1] \in DOMAIN sh.aliases THEN SimpleCmd(sh.aliases[ws[1]] \o Tail(ws), <<>>)
           ELSE SimpleCmd(ws, ns[i].rs)]
PurePipeline(t) ==
    LET n == Node(t)
    IN  /\ Evaluating(t, "pipe") /\ ~\E i \in DOMAIN n.ns : InProcess(n.ns[i])
        /\ Only(t, sh, Become(threads[t],
             Eval([t |-> "spawn", neg |-> n.neg, quiet |-> FALSE, pipe |-> TRUE,
                   io |-> threads[t].io, into |-> 0, ns |-> AliasesExpanded(n.ns)])))

(* executeMixedPipeline: pipes between neighbours, a process forked for every
   external stage, its pipe ends closed here; every other stage starts as a
   thread whose IO context is its pipe ends. An external stage loses its
   redirections (forkExec is not given them), and so does a builtin (runBuiltin). *)
StageTree(n, in, out) ==
    CASE n.t \in Compound -> n
      [] n.t = "cmd" /\ n.ws[1] \in BuiltinOnly ->
           [t |-> "run", ws |-> ExpandAll(sh, n.ws), rs |-> <<>>, sub |-> None]
      [] OTHER -> [t |-> "js", name |-> IF n.t = "js" THEN n.name ELSE n.ws[1],
                   in |-> in, out |-> out, held |-> <<>>, eof |-> FALSE]
MixedPipeline(t) ==
    LET n == Node(t)
        k == Len(n.ns)
        ctx == threads[t].io
        kids == Lowest(FreeThreads, k)
        ps == Lowest(FreeChans, k - 1)
        r(i) == Nth(FreeFds, 2 * i - 1)
        w(i) == Nth(FreeFds, 2 * i)
        in(i) == IF i = 1 THEN ctx[1] ELSE r(i - 1)
        out(i) == IF i = k THEN ctx[2] ELSE w(i)
        s == [sh EXCEPT !.fds = [f \in Fd |->
               IF \E i \in 1..(k - 1) : f = r(i) /\ InProcess(n.ns[i + 1])
               THEN Reader(ps[CHOOSE i \in 1..(k - 1) : f = r(i)])
               ELSE IF \E i \in 1..(k - 1) : f = w(i) /\ InProcess(n.ns[i])
               THEN Writer(ps[CHOOSE i \in 1..(k - 1) : f = w(i)])
               ELSE @[f]]]
        stage(i) == [Idle EXCEPT !.par = t, !.io = <<in(i), out(i), ctx[3]>>,
                       !.stack = <<[f |-> "stage", close |-> ({in(i)} \ {ctx[1]}) \cup ({out(i)} \ {ctx[2]}),
                                    js |-> StageTree(n.ns[i], in(i), out(i)).t = "js"]>>,
                       !.c = Eval(StageTree(n.ns[i], in(i), out(i)))]
        process(i) == Fork(t, SimpleCmd(ExpandAll(sh, n.ns[i].ws), <<>>),
                           IF i = 1 THEN sh.fds[ctx[1]] ELSE Reader(ps[i - 1]),
                           IF i = k THEN sh.fds[ctx[2]] ELSE Writer(ps[i]), sh.fds[ctx[3]])
        me == [threads[t] EXCEPT !.c = Await, !.stack = Append(@,
                 [f |-> "mixed", kids |-> kids, neg |-> n.neg, codes |-> [i \in 1..k |-> 0],
                  left |-> {kids[i] : i \in {j \in 1..k : InProcess(n.ns[j])}}])]
    IN  /\ Evaluating(t, "pipe") /\ \E i \in DOMAIN n.ns : InProcess(n.ns[i])
        /\ Enough(FreeThreads, k) /\ Enough(FreeChans, k - 1) /\ Enough(FreeFds, 2 * (k - 1))
        /\ sh' = s
        /\ threads' = [u \in Thread |->
             IF u = t THEN me
             ELSE IF u \notin Range(kids) THEN threads[u]
             ELSE LET i == CHOOSE i \in 1..k : kids[i] = u
                  IN  IF InProcess(n.ns[i]) THEN stage(i) ELSE process(i)]
        /\ chan' = Emptied(Range(ps))
        /\ UNCHANGED <<prog, wrote, got>>

(* A stage ends: its pipe ends are closed and its status recorded, EPIPE as
   141. Any other exception rejects Promise.all: the pipeline throws it while
   the other stages go on, and no process of it is waited for. A JavaScript
   stage that throws does not get as far as closing its ends. *)
AtStageEnd(t) ==
    /\ Running /\ threads[t].stack # <<>> /\ Top(threads[t]).f = "stage"
    /\ threads[t].c.k \in {"ret", "throw"}
Waits(p, t) == p # 0 /\ Awaiting(p, "mixed") /\ t \in Top(threads[p]).left
StageCode(c) == IF c.k = "ret" THEN c.v ELSE 141
Settled(c) == IF c.k = "ret" THEN TRUE ELSE c.e = "epipe"
(* Fault: the ends of a stage that was told EPIPE stay open. *)
StageEndsLeavesEnds(t) ==
    LET p == threads[t].par
    IN  /\ AtStageEnd(t) /\ Settled(threads[t].c)
        /\ threads' = [u \in Thread |->
             IF u = t THEN Idle
             ELSE IF u = p /\ Waits(p, t)
             THEN [threads[p] EXCEPT !.stack[Len(threads[p].stack)].left = @ \ {t}]
             ELSE threads[u]]
        /\ UNCHANGED <<prog, sh, chan, wrote, got>>
StageEnds(t) ==
    LET p == threads[t].par
        c == threads[t].c
        at == CHOOSE i \in DOMAIN Top(threads[p]).kids : Top(threads[p]).kids[i] = t
        top == [Top(threads[p]) EXCEPT !.left = @ \ {t}, !.codes[at] = StageCode(c)]
    IN  /\ AtStageEnd(t) /\ Settled(c)
        /\ sh' = CloseFds(sh, Top(threads[t]).close)
        /\ threads' = [u \in Thread |->
             IF u = t THEN Idle
             ELSE IF u = p /\ Waits(p, t)
             THEN [threads[p] EXCEPT !.stack = Append(Front(@), top)]
             ELSE threads[u]]
        /\ UNCHANGED <<prog, chan, wrote, got>>
StageThrows(t) ==
    LET p == threads[t].par
        c == threads[t].c
    IN  /\ AtStageEnd(t) /\ ~Settled(c)
        /\ sh' = IF Top(threads[t]).js THEN sh ELSE CloseFds(sh, Top(threads[t]).close)
        /\ threads' = [u \in Thread |->
             IF u = t THEN Idle
             ELSE IF u = p /\ Waits(p, t) THEN Return(threads[p], c)
             ELSE IF Waits(p, t) /\ u \in Range(Top(threads[p]).kids)
             THEN [threads[u] EXCEPT !.par = 0] ELSE threads[u]]
        /\ UNCHANGED <<prog, chan, wrote, got>>
(* The in-process stages first, then waitForPids. *)
MixedDone(t) ==
    LET fr == Top(threads[t])
        codes == [i \in DOMAIN fr.kids |-> IF threads[fr.kids[i]].c.k = "exited"
                                             THEN threads[fr.kids[i]].c.v ELSE fr.codes[i]]
        running == {i \in DOMAIN fr.kids : threads[fr.kids[i]].par = t /\ IsProcess(threads[fr.kids[i]])}
    IN  /\ Awaiting(t, "mixed") /\ fr.left = {} /\ running = {}
        /\ Collect(t, Return(threads[t], Ret(PipelineValue(codes, sh, fr.neg))), Range(fr.kids))
        /\ sh' = [sh EXCEPT !.pst = codes]
        /\ UNCHANGED <<prog, chan, wrote, got>>

(* executeJsStageRaw for a function that yields the lines it reads. Its output
   goes through a write stream nobody waits for until the function is done; only
   then is the error event of the stream listened to. *)
JsThrows(t) ==
    /\ Evaluating(t, "js") /\ Node(t).name = "boom"
    /\ Only(t, sh, Become(threads[t], Throw("arguments", 1)))
JsReads(t) ==
    LET n == Node(t)
        end == sh.fds[n.in]
        ls == IF n.in # 0 /\ end.o = "reader" THEN chan[end.id] ELSE <<>>
    IN  /\ Evaluating(t, "js") /\ n.name = "up" /\ ~n.eof /\ (n.in = 0 \/ Readable(end))
        /\ threads' = [threads EXCEPT
              ![t].c = Eval([n EXCEPT !.held = @ \o ls, !.eof = ls = <<>>])]
        /\ chan' = IF ls = <<>> THEN chan ELSE [chan EXCEPT ![end.id] = <<>>]
        /\ UNCHANGED <<prog, sh, wrote, got>>
JsWrites(t) ==
    LET n == Node(t)
        end == sh.fds[n.out]
        ls == <<n.held[1]>>
    IN  /\ Evaluating(t, "js") /\ n.held # <<>> /\ CanWrite(end, ls) /\ ~Broken(end)
        /\ Put(t, sh, Become(threads[t], Eval([n EXCEPT !.held = Tail(@)])))
        /\ Write(end, ls)
        /\ UNCHANGED <<prog, got>>
JsBroken(t) ==
    LET n == Node(t)
    IN  /\ Evaluating(t, "js") /\ n.held # <<>> /\ Broken(sh.fds[n.out])
        /\ IF n.eof THEN Only(t, sh, Become(threads[t], Ret(0)))
           ELSE Only(t, [sh EXCEPT !.exited = <<1>>, !.crashed = TRUE], threads[t])
JsEnds(t) ==
    /\ Evaluating(t, "js") /\ Node(t).eof /\ Node(t).held = <<>>
    /\ Only(t, sh, Become(threads[t], Ret(0)))

--------------------------------------------------------------------------
(* captureAst: $(...) as the value of an assignment x=$(...). One command or a
   pipeline of commands goes to the native code, which knows no builtin and no
   function. Anything else runs here with descriptor 1 replaced by a pipe. *)
NoCopy == -1
NativeCapture(n) ==
    n.t = "cmd" \/ (n.t = "pipe" /\ \A i \in DOMAIN n.ns : n.ns[i].t = "cmd")
Capture(t) ==
    LET n == Node(t)
        p == Nth(FreeChans, 1)
        rfd == Nth(FreeFds, 1)
        copy == IF NativeCapture(n.n) THEN NoCopy ELSE Nth(FreeFds, 2)
        frame == [f |-> "capture", x |-> n.x, rfd |-> rfd, p |-> p, copy |-> copy, text |-> <<>>]
        spawn == [t |-> "spawn", neg |-> FALSE, quiet |-> TRUE, pipe |-> FALSE,
                  io |-> <<0, 1, 2>>, into |-> p, ns |-> IF n.n.t = "cmd" THEN <<n.n>> ELSE n.n.ns]
    IN  /\ Evaluating(t, "capture") /\ Enough(FreeFds, 2) /\ Enough(FreeChans, 1)
        /\ Put(t, [sh EXCEPT !.fds = [fd \in Fd |->
                     IF fd = rfd THEN Reader(p)
                     ELSE IF copy = NoCopy THEN @[fd]
                     ELSE IF fd = copy THEN @[1] ELSE IF fd = 1 THEN Writer(p) ELSE @[fd]]],
                Call(threads[t], frame, IF copy = NoCopy THEN spawn ELSE n.n))
        /\ chan' = Emptied({p})
        /\ UNCHANGED <<prog, wrote, got>>
(* The reader runs beside the command. *)
CaptureReads(t, i) ==
    LET fr == threads[t].stack[i]
    IN  /\ Running /\ fr.f = "capture" /\ chan[fr.p] # <<>>
        /\ threads' = [threads EXCEPT ![t].stack[i].text = @ \o chan[fr.p]]
        /\ chan' = Emptied({fr.p})
        /\ UNCHANGED <<prog, sh, wrote, got>>

Returning(t, f) ==
    /\ Running /\ threads[t].c.k = "ret" /\ threads[t].stack # <<>> /\ Top(threads[t]).f = f
Throwing(t, fs) ==
    /\ Running /\ threads[t].c.k = "throw" /\ threads[t].stack # <<>> /\ Top(threads[t]).f \in fs
Value(t) == threads[t].c.v

(* The finally block puts descriptor 1 back. Then the reader is awaited: it ends
   when nobody holds the write end. On an exception its end of the pipe stays
   open. *)
Captured(t) == Returning(t, "capture") \/ Throwing(t, {"capture"})
CaptureRestores(t) ==
    LET fr == Top(threads[t])
    IN  /\ Captured(t) /\ fr.copy # NoCopy
        /\ Only(t, [sh EXCEPT !.fds = [@ EXCEPT ![1] = sh.fds[fr.copy], ![fr.copy] = Closed]],
                [threads[t] EXCEPT !.stack = Append(Front(@), [fr EXCEPT !.copy = NoCopy])])
CaptureEnds(t) ==
    LET fr == Top(threads[t])
    IN  /\ Returning(t, "capture") /\ fr.copy = NoCopy /\ chan[fr.p] = <<>> /\ ~HasWriter(fr.p)
        /\ Only(t, SetVar(CloseFds(sh, {fr.rfd}), fr.x, fr.text), Return(threads[t], Ret(0)))
CaptureThrows(t) ==
    /\ Throwing(t, {"capture"}) /\ Top(threads[t]).copy = NoCopy
    /\ Only(t, sh, Return(threads[t], threads[t].c))

--------------------------------------------------------------------------
(* Compound commands: evaluating one pushes the frame that goes on with it. *)
AndOr(t) ==
    /\ Evaluating(t, "andor")
    /\ Only(t, sh, Call(threads[t], [f |-> "andor", op |-> Node(t).op, r |-> Node(t).r], Node(t).l))
Entries(ns) == [f |-> "list", rest |-> Tail(ns), bg |-> Head(ns).t = "background"]
List(t) ==
    /\ Evaluating(t, "list")
    /\ Only(t, sh, Call(threads[t], Entries(Node(t).ns), Head(Node(t).ns)))
If(t) ==
    /\ Evaluating(t, "if")
    /\ Only(t, sh, Call(threads[t], [f |-> "if", y |-> Node(t).y, n |-> Node(t).n], Node(t).c))
Case(t) ==
    LET n == Node(t)
        w == ExpandAll(sh, <<n.w>>)
        fits == {i \in DOMAIN n.items : "*" \in n.items[i].ps \/ (w # <<>> /\ w[1] \in n.items[i].ps)}
    IN  /\ Evaluating(t, "case")
        /\ Only(t, sh, Become(threads[t],
             IF fits = {} THEN Ret(0)
             ELSE IF n.items[Min(fits)].n = None THEN Ret(0) ELSE Eval(n.items[Min(fits)].n)))
FunctionDef(t) ==
    /\ Evaluating(t, "fun")
    /\ Only(t, [sh EXCEPT !.funs = (Node(t).name :> Node(t).n) @@ @], Become(threads[t], Ret(0)))
(* A brace group runs under its redirections; a subshell also saves the
   directory, the options, the parameters and the store. *)
Group(t) ==
    LET n == Node(t)
    IN  /\ Evaluating(t, "group")
        /\ Only(t, sh, IF n.rs = <<>> THEN Become(threads[t], Eval(n.n))
                       ELSE WithRedirections(threads[t], n.rs, n.n))
Subshell(t) ==
    LET n == Node(t)
        saved == [f |-> "subshell", cwd |-> sh.cwd, opts |-> sh.opts, params |-> sh.params]
    IN  /\ Evaluating(t, "subshell")
        /\ Only(t, PushSnapshot(sh), Call(threads[t], saved, [t |-> "group", rs |-> n.rs, n |-> n.n]))

(* The loops. A loop frame [f |-> "loop"] stands for the loop between two
   evaluations: rest is what a for has still to do, last the value so far, and
   in is whether the condition or the body is running. *)
Round(s, n, rest, last, stack) ==
    LET fr(part, r) == [f |-> "loop", n |-> n, rest |-> r, last |-> last, in |-> part]
        ends == [s |-> s, stack |-> stack, c |-> Ret(last)]
    IN  CASE n.t = "while" ->
               [s |-> s, stack |-> Append(stack, fr("condition", <<>>)), c |-> Eval(n.c)]
          [] n.t = "for" ->
               IF rest = <<>> THEN ends
               ELSE [s |-> SetVar(s, n.x, <<Head(rest)>>),
                     stack |-> Append(stack, fr("body", Tail(rest))), c |-> Eval(n.n)]
          [] n.t = "cfor" ->
               LET v == s.store[n.x][1]
               IN  IF Levels[v] >= n.to THEN ends
                   ELSE [s |-> s, stack |-> Append(stack, fr("body", <<>>)), c |-> Eval(n.n)]
          [] n.t = "select" ->
               LET end == s.fds[0]
                   ls == IF s.bufs[0] # <<>> THEN s.bufs[0]
                         ELSE IF end.o = "reader" THEN chan[end.id] ELSE <<>>
                   x == IF ls[1] \in DOMAIN Levels /\ Levels[ls[1]] \in DOMAIN rest
                        THEN <<rest[Levels[ls[1]]]>> ELSE <<>>
               IN  IF ls = <<>> THEN ends
                   ELSE [s |-> SetVar([s EXCEPT !.bufs[0] = Tail(ls)], n.x, x),
                         stack |-> Append(stack, fr("body", rest)), c |-> Eval(n.n)]
(* A select that had to read has taken what its descriptor 0 could give. *)
Took(s, n) ==
    IF n.t = "select" /\ s.bufs[0] = <<>> /\ s.fds[0].o = "reader" THEN Emptied({s.fds[0].id})
    ELSE chan
Goes(t, r, n) ==
    /\ Put(t, r.s, [threads[t] EXCEPT !.stack = r.stack, !.c = r.c])
    /\ chan' = Took(sh, n)
    /\ UNCHANGED <<prog, wrote, got>>
Loop(t) ==
    LET n == Node(t)
        s == IF n.t = "cfor" THEN SetVar(sh, n.x, <<"0">>) ELSE sh
        items == IF n.t \in {"for", "select"} THEN ExpandAll(sh, n.ws) ELSE <<>>
    IN  /\ \E type \in {"while", "for", "cfor", "select"} : Evaluating(t, type)
        /\ Goes(t, IF n.t = "select" /\ items = <<>> THEN [s |-> sh, stack |-> threads[t].stack, c |-> Ret(0)]
                   ELSE Round(s, n, items, 0, threads[t].stack), n)

--------------------------------------------------------------------------
(* A value comes back to the frame below. *)
AfterLeft(t) ==
    LET fr == Top(threads[t])
        short == (fr.op = "&&") # (Value(t) = 0)
    IN  /\ Returning(t, "andor")
        /\ Only(t, sh, Return(threads[t], IF short THEN threads[t].c ELSE Eval(fr.r)))
(* executeList sets $? after every entry and stops at a failure under errexit. *)
AfterEntry(t) ==
    LET fr == Top(threads[t])
        s == [sh EXCEPT !.status = Value(t)]
        stops == "errexit" \in sh.opts /\ Value(t) # 0 /\ ~fr.bg
    IN  /\ Returning(t, "list")
        /\ Only(t, s, IF fr.rest = <<>> \/ stops THEN Return(threads[t], threads[t].c)
                      ELSE Call(Return(threads[t], Await), Entries(fr.rest), Head(fr.rest)))
AfterCondition(t) ==
    LET fr == Top(threads[t])
    IN  /\ Returning(t, "if")
        /\ Only(t, sh, Return(threads[t], IF Value(t) = 0 THEN Eval(fr.y)
                                          ELSE IF fr.n = None THEN Ret(0) ELSE Eval(fr.n)))
(* The update step of an arithmetic for. *)
Updated(n) ==
    IF n.t = "cfor" THEN SetVar(sh, n.x, <<Digits(Levels[sh.store[n.x][1]] + 1)>>) ELSE sh
AfterRound(t) ==
    LET fr == Top(threads[t])
        met == (Value(t) = 0) # fr.n.until
    IN  /\ Returning(t, "loop")
        /\ IF fr.in = "condition"
           THEN Only(t, sh, IF met THEN Call(Return(threads[t], Await), [fr EXCEPT !.in = "body"], fr.n.n)
                            ELSE Return(threads[t], Ret(fr.last)))
           ELSE Goes(t, Round(Updated(fr.n), fr.n, fr.rest, Value(t), Under(threads[t])), fr.n)
(* A break or continue out of the body: one level is this loop's, more are
   passed on; the value of the round before stays. Nothing is caught while the
   condition runs. *)
(* Fault: break 2 leaves one loop. *)
CatchJumpOnce(t) ==
    LET fr == Top(threads[t])
        c == threads[t].c
    IN  /\ Throwing(t, {"loop"}) /\ fr.in = "body" /\ c.e \in {"break", "continue"}
        /\ IF c.e = "break" THEN Only(t, sh, Return(threads[t], Ret(fr.last)))
           ELSE Goes(t, Round(Updated(fr.n), fr.n, fr.rest, fr.last, Under(threads[t])), fr.n)
CatchJump(t) ==
    LET fr == Top(threads[t])
        c == threads[t].c
    IN  /\ Throwing(t, {"loop"}) /\ fr.in = "body" /\ c.e \in {"break", "continue"}
        /\ IF c.v > 1 THEN Only(t, sh, Return(threads[t], [c EXCEPT !.v = @ - 1]))
           ELSE IF c.e = "break" THEN Only(t, sh, Return(threads[t], Ret(fr.last)))
           ELSE Goes(t, Round(Updated(fr.n), fr.n, fr.rest, fr.last, Under(threads[t])), fr.n)
(* A function call ends: its value or a return is its status and $PIPESTATUS. *)
(* Fault: an exception leaves the scope and the parameters of the call behind. *)
FunctionReturnsUnlessThrown(t) ==
    LET returns == threads[t].c.k = "ret"
    IN  /\ Returning(t, "call") \/ Throwing(t, {"call"})
        /\ IF returns
           THEN Only(t, PopParams(PopScope([sh EXCEPT !.pst = <<Value(t)>>])),
                     Return(threads[t], Ret(Value(t))))
           ELSE Only(t, sh, Return(threads[t], threads[t].c))
FunctionReturns(t) ==
    LET s == PopParams(PopScope(sh))
        returns == threads[t].c.k = "ret" \/ threads[t].c.e = "return"
    IN  /\ Returning(t, "call") \/ Throwing(t, {"call"})
        /\ IF returns
           THEN Only(t, PopParams(PopScope([sh EXCEPT !.pst = <<Value(t)>>])),
                     Return(threads[t], Ret(Value(t))))
           ELSE Only(t, s, Return(threads[t], threads[t].c))
(* Fault: a sourced file leaves its parameters behind. *)
UnwoundSourceKept(s, fr, c) ==
    CASE fr.f = "redir" -> Restore(s, fr)
      [] fr.f = "subshell" ->
           [PopSnapshot(s) EXCEPT !.opts = fr.opts, !.params = fr.params, !.cwd = fr.cwd]
      [] fr.f = "pipestatus" -> IF c.k = "ret" THEN [s EXCEPT !.pst = <<c.v>>] ELSE s
      [] OTHER -> s
(* What a finally block, or the caller of a builtin, does on the way. *)
Unwound(s, fr, c) ==
    CASE fr.f = "redir" -> Restore(s, fr)
      [] fr.f = "subshell" ->
           [PopSnapshot(s) EXCEPT !.opts = fr.opts, !.params = fr.params, !.cwd = fr.cwd]
      [] fr.f = "source" -> PopParams(s)
      [] fr.f = "pipestatus" -> IF c.k = "ret" THEN [s EXCEPT !.pst = <<c.v>>] ELSE s
      [] OTHER -> s
Unwind(t) ==
    LET fr == Top(threads[t])
        c == threads[t].c
        passes == {"redir", "subshell", "source", "pipestatus"}
    IN  /\ Throwing(t, passes) \/ \E f \in passes : Returning(t, f)
        /\ Only(t, Unwound(sh, fr, c), Return(threads[t], c))
(* Frames with nothing to undo pass an exception on; eval turns every one,
   a break or return included, into status 1. *)
PassOn(t) ==
    /\ Throwing(t, {"andor", "list", "if", "loop"}) \/ Returning(t, "eval") \/ Throwing(t, {"eval"})
    /\ Top(threads[t]).f = "loop" => Top(threads[t]).in = "condition" \/ threads[t].c.e \notin {"break", "continue"}
    /\ Only(t, sh, Return(threads[t], IF Top(threads[t]).f = "eval" /\ threads[t].c.k = "throw"
                                      THEN Ret(1) ELSE threads[t].c))
(* execute and the end of a script: $? is set and the EXIT trap run. *)
ScriptEnds ==
    /\ Running /\ threads[1].stack = <<>> /\ threads[1].c.k \in {"ret", "throw"}
    /\ Only(1, [sh EXCEPT !.status = Value(1)],
            [threads[1] EXCEPT !.stack = <<[f |-> "exit", v |-> Value(1)]>>,
                               !.c = IF sh.trap = None THEN Ret(0) ELSE Eval(sh.trap)])

--------------------------------------------------------------------------
Shell ==
    [store |-> [x \in Var |-> Unset], env |-> [x \in Var |-> Unset], ro |-> {}, scopes |-> <<>>,
     snaps |-> <<>>, params |-> <<<<>>>>, opts |-> {}, cwd |-> "home", oldpwd |-> "", dirs |-> <<>>,
     funs |-> [x \in {} |-> None], aliases |-> [x \in {} |-> <<>>], trap |-> None,
     fds |-> [f \in Fd |-> IF f < 3 THEN Tty ELSE Closed], bufs |-> [f \in Fd |-> <<>>],
     made |-> File \ Missing, status |-> 0, pst |-> <<>>, exited |-> <<>>, crashed |-> FALSE]
Init ==
    /\ prog \in Programs
    /\ sh = Shell
    /\ threads = [t \in Thread |-> IF t = 1 THEN [Idle EXCEPT !.c = Eval(prog)] ELSE Idle]
    /\ chan = [p \in Chan |-> <<>>]
    /\ wrote = [o \in File \cup {"tty"} |-> <<>>]
    /\ got = <<>>

Simple(t) ==
    \/ ExpandAlias(t) \/ Assign(t) \/ OnlyAssign(t) \/ CallFunction(t) \/ CallJs(t)
    \/ ExecRedirections(t) \/ ExecApplies(t) \/ ExecApplied(t) \/ CallBuiltin(t)
    \/ RedirectNext(t) \/ Redirected(t) \/ External(t)
InBuiltin(t) ==
    \/ RunBuiltin(t) \/ Echo(t) \/ ReadFile(t) \/ Read(t) \/ RunTree(t) \/ RunCommand(t)
    \/ SetTrap(t) \/ Exit(t) \/ ProcessExit(t)
InPipeline(t) ==
    \/ Spawn(t) \/ Spawned(t) \/ Background(t) \/ PurePipeline(t) \/ MixedPipeline(t)
    \/ StageEnds(t) \/ StageThrows(t) \/ MixedDone(t)
    \/ JsThrows(t) \/ JsReads(t) \/ JsWrites(t) \/ JsBroken(t) \/ JsEnds(t)
InCapture(t) ==
    \/ Capture(t) \/ (\E i \in DOMAIN threads[t].stack : CaptureReads(t, i))
    \/ CaptureRestores(t) \/ CaptureEnds(t) \/ CaptureThrows(t)
InCompound(t) ==
    \/ AndOr(t) \/ List(t) \/ If(t) \/ Case(t) \/ FunctionDef(t) \/ Group(t) \/ Subshell(t)
    \/ Loop(t)
    \/ AfterLeft(t) \/ AfterEntry(t) \/ AfterCondition(t) \/ AfterRound(t) \/ CatchJump(t)
    \/ FunctionReturns(t) \/ Unwind(t) \/ PassOn(t)
Process(t) == ProcessReads(t) \/ ProcessWrites(t) \/ ProcessExits(t)
Step(t) == Simple(t) \/ InBuiltin(t) \/ InPipeline(t) \/ InCapture(t) \/ InCompound(t)
Gone == ~Running /\ UNCHANGED vars
Next == ScriptEnds \/ Gone \/ \E t \in Thread : Step(t) \/ Process(t) \/ Forgotten(t)

Spec == Init /\ [][Next]_vars

--------------------------------------------------------------------------
Frames(kind) == UNION {{<<t, i>> : i \in {j \in DOMAIN threads[t].stack : threads[t].stack[j].f \in kind}} :
                         t \in Thread}
Exiting == ~Running \/ Frames({"exit"}) # {}
(* Every function call that is running has its own variable scope and every
   subshell its snapshot, whatever was thrown through them and in whatever order
   the stages of a pipeline finished. *)
ScopesMatch == Len(sh.scopes) = Cardinality(Frames({"call"}))
SnapshotsMatch == Len(sh.snaps) = Cardinality(Frames({"subshell"}))
Balanced == Exiting \/ (ScopesMatch /\ SnapshotsMatch)
(* Every function call and every sourced file has its own positional parameters,
   on top of those of the shell; a subshell ends with those it began with. *)
ParamsMatch == Len(sh.params) = 1 + Cardinality(Frames({"call", "source"}))
ParamsBalanced == Exiting \/ ParamsMatch

(* A descriptor above 2 that can be written to is in the keeping of a block, a
   stage or a capture that will close it: the end of a pipe that nobody closes
   keeps its reader waiting for an end of file that never comes. (The read end
   of a capture that throws stays open: see CaptureThrows.) *)
Kept(fr) ==
    CASE fr.f = "redir" -> fr.opened \cup {one.copy : one \in Range(fr.saved)}
      [] fr.f = "stage" -> fr.close
      [] fr.f = "capture" -> {fr.rfd, fr.copy} \ {NoCopy}
      [] OTHER -> {}
EndsOwned ==
    Exiting \/
        \A fd \in Fd : fd > 2 /\ sh.fds[fd].o \notin {"closed", "reader"} =>
            \E t \in Thread : \E i \in DOMAIN threads[t].stack : fd \in Kept(threads[t].stack[i])

=============================================================================
