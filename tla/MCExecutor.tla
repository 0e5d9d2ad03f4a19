----------------------------- MODULE MCExecutor -----------------------------
(* Programs for Executor, and what POSIX says they do: Says is the meaning of a
   tree, by recursion on it, for programs that run one command at a time. Where
   jsh is known to do something else (README, "Disagreements with the
   documentation") it says "unspecified". PIPESTATUS, which POSIX does not have,
   is that of a pipeline or a command just before (src/DESIGN.md:478). *)
EXTENDS Executor

Cmd(ws) == SimpleCmd(ws, <<>>)
Tree(ws, n) == [t |-> "cmd", as |-> <<>>, ws |-> ws, rs |-> <<>>, sub |-> n]
Let(x, w) == [t |-> "cmd", as |-> <<<<x, <<w>>>>>>, ws |-> <<>>, rs |-> <<>>]
Seq2(a, b) == [t |-> "list", ns |-> <<a, b>>]
Steps(ns) == [t |-> "list", ns |-> ns]
GroupOf(n, rs) == [t |-> "group", n |-> n, rs |-> rs]
Sub(n, rs) == [t |-> "subshell", n |-> n, rs |-> rs]
For(x, ws, n) == [t |-> "for", x |-> x, ws |-> ws, n |-> n]
CFor(x, to, n) == [t |-> "cfor", x |-> x, to |-> to, n |-> n]
While(c, n, until) == [t |-> "while", c |-> c, n |-> n, until |-> until]
IfOf(c, y, n) == [t |-> "if", c |-> c, y |-> y, n |-> n]
And(l, r) == [t |-> "andor", op |-> "&&", l |-> l, r |-> r]
Or(l, r) == [t |-> "andor", op |-> "||", l |-> l, r |-> r]
Fun(name, n) == [t |-> "fun", name |-> name, n |-> n]
Pipe(ns, neg) == [t |-> "pipe", ns |-> ns, neg |-> neg]
Out(op, fd, to) == [op |-> op, fd |-> fd, to |-> to, num |-> 0, text |-> <<>>]
DupOf(op, fd, num) == [op |-> op, fd |-> fd, to |-> "f", num |-> num, text |-> <<>>]
A == Cmd(<<"echo", "a">>)
False == Cmd(<<"false">>)

(* The meaning of a tree n in environment e: the environment after it, and the
   way it ends. e.wrote is what has been written to each object, e.out where
   standard output goes, e.in what standard input still has. *)
End(e, k, v) == [e |-> e, k |-> k, v |-> v]
Done(e, v) == End(e, "ret", v)
Word(e, w) ==
    CASE w \in {"$x", "$y"} ->
           LET v == e.store[IF w = "$x" THEN "x" ELSE "y"] IN IF v = Unset THEN <<>> ELSE v
      [] w = "$1" -> IF e.params = <<>> THEN <<>> ELSE <<e.params[1]>>
      [] w = "$@" -> e.params
      [] w = "$?" -> <<Digits(e.status)>>
      [] w = "$PIPESTATUS" -> [i \in DOMAIN e.pst |-> Digits(e.pst[i])]
      [] OTHER -> <<w>>
Lost == <<"lost">>
AsksPst(e, n) == "$PIPESTATUS" \in Range(n.ws) /\ e.pst = Lost
WordsOf(e, ws) == FlattenSeq([i \in DOMAIN ws |-> Word(e, ws[i])])
Number(args, d) == IF args = <<>> THEN d ELSE Levels[args[1]]

SaysBuiltin(e, name, args) ==
    CASE name \in {"true", ":"} -> Done(e, 0)
      [] name = "false" -> Done(e, 1)
      [] name = "echo" -> Done([e EXCEPT !.wrote[e.out] = @ \o args], 0)
      [] name = "cd" ->
           Done([e EXCEPT !.cwd = IF args[1] = "-" THEN e.oldpwd ELSE args[1], !.oldpwd = e.cwd], 0)
      [] name = "shift" -> IF e.params = <<>> THEN Done(e, 1)
                           ELSE Done([e EXCEPT !.params = Tail(@)], 0)
      [] name = "local" ->
           End([e EXCEPT !.store["x"] = <<args[2]>>,
                         !.outer = IF @ = NotSaved THEN e.store["x"] ELSE @],
               IF e.inside \/ ~e.called THEN "unspecified" ELSE "ret", 0)
      [] name = "set" -> Done([e EXCEPT !.opts = IF args[1] = "-o" THEN @ \cup {args[2]}
                                                 ELSE @ \ {args[2]}], 0)
      [] name = "read" -> IF e.in = <<>> THEN Done(e, 1)
                          ELSE Done([e EXCEPT !.store["x"] = <<Head(e.in)>>, !.in = Tail(@)], 0)
      [] name \in {"break", "continue"} -> End(e, name, Number(args, 1))
      [] name = "return" -> End(e, name, Number(args, e.status))
      [] name = "ls" -> Done([e EXCEPT !.wrote[e.out] = Append(@, "ls")], 0)
      [] name = "fail" -> Done(e, 1)
      [] name = "cat" -> Done([e EXCEPT !.wrote[e.out] = @ \o e.in, !.in = <<>>], 0)
      [] name = "head" /\ e.in = <<>> -> Done(e, 0)
      [] name = "head" -> Done([e EXCEPT !.wrote[e.out] = @ \o SubSeq(e.in, 1, 1), !.in = SubSeq(@, 2, Len(@))], 0)
      [] OTHER -> End(e, "unspecified", 0)
(* Redirections: where output goes and what input holds while n runs. *)
Point(e, r) ==
    CASE r.op \in {">", "&>"} -> [e EXCEPT !.out = r.to, !.wrote[r.to] = <<>>]
      [] r.op = ">>" -> [e EXCEPT !.out = r.to]
      [] r.op = "<" -> [e EXCEPT !.in = Lines[r.to]]
      [] r.op = "<<" -> [e EXCEPT !.in = r.text]
      [] OTHER -> e
Barred(e, rs) == "noclobber" \in e.opts /\ \E r \in Range(rs) : r.op = ">" /\ r.to \notin Missing
Absent(rs) == \E r \in Range(rs) : r.fd = 3 \/ (r.op = "<" /\ r.to \in Missing)
Pointed(e, rs) == FoldLeft(Point, e, rs)
(* Nothing is said of a block that leaves a part of its input unread. *)
Unread(r, e, n) ==
    IF r.e.in \in {<<>>, Pointed(e, n.rs).in} THEN r.k ELSE "unspecified"
(* jsh forks the external stages of a mixed pipeline without their redirections. *)
Drops(ns) == \E i, j \in DOMAIN ns : InProcess(ns[i]) /\ ns[j].t = "cmd" /\ ns[j].rs # <<>>
Back(e, old) == [e EXCEPT !.out = old.out, !.in = old.in]

RECURSIVE Says(_, _)
(* A loop from its i-th round on; last is the value of the latest body. *)
RECURSIVE Rounds(_, _, _, _)
Rounds(n, e, i, last) ==
    LET cond == IF n.t = "while" THEN Says(n.c, e) ELSE Done(e, 0)
        go == CASE n.t = "for" -> i <= Len(n.items)
                [] n.t = "cfor" -> Levels[e.store[n.x][1]] < n.to
                [] n.t = "while" -> (cond.v = 0) # n.until
        e1 == CASE n.t = "for" -> [e EXCEPT !.store[n.x] = <<n.items[i]>>]
                [] OTHER -> [cond.e EXCEPT !.status = cond.v]
        r == Says(n.n, e1)
        next(ee) == IF n.t = "cfor"
                    THEN [ee EXCEPT !.store[n.x] = <<Digits(Levels[ee.store[n.x][1]] + 1)>>] ELSE ee
    IN  IF cond.k # "ret" THEN End(cond.e, "unspecified", 0)
        ELSE IF ~go THEN Done(cond.e, last)
        ELSE CASE r.k = "ret" -> Rounds(n, next(r.e), i + 1, r.v)
               [] r.k = "break" /\ r.v = 1 -> Done(r.e, 0)
               [] r.k = "continue" /\ r.v = 1 -> Rounds(n, next(r.e), i + 1, 0)
               [] r.k \in {"break", "continue"} -> End(r.e, r.k, r.v - 1)
               [] OTHER -> r
Says(n, e) ==
    CASE n.t \in {"cmd", "group", "subshell"} /\ Absent(n.rs) -> End(e, "unspecified", 0)
      [] n.t = "cmd" /\ AsksPst(e, n) -> End(e, "unspecified", 0)
      [] n.t = "cmd" /\ n.ws = <<>> ->
           Done([e EXCEPT !.store[n.as[1][1]] = WordsOf(e, n.as[1][2]), !.pst = Lost], 0)
      [] n.t = "cmd" /\ WordsOf(e, n.ws)[1] \in DOMAIN e.funs ->
           LET ws == WordsOf(e, n.ws)
               r == Says(e.funs[ws[1]], [e EXCEPT !.params = Tail(ws), !.outer = NotSaved,
                                                      !.called = TRUE, !.inside = FALSE])
               back == [r.e EXCEPT !.params = e.params, !.outer = e.outer, !.called = e.called,
                          !.inside = e.inside,
                          !.store["x"] = IF r.e.outer = NotSaved THEN @ ELSE r.e.outer]
           IN  IF r.k \in {"ret", "return"} THEN Done([back EXCEPT !.pst = Lost], r.v)
               ELSE End(back, r.k, r.v)
      [] n.t = "cmd" /\ n.ws[1] = "eval" ->
           LET r == Says(n.sub, e)
           IN  IF r.k = "ret" THEN Done([r.e EXCEPT !.pst = Lost], r.v) ELSE r
      [] n.t = "cmd" /\ Barred(e, n.rs) -> Done([e EXCEPT !.pst = <<1>>], 1)
      [] n.t = "cmd" ->
           LET ws == WordsOf(e, n.ws)
               r == SaysBuiltin(Pointed(e, n.rs), ws[1], Tail(ws))
               back == Back(r.e, IF n.rs = <<>> THEN r.e ELSE e)
           IN  IF r.k = "ret" THEN Done([back EXCEPT !.pst = <<r.v>>], r.v) ELSE End(back, r.k, r.v)
      [] n.t = "list" ->
           (* set -e: a command or a pipeline that fails ends the shell. *)
           LET first == n.ns[1]
               r == Says(first, e)
               e1 == [r.e EXCEPT !.status = r.v]
               fails == "errexit" \in r.e.opts /\ r.v # 0
           IN  IF r.k # "ret" THEN r
               ELSE IF fails THEN End(e1, IF first.t = "cmd" \/ (first.t = "pipe" /\ ~first.neg)
                                          THEN "exit" ELSE "unspecified", r.v)
               ELSE IF Len(n.ns) = 1 THEN Done(e1, r.v)
               ELSE Says(Steps(Tail(n.ns)), e1)
      [] n.t = "andor" ->
           LET r == Says(n.l, e)
           IN  IF r.k = "exit" THEN End(r.e, "unspecified", 0)
               ELSE IF r.k # "ret" \/ ((n.op = "&&") # (r.v = 0)) THEN r
               ELSE Says(n.r, [r.e EXCEPT !.status = r.v])
      [] n.t = "if" ->
           LET r == Says(n.c, e)
               e1 == [r.e EXCEPT !.status = r.v]
           IN  IF r.k = "exit" THEN End(r.e, "unspecified", 0)
               ELSE IF r.k # "ret" THEN r
               ELSE IF r.v = 0 THEN Says(n.y, e1)
               ELSE IF n.n = None THEN Done(r.e, 0) ELSE Says(n.n, e1)
      [] n.t \in {"for", "cfor", "while"} ->
           Rounds(n @@ [items |-> IF n.t = "for" THEN WordsOf(e, n.ws) ELSE <<>>],
                  IF n.t = "cfor" THEN [e EXCEPT !.store[n.x] = <<"0">>] ELSE e, 1, 0)
      [] n.t = "case" ->
           LET w == WordsOf(e, <<n.w>>)
               fits == {i \in DOMAIN n.items : w # <<>> /\ ({w[1], "*"} \cap n.items[i].ps) # {}}
           IN  IF fits = {} THEN Done(e, 0) ELSE Says(n.items[Min(fits)].n, e)
      [] n.t = "fun" -> Done([e EXCEPT !.funs = (n.name :> n.n) @@ @], 0)
      [] n.t = "group" ->
           LET r == Says(n.n, Pointed(e, n.rs))
           IN  IF n.rs = <<>> THEN r ELSE End(Back(r.e, e), Unread(r, e, n), r.v)
      [] n.t = "subshell" ->
           (* Everything but what was written and read is the caller's again. *)
           LET r == Says(n.n, [Pointed(e, n.rs) EXCEPT !.inside = TRUE])
           IN  End([e EXCEPT !.wrote = r.e.wrote, !.in = IF n.rs = <<>> THEN r.e.in ELSE e.in,
                             !.status = r.v, !.pst = Lost],
                   IF r.k = "ret" THEN Unread(r, e, n) ELSE "unspecified", r.v)
      [] n.t = "pipe" ->
           (* Each stage reads what the one before it wrote. *)
           LET piped == [e EXCEPT !.out = "pipe", !.wrote["pipe"] = <<>>]
               first == Says(n.ns[1], piped)
               last == Says(n.ns[2], [first.e EXCEPT !.out = e.out, !.in = first.e.wrote["pipe"],
                                                     !.wrote["pipe"] = <<>>])
               codes == <<first.v, last.v>>
               v == IF "pipefail" \in e.opts /\ last.v = 0 THEN first.v ELSE last.v
           IN  End([last.e EXCEPT !.in = e.in, !.pst = codes],
                   IF first.k = "ret" /\ last.k = "ret" /\ last.e.in = <<>> /\ Len(n.ns) = 2
                      /\ (n.ns[1].t = "subshell" => last.e.store = first.e.store)
                      /\ ~Drops(n.ns)
                   THEN "ret" ELSE "unspecified",
                   IF n.neg THEN IF v = 0 THEN 1 ELSE 0 ELSE v)
      [] n.t = "js" -> SaysBuiltin(e, "cat", <<>>)
      [] n.t = "capture" ->
           LET r == Says(n.n, [e EXCEPT !.out = "pipe", !.wrote["pipe"] = <<>>])
           IN  End([r.e EXCEPT !.out = e.out, !.wrote["pipe"] = e.wrote["pipe"],
                               !.store[n.x] = r.e.wrote["pipe"]],
                   IF r.k = "ret" THEN "ret" ELSE "unspecified", 0)
      [] OTHER -> End(e, "unspecified", 0)

Start ==
    [store |-> [x \in Var |-> Unset], params |-> <<>>, outer |-> NotSaved, opts |-> {}, cwd |-> "home",
     oldpwd |-> "", funs |-> [x \in {} |-> None], status |-> 0, pst |-> <<>>, out |-> "tty", in |-> <<>>,
     called |-> FALSE, inside |-> FALSE,
     wrote |-> [o \in File \cup {"tty", "pipe"} |-> <<>>]]

(* Programs of one thread: two leaves in a row, inside two constructs. *)
Leaf == {A, False, Let("x", "1"), Cmd(<<"echo", "$x">>), Cmd(<<"break">>), Cmd(<<"break", "2">>),
         Cmd(<<"continue">>), Cmd(<<"continue", "2">>), Cmd(<<"return", "3">>),
         Cmd(<<"local", "x", "2">>), Cmd(<<"shift">>), Cmd(<<"cd", "d">>)}
Wrap(y, b) == {For("x", <<"1", "2">>, b), CFor(y, 2, b), GroupOf(b, <<>>), Sub(b, <<>>),
            IfOf(b, A, Cmd(<<"echo", "$x">>)), And(b, A), Or(b, A),
            Steps(<<Fun("f", b), Cmd(<<"f", "5">>), A>>)}
Report == Cmd(<<"echo", "$x", "$1", "$?">>)
Nested == UNION {UNION {{Steps(<<w, Report>>) : w \in Wrap("y", v)} : v \in Wrap("z", Seq2(a, b))} :
                   <<a, b>> \in Leaf \X Leaf}

(* Programs with redirections: a body that writes, reads or jumps, under one or
   two lists of redirections, inside a loop; then a command that shows where
   the descriptors ended up. *)
To(op, f) == <<Out(op, 1, f)>>
From(f) == <<Out("<", 0, f)>>
Here == <<[Out("<<", 0, "f") EXCEPT !.text = <<"1", "h">>]>>
ReadX == Cmd(<<"read", "x">>)
Bodies == {A, Cmd(<<"ls">>), Seq2(A, Cmd(<<"break">>)), Seq2(ReadX, Cmd(<<"echo", "$x">>)),
           While(ReadX, Cmd(<<"echo", "$x">>), FALSE), SimpleCmd(<<"echo", "b">>, To(">", "g")),
           SimpleCmd(<<"ls">>, To(">>", "g"))}
Redirections == {To(">", "f"), To(">>", "f"), From("g"), Here, From("f"),
                 <<Out(">", 1, "f"), DupOf(">&", 2, 1)>>, <<Out("&>", 1, "f")>>, <<DupOf(">&", 3, 1)>>,
                 <<Out(">", 1, "f"), Out(">>", 1, "g")>>}
Redirecting ==
    {Steps(<<For("y", <<"1", "2">>, GroupOf(GroupOf(b, r), q)), Cmd(<<"ls">>)>>) :
       b \in Bodies, r \in Redirections, q \in {To(">", "g"), Here}}
    \cup {Steps(<<For("y", <<"1">>, Sub(b, r)), A>>) : b \in Bodies, r \in Redirections}

(* Pipelines of two or three stages, in process and not. *)
Feed == Steps(<<A, Cmd(<<"echo", "b">>)>>)
Producers == {Cmd(<<"ls">>), A, GroupOf(Feed, <<>>), Sub(Feed, <<>>), Cmd(<<"fail">>),
              For("y", <<"1", "2">>, Cmd(<<"echo", "$y">>)), GroupOf(Cmd(<<"break">>), <<>>)}
Js(name) == [t |-> "js", name |-> name]
Consumers == {Cmd(<<"cat">>), Cmd(<<"head">>), Js("up"), Cmd(<<"up">>), Cmd(<<"fail">>),
              While(ReadX, Cmd(<<"echo", "$x">>), FALSE), GroupOf(Cmd(<<"ls">>), <<>>)}
Opt(o) == Cmd(<<"set", "-o", o>>)
Piping ==
    {Steps(<<Opt(o), Pipe(<<a, b>>, neg), Cmd(<<"echo", "$?", "$PIPESTATUS">>)>>) :
       a \in Producers, b \in Consumers, neg \in BOOLEAN, o \in {"pipefail", "errexit"}}
    \cup {Pipe(<<a, Js("up"), Cmd(<<"head">>)>>, FALSE) : a \in {Cmd(<<"ls">>), GroupOf(Feed, <<>>)}}

(* One program for each other thing the executor does. *)
Show(ws) == Cmd(<<"echo">> \o ws)
CaptureOf(x, n) == [t |-> "capture", x |-> x, n |-> n]
Bg(n) == [t |-> "background", n |-> n]
CaseOf(w, items) == [t |-> "case", w |-> w, items |-> items]
Item(ps, n) == [ps |-> ps, n |-> n]
Select(n) == [t |-> "select", x |-> "y", ws |-> <<"p", "q">>, n |-> n]
Others ==
    {Steps(<<CaptureOf("x", n), Show(<<"$x">>)>>) :
       n \in {Cmd(<<"ls">>), Pipe(<<Cmd(<<"ls">>), Cmd(<<"cat">>)>>, FALSE), GroupOf(Feed, <<>>),
              For("y", <<"1", "2">>, Show(<<"$y">>)), Pipe(<<Sub(Feed, <<>>), Cmd(<<"cat">>)>>, FALSE)}}
    \cup {Steps(<<Cmd(<<"alias", "l", "echo", "z">>), Cmd(<<"l", "1">>), Pipe(<<Cmd(<<"l">>), Cmd(<<"cat">>)>>, FALSE)>>),
          Steps(<<Cmd(<<"readonly", "x", "1">>), Let("x", "2"), Show(<<"$x">>)>>),
          Steps(<<Opt("allexport"), Let("x", "2"), Cmd(<<"unset", "x">>), Show(<<"$x">>)>>),
          Steps(<<Cmd(<<"pushd", "d">>), Cmd(<<"export", "x", "1">>), Cmd(<<"popd">>), Cmd(<<"popd">>)>>),
          For("y", <<"1">>, CaptureOf("x", GroupOf(Seq2(A, Cmd(<<"break">>)), <<>>))),
          Steps(<<Opt("noclobber"), SimpleCmd(<<"echo", "a">>, To(">", "g")), A>>),
          Steps(<<Tree(<<"source", "1">>, Show(<<"$1">>)), Tree(<<"time">>, A), Tree(<<"source">>, A)>>),
          Steps(<<Fun("echo", A), Cmd(<<"command", "echo", "b">>), Cmd(<<"command", "ls">>)>>),
          Steps(<<Tree(<<"eval">>, Cmd(<<"break">>)), Tree(<<"eval">>, Seq2(A, False)), Show(<<"$?">>)>>),
          Steps(<<SimpleCmd(<<"exec">>, <<Out(">", 2, "g")>>), Cmd(<<"up">>), A>>),
          Steps(<<SimpleCmd(<<"read", "x">>, From("g")), Show(<<"$x">>)>>),
          Steps(<<Tree(<<"trap">>, A), GroupOf(Cmd(<<"exit", "3">>), <<>>), A>>),
          Steps(<<Tree(<<"trap">>, A), Cmd(<<"nothing">>), Cmd(<<"up">>)>>),
          Steps(<<Bg(Cmd(<<"ls">>)), Bg(GroupOf(A, <<>>)), Bg(Pipe(<<Cmd(<<"ls">>), Cmd(<<"cat">>)>>, FALSE))>>),
          Steps(<<CaseOf("q", <<Item({"p"}, A), Item({"q", "r"}, Show(<<"b">>)), Item({"*"}, A)>>),
                  CaseOf("z", <<Item({"p"}, A)>>)>>),
          Steps(<<While(False, A, FALSE), Let("x", "1"), While(False, Cmd(<<"break">>), TRUE)>>),
          Steps(<<A, Cmd(<<"boom">>)>>),
          GroupOf(Select(Seq2(Show(<<"$y">>), Cmd(<<"break">>))), Here),
          GroupOf(Select(Show(<<"$y">>)), Here),
          Pipe(<<GroupOf(A, <<>>), GroupOf(Bg(Cmd(<<"ls">>)), <<>>)>>, FALSE),
          Pipe(<<A, SimpleCmd(<<"cat">>, To(">", "g"))>>, FALSE),
          Steps(<<Cmd(<<"cd", "d">>), Sub(Cmd(<<"cd", "e">>), <<>>), Cmd(<<"cd", "-">>)>>),
          Steps(<<CaptureOf("x", GroupOf(Seq2(SimpleCmd(<<"exec">>, To(">", "g")), A), <<>>)), A>>)}
Mixed == Redirecting \cup Piping \cup Others
Sequential == Nested \cup Mixed

(* A subshell that begins, in the next stage, while another is under way, and
   both take their time: ( c; echo a; ls ) | { read x; ( ls ); } *)
Slow == Cmd(<<"ls">>)
Parenthesised ==
    {Pipe(<<Sub(Steps(<<c, A, Slow>>), <<>>), GroupOf(Seq2(ReadX, Sub(Slow, <<>>)), <<>>)>>, FALSE) :
       c \in {Cmd(<<"cd", "d">>), Opt("pipefail"), Let("y", "1")}}

Meaning == Says(prog, Start)
AsMeant ==
    ~Running /\ Meaning.k \in {"ret", "exit"} =>
        /\ sh.store = Meaning.e.store /\ sh.params = <<Meaning.e.params>>
        /\ sh.opts = Meaning.e.opts /\ sh.cwd = Meaning.e.cwd /\ sh.oldpwd = Meaning.e.oldpwd
        /\ sh.exited = <<Meaning.v>>
        /\ \A o \in DOMAIN wrote : wrote[o] = Meaning.e.wrote[o]
Restored ==
    ~Running /\ ~sh.crashed /\ (\A t \in Thread \ {1} : threads[t].stack = <<>>) =>
        \A fd \in {0, 1} : sh.fds[fd] = Shell.fds[fd]
(* A program without pipelines of concurrent jumps leaves the variables, the
   parameters, the options, the directory, the status and every file as POSIX
   says, however its loops, functions, redirections and captures are nested; and
   once it and every stage it started have ended, the descriptors 0 and 1 are
   what they were, whatever jumped out of the redirections. *)
Agrees == AsMeant /\ Restored
(* "(commands) runs in-process with full isolation - the variable store,
   working directory, shell options, and positional parameters are snapshotted
   before execution and restored afterward" (src/DESIGN.md:457): nothing that
   Parenthesised does between parentheses is left when it has ended. *)
SubshellsIsolated ==
    ~Running => sh.cwd = "home" /\ sh.opts = {} /\ sh.params = <<<<>>>> /\ sh.store["y"] = Unset
FileLines == [o \in File |-> <<"l1", "l2">>]
=============================================================================
