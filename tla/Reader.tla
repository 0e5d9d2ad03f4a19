-------------------------------- MODULE Reader --------------------------------
(* The prompt of src/repl/index.ts (promptLoop): the user enters a program line
   by line; a command that is incomplete is kept and gets the next line, one
   that is complete is executed, one that is wrong is dropped. *)
EXTENDS Parser

CONSTANTS Programs,  \* sequences of commands the user may have in mind
          CodeOf(_)  \* [toks, n]: what a command is typed as, the tree it stands for

VARIABLES program,  \* the commands the user has in mind
          given,    \* the commands the user gave up half way
          at,       \* <<c, l>>: line l of command c is typed next
          buffer,   \* continuationBuffer: the lines entered so far
          ran,      \* the trees that were executed
          complained \* the prompt reported an error

vars == <<program, given, at, buffer, ran, complained>>

(* Line l of a command: the tokens between its newlines. *)
NewLines(toks) == {i \in 1..(Len(toks) + 1) : At(toks, i) = "nl" \/ i = Len(toks) + 1}
LineCount(toks) == Len(SelectSeq(toks, LAMBDA tok : tok = "nl")) + 1
Number(toks, i) == LineCount(SubSeq(toks, 1, i - 1))
Line(toks, l) ==
    LET end == CHOOSE i \in NewLines(toks) : Number(toks, i) = l
        start == IF l = 1 THEN 1 ELSE 1 + CHOOSE i \in NewLines(toks) : Number(toks, i) = l - 1
    IN  SubSeq(toks, start, end - 1)
Typed == Line(program[at[1]].toks, at[2])
LastLine == at[2] = LineCount(program[at[1]].toks)
(* trim: no newlines at either end. *)
Trimmed(toks) ==
    LET from == SkipNl(toks, 1)
        ends == {j \in from..Len(toks) : toks[j] # "nl"}
    IN  IF ends = {} THEN <<>> ELSE SubSeq(toks, from, CHOOSE j \in ends : \A k \in ends : j >= k)

Init ==
    /\ \E p \in Programs : program = [i \in DOMAIN p |-> CodeOf(p[i])]
    /\ given = {}
    /\ at = <<1, 1>>
    /\ buffer = <<>>
    /\ ran = <<>>
    /\ complained = FALSE

(* The user goes on to the next line, or to the next command. *)
GoOn == at' = IF LastLine THEN <<at[1] + 1, 1>> ELSE <<at[1], at[2] + 1>>
(* The callback of ui.start with a line. *)
EnterLine ==
    LET input == IF buffer = <<>> THEN Typed ELSE buffer \o <<"nl">> \o Typed
        r == Parse(Trimmed(input))
    IN  /\ at[1] <= Len(program)
        /\ buffer' = IF Trimmed(input) # <<>> /\ r.k = "incomplete" THEN input ELSE <<>>
        /\ IF r.k = "ok" /\ r.n # NoTree
           THEN ran' = Append(ran, r.n) ELSE UNCHANGED ran
        /\ complained' = (complained \/ r.k = "error")
        /\ GoOn
        /\ UNCHANGED <<program, given>>
(* ctrl-C: the lines entered so far are dropped; the user gives the command up. *)
Interrupt ==
    /\ at[1] <= Len(program) /\ at[2] > 1
    /\ buffer' = <<>>
    /\ at' = <<at[1] + 1, 1>>
    /\ given' = given \cup {at[1]}
    /\ UNCHANGED <<program, ran, complained>>
(* ctrl-D ends the shell, and so does the end of what the user has in mind. *)
Next == EnterLine \/ Interrupt
Spec == Init /\ [][Next]_vars

--------------------------------------------------------------------------
(* What is executed is what was typed: every command whose last line has been
   entered, as the tree it was written as, once, in order; nothing of a command
   that is not complete, or that was given up; and no line of it is an error. *)
Meant(k) == SelectSeq([i \in 1..k |-> IF i \in given THEN NoTree ELSE program[i].n],
                      LAMBDA n : n # NoTree)
RunsWhatWasTyped ==
    /\ ran = Meant(at[1] - 1)
    /\ ~complained
=============================================================================
