-------------------------------- MODULE Typing --------------------------------
(* The line editor and the lexer: a user types a command character by
   character, over as many lines as it takes. After each key the line is lexed
   as far as it goes and drawn in colour (src/colorize); at the end of a line
   the lexer says whether the command goes on (src/repl, promptLoop). *)
EXTENDS Lexer

CONSTANT Alphabets  \* [chars, most]: the characters typed, and how many at most

VARIABLES alphabet, \* the one of this session
          context,  \* the lines of the command that are already entered
          line,     \* the line that is being typed
          lexed,    \* what the lexer made of both when the line was last drawn
          drawn     \* the text of the line as drawn, its colour codes apart

vars == <<alphabet, context, line, lexed, drawn>>
NoContext == <<"none">>
Continued == context # NoContext
Input == IF Continued THEN context \o <<"\n">> \o line ELSE line
LineStart == IF Continued THEN Len(context) + 2 ELSE 1

Init ==
    /\ alphabet \in Alphabets
    /\ context = NoContext
    /\ line = <<>>
    /\ lexed = Lex(<<>>)
    /\ drawn = <<>>
(* The line is lexed, with the lines before it, and drawn. *)
Redraw ==
    \E full \in {Input'} : \E r \in {Lex(full)} :
      /\ lexed' = r
      /\ drawn' = Colorize(full, LineStart', r)
(* A key of the line editor; a newline in it cannot be typed. *)
Key(c) ==
    /\ Len(Input) < alphabet.most
    /\ line' = Append(line, c)
    /\ UNCHANGED <<alphabet, context>>
    /\ Redraw
(* input.trim(): no blanks and newlines at either end. *)
Space == Blank \cup {"\n"}
Trimmed(text) ==
    LET from == SkipWhile(text, 1, Space)
        ends == {j \in from..Len(text) : text[j] \notin Space}
    IN  IF ends = {} THEN <<>> ELSE SubSeq(text, from, CHOOSE j \in ends : \A k \in ends : j >= k)
(* Enter: an incomplete command takes another line, and is kept as it was typed;
   any other is over. What is lexed is the command without blanks around it. *)
Enter ==
    /\ IF \E text \in {Trimmed(Input)} : text # <<>> /\ Lex(text).k = "incomplete"
       THEN Len(Input) < alphabet.most /\ context' = Input
       ELSE context' = NoContext
    /\ line' = <<>>
    /\ UNCHANGED alphabet
    /\ Redraw
Next == Enter \/ \E c \in alphabet.chars \ {"\n"} : Key(c)
Spec == Init /\ [][Next]_vars

--------------------------------------------------------------------------
(* What is drawn for a line is the line: colour codes apart, no character is
   lost or written twice, also where a token began on an earlier line. *)
DrawsTheLine == drawn = line

(* The tokens are in order and do not overlap, and what lies between them is
   blanks or a comment that stands at the start of a word: nothing else that was
   typed is left out of the command. *)
Gap(from, to) == Text(Input, from, to)
IsBlankOrComment(gap, first) ==
    LET i == SkipWhile(gap, 1, Blank)
    IN  i > Len(gap) \/ (gap[i] = "#" /\ (first \/ i > 1))
TokensCover(toks) ==
    LET n == Len(toks)
        end(i) == IF i = 0 THEN 1 ELSE toks[i].to
        start(i) == IF i > n THEN Len(Input) + 1 ELSE toks[i].from
    IN  \A i \in 0..n :
          /\ end(i) <= start(i + 1)
          /\ IsBlankOrComment(Gap(end(i), start(i + 1)), i = 0 \/ toks[i].t # "word")
NothingLeftOut == lexed.k = "ok" => TokensCover(lexed.toks)

(* Text between double quotes, its special characters escaped, is one word
   that holds exactly that text: quoting loses and adds nothing. *)
InQuotes == {"$", Backtick, "\"", "\\"}
Escaped(text) == [i \in 1..(2 * Len(text)) |->
                    LET c == text[(i + 1) \div 2]
                    IN  IF i % 2 = 0 THEN c ELSE IF c \in InQuotes THEN "\\" ELSE ""]
Quoted(text) == <<"\"">> \o SelectSeq(Escaped(text), LAMBDA c : c # "") \o <<"\"">>
RECURSIVE JoinedText(_)
JoinedText(parts) == IF parts = <<>> THEN <<>> ELSE Head(parts).text \o JoinedText(Tail(parts))
QuotingIsExact ==
    \A r \in {Lex(Quoted(Input))} :
        /\ r.k = "ok" /\ Len(r.toks) = 1
        /\ Len(r.toks[1].segs) = 1
        /\ LET seg == r.toks[1].segs[1]
           IN  /\ \A i \in 1..Len(seg.parts) : seg.parts[i].t = "literal"
               /\ JoinedText(seg.parts) = Input

(* The tokens before the cursor do not change as typing goes on: what was
   drawn, and completed, of them is what the command will be made of. *)
Settled == SelectSeq(lexed.toks, LAMBDA tok : tok.to < Len(Input))
TokensSettle ==
    [][Len(Input') > Len(Input) =>
         /\ Len(Settled) <= Len(lexed'.toks)
         /\ \A i \in 1..Len(Settled) : Settled[i] = lexed'.toks[i]]_vars
=============================================================================
