-------------------------------- MODULE Parser --------------------------------
(* The parser of src/parser/parser.ts: recursive descent over the tokens of
   the lexer. A token is a string: an operator, or a word (every word stands
   for itself; "x=" is an assignment, "@f" names a JavaScript function, "@{}"
   is an inline one). A tree is a tuple whose first element names its type.
   The operators are pure; Reader is the prompt that calls them. *)
EXTENDS Integers, Sequences

CONSTANT FunctionSlots  \* <<name, k>>: argument k of that function is a function

Redirects == {">", ">>", "<", "&>", "<<<"}
HereDocs == {"<<"}      \* the token of a here-document carries its body
Operators == {"|", "|&", "&&", "||", ";", "&", "nl", "(", ")", "{", "}", "!", ";;", "eof"}
             \cup Redirects \cup HereDocs
Inline == {"@{}", "@!{}"}
JsNames == {"@f", "@!f", "@where"}
Assignments == {"x=", "x=1", "x+=1", "a[0]=1"}
Quoted == {"'a'", "$x", "*", "a[0]=1"}  \* words that are more than one plain literal
CompoundTerminators == {"then", "elif", "else", "fi", "do", "done", "esac", "in"}

At(ts, i) == IF i <= Len(ts) THEN ts[i] ELSE "eof"
IsWord(tok) == tok \notin Operators \cup Inline
(* The value of a word that is a single literal, or nothing. *)
LiteralValue(tok) == IF IsWord(tok) /\ tok \notin Quoted THEN tok ELSE ""
Terminates(tok) == tok = ";;" \/ LiteralValue(tok) \in CompoundTerminators

(* What parsing a construct gives: where it stopped and its tree, or an error.
   "incomplete" is IncompleteInputError: the prompt asks for another line. *)
Parsed(i, n) == [k |-> "ok", i |-> i, n |-> n]
NoTree == <<"none">>
Error == [k |-> "error", i |-> 0, n |-> NoTree]
Incomplete == [k |-> "incomplete", i |-> 0, n |-> NoTree]
Bind(r, F(_)) == IF r.k = "ok" THEN F(r) ELSE r
Fail(tok) == IF tok = "eof" THEN Incomplete ELSE Error

SkipNl(ts, i) ==
    LET stops == {j \in i..(Len(ts) + 1) : At(ts, j) # "nl"}
    IN  CHOOSE j \in stops : \A k \in stops : j <= k
(* Fault: the end of the input where a keyword must come is an error. *)
ExpectKeywordNow(ts, i, kw) ==
    LET j == SkipNl(ts, i)
    IN  IF LiteralValue(At(ts, j)) = kw THEN Parsed(j + 1, NoTree) ELSE Error
ExpectKeyword(ts, i, kw) ==
    LET j == SkipNl(ts, i)
        tok == At(ts, j)
    IN  IF tok = "eof" THEN Incomplete
        ELSE IF LiteralValue(tok) = kw THEN Parsed(j + 1, NoTree) ELSE Error

(* Redirections after a command or a group. *)
OneRedirection(ts, i) ==
    IF At(ts, i) \in HereDocs THEN Parsed(i + 1, <<"<<", "body">>)
    ELSE IF IsWord(At(ts, i + 1)) THEN Parsed(i + 2, <<At(ts, i), At(ts, i + 1)>>) ELSE Error
IsRedirect(tok) == tok \in Redirects \cup HereDocs
RECURSIVE Redirections(_, _, _)
Redirections(ts, i, rs) ==
    IF ~IsRedirect(At(ts, i)) THEN Parsed(i, rs)
    ELSE Bind(OneRedirection(ts, i), LAMBDA r : Redirections(ts, r.i, Append(rs, r.n)))

(* x=(a b c): the elements up to the parenthesis, over any number of lines. *)
RECURSIVE ArrayFrom(_, _, _)
ArrayFrom(ts, i, es) ==
    LET tok == At(ts, i)
    IN  CASE tok = ")" -> Parsed(i + 1, es)
          [] tok = "nl" -> ArrayFrom(ts, i + 1, es)
          [] IsWord(tok) -> ArrayFrom(ts, i + 1, Append(es, tok))
          [] OTHER -> Fail(tok)
Assignment(ts, i) ==
    IF At(ts, i) = "x=" /\ At(ts, i + 1) = "("
    THEN Bind(ArrayFrom(ts, i + 2, <<>>), LAMBDA r : Parsed(r.i, <<"array", r.n>>))
    ELSE Parsed(i + 1, <<"assign", At(ts, i)>>)

(* A simple command: assignments before its first word, words, redirections. *)
RECURSIVE SimpleFrom(_, _, _, _, _)
SimpleFrom(ts, i, as, ws, rs) ==
    LET tok == At(ts, i)
    IN  CASE IsRedirect(tok) ->
               Bind(OneRedirection(ts, i), LAMBDA r : SimpleFrom(ts, r.i, as, ws, Append(rs, r.n)))
          [] tok = "!" /\ ws # <<>> -> SimpleFrom(ts, i + 1, as, Append(ws, tok), rs)
          [] tok \in Assignments /\ ws = <<>> ->
               Bind(Assignment(ts, i), LAMBDA r : SimpleFrom(ts, r.i, Append(as, r.n), ws, rs))
          [] IsWord(tok) -> SimpleFrom(ts, i + 1, as, Append(ws, tok), rs)
          [] OTHER -> IF as = <<>> /\ ws = <<>> /\ rs = <<>> THEN Fail(tok)
                      ELSE Parsed(i, <<"cmd", as, ws, rs>>)
SimpleCommand(ts, i) == SimpleFrom(ts, i, <<>>, <<>>, <<>>)

(* A JavaScript argument (consumeJsArg): everything up to what ends a shell
   command, outside of brackets. *)
RECURSIVE JsArgEnd(_, _, _)
JsArgEnd(ts, i, depth) ==
    LET tok == At(ts, i)
    IN  CASE tok = "eof" -> i
          [] tok \in {"(", "{"} -> JsArgEnd(ts, i + 1, depth + 1)
          [] tok \in {")", "}"} -> IF depth = 0 THEN i ELSE JsArgEnd(ts, i + 1, depth - 1)
          [] depth = 0 /\ tok \in {"nl", ";", ";;", "|", "|&", "||", "&", "&&", "&>", ">>", "<<", "<<<"} -> i
          [] OTHER -> JsArgEnd(ts, i + 1, depth)
RECURSIVE JsFrom(_, _, _, _, _)
JsFrom(ts, i, name, args, rs) ==
    LET tok == At(ts, i)
        done == JsArgEnd(ts, i, 0)
    IN  CASE IsRedirect(tok) ->
               Bind(OneRedirection(ts, i), LAMBDA r : JsFrom(ts, r.i, name, args, Append(rs, r.n)))
          [] (IsWord(tok) \/ tok = "(") /\ <<name, Len(args)>> \in FunctionSlots ->
               JsFrom(ts, done, name, Append(args, <<"js", SubSeq(ts, i, done - 1)>>), rs)
          [] IsWord(tok) -> JsFrom(ts, i + 1, name, Append(args, <<"word", <<tok>>>>), rs)
          [] tok \in Inline -> JsFrom(ts, i + 1, name, Append(args, <<"js", <<tok>>>>), rs)
          [] OTHER -> Parsed(i, <<"jsfun", name, args, rs>>)
InlineJs(ts, i) ==
    Bind(Redirections(ts, i + 1, <<>>), LAMBDA r : Parsed(r.i, <<"inline", At(ts, i), r.n>>))

(* [[ words ]]: the operators inside are words. *)
RECURSIVE ConditionalFrom(_, _, _)
ConditionalFrom(ts, i, ws) ==
    LET tok == At(ts, i)
    IN  CASE tok = "]]" -> Parsed(i + 1, <<"cond", ws>>)
          [] IsWord(tok) \/ tok \in {"&&", "||", "(", ")", "!", "<", ">"} ->
               ConditionalFrom(ts, i + 1, Append(ws, tok))
          [] OTHER -> Fail(tok)

(* The words of for and select up to a keyword of the compound commands. *)
RECURSIVE ItemsFrom(_, _, _)
ItemsFrom(ts, i, ws) ==
    IF IsWord(At(ts, i)) /\ ~Terminates(At(ts, i)) THEN ItemsFrom(ts, i + 1, Append(ws, At(ts, i)))
    ELSE Parsed(i, ws)
RECURSIVE PatternsFrom(_, _, _)
PatternsFrom(ts, i, ws) ==
    IF ~IsWord(At(ts, i)) THEN Parsed(i, ws)
    ELSE IF At(ts, i + 1) = "|" THEN PatternsFrom(ts, SkipNl(ts, i + 2), Append(ws, At(ts, i)))
    ELSE Parsed(i + 1, Append(ws, At(ts, i)))

--------------------------------------------------------------------------
RECURSIVE ParseList(_, _)
RECURSIVE ParsePipeline(_, _)
RECURSIVE ParseCommand(_, _)

(* list: and-ors with ; & or a newline between them. *)
Ends(tok) == tok \in {"eof", ")", "}"} \/ Terminates(tok)
RECURSIVE ParseAndOr(_, _, _)
ParseAndOr(ts, i, left) ==
    LET tok == At(ts, i)
    IN  IF left = NoTree
        THEN Bind(ParsePipeline(ts, i), LAMBDA r : ParseAndOr(ts, r.i, r.n))
        ELSE IF tok \in {"&&", "||"}
        THEN Bind(ParsePipeline(ts, SkipNl(ts, i + 1)),
                  LAMBDA r : ParseAndOr(ts, r.i, <<"andor", left, tok, r.n>>))
        ELSE Parsed(i, left)
RECURSIVE EntriesFrom(_, _, _)
EntriesFrom(ts, i, es) ==
    Bind(ParseAndOr(ts, i, NoTree), LAMBDA r :
      LET tok == At(ts, r.i)
          sep == IF tok \in {";", "&", "nl"} THEN tok ELSE ";"
          next == SkipNl(ts, r.i + 1)
          more == Append(es, <<r.n, sep>>)
      IN  IF tok \notin {";", "&", "nl"} THEN Parsed(r.i, more)
          ELSE IF Ends(At(ts, next)) THEN Parsed(next, more)
          ELSE EntriesFrom(ts, next, more))
ParseList(ts, i) ==
    Bind(EntriesFrom(ts, i, <<>>), LAMBDA r :
      IF Len(r.n) = 1 /\ r.n[1][2] = ";" THEN Parsed(r.i, r.n[1][1])
      ELSE Parsed(r.i, <<"list", r.n>>))

(* pipeline: an optional !, commands with | or |& between them. *)
RECURSIVE StagesFrom(_, _, _, _)
StagesFrom(ts, i, cs, ops) ==
    Bind(ParseCommand(ts, i), LAMBDA r :
      IF At(ts, r.i) \in {"|", "|&"}
      THEN StagesFrom(ts, SkipNl(ts, r.i + 1), Append(cs, r.n), Append(ops, At(ts, r.i)))
      ELSE Parsed(r.i, <<Append(cs, r.n), ops>>))
ParsePipeline(ts, i) ==
    LET negated == At(ts, i) = "!"
    IN  Bind(StagesFrom(ts, IF negated THEN i + 1 ELSE i, <<>>, <<>>), LAMBDA r :
          IF Len(r.n[1]) = 1 /\ ~negated THEN Parsed(r.i, r.n[1][1])
          ELSE Parsed(r.i, <<"pipe", r.n[1], r.n[2], negated>>))

(* A list that starts after newlines, and the closing token or keyword. *)
Block(ts, i) == ParseList(ts, SkipNl(ts, i))
Until(ts, i, kw) ==
    Bind(Block(ts, i), LAMBDA r :
      Bind(ExpectKeyword(ts, r.i, kw), LAMBDA e : Parsed(e.i, r.n)))
Enclosed(ts, i, close, type) ==
    Bind(Block(ts, i), LAMBDA r :
      LET j == SkipNl(ts, r.i)
      IN  IF At(ts, j) # close THEN Fail(At(ts, j))
          ELSE Bind(Redirections(ts, j + 1, <<>>), LAMBDA rs : Parsed(rs.i, <<type, r.n, rs.n>>)))

(* if ... then ... and what follows: elif, else or nothing; fi is left to the
   caller, once for the whole chain. *)
RECURSIVE IfFrom(_, _)
IfFrom(ts, i) ==
    Bind(Until(ts, i, "then"), LAMBDA c :
      Bind(Block(ts, c.i), LAMBDA y :
        LET j == SkipNl(ts, y.i)
            kw == LiteralValue(At(ts, j))
        IN  IF kw = "elif"
            THEN Bind(IfFrom(ts, j + 1), LAMBDA n : Parsed(n.i, <<"if", c.n, y.n, n.n>>))
            ELSE IF kw = "else"
            THEN Bind(Block(ts, j + 1), LAMBDA n : Parsed(n.i, <<"if", c.n, y.n, n.n>>))
            ELSE Parsed(j, <<"if", c.n, y.n, NoTree>>)))
ParseIf(ts, i) ==
    Bind(IfFrom(ts, i), LAMBDA r :
      Bind(ExpectKeyword(ts, r.i, "fi"), LAMBDA e : Parsed(e.i, r.n)))
DoDone(ts, i) == Bind(ExpectKeyword(ts, i, "do"), LAMBDA d : Until(ts, d.i, "done"))
ParseWhile(ts, i, until) ==
    Bind(Block(ts, i), LAMBDA c :
      Bind(DoDone(ts, c.i), LAMBDA b : Parsed(b.i, <<"while", c.n, b.n, until>>)))
(* for and select: a name, perhaps in and words, perhaps a semicolon. *)
AfterSemi(ts, i) == IF At(ts, i) = ";" THEN i + 1 ELSE i
ParseFor(ts, i, type) ==
    LET at == SkipNl(ts, i)
        name == LiteralValue(At(ts, at))
        j == SkipNl(ts, at + 1)
        given == LiteralValue(At(ts, j)) = "in"
        items == IF given THEN ItemsFrom(ts, j + 1, <<>>) ELSE Parsed(j, <<>>)
    IN  IF name = "" THEN Error
        ELSE Bind(DoDone(ts, AfterSemi(ts, items.i)), LAMBDA b :
               Parsed(b.i, <<type, name, given, items.n, b.n>>))
(* for ((init; condition; update)): raw tokens up to the first parenthesis that
   closes; the second is taken when it is there. *)
RECURSIVE ArithmeticEnd(_, _)
ArithmeticEnd(ts, i) ==
    IF At(ts, i) \in {"eof", ")"} THEN i ELSE ArithmeticEnd(ts, i + 1)
ParseArithmeticFor(ts, i) ==
    LET close == ArithmeticEnd(ts, i)
        next == IF At(ts, close + 1) = ")" THEN close + 2 ELSE close + 1
    IN  IF At(ts, close) = "eof" THEN Error
        ELSE Bind(DoDone(ts, AfterSemi(ts, next)), LAMBDA b :
               Parsed(b.i, <<"cfor", SubSeq(ts, i, close - 1), b.n>>))

(* case word in (pattern) list ;; ... esac *)
RECURSIVE CasesFrom(_, _, _)
CaseItem(ts, i) ==
    LET first == IF At(ts, i) = "(" THEN i + 1 ELSE i
        ps == PatternsFrom(ts, first, <<>>)
        j == SkipNl(ts, ps.i + 1)
        empty == At(ts, j) = ";;" \/ LiteralValue(At(ts, j)) = "esac"
    IN  IF At(ts, ps.i) # ")" THEN Error
        ELSE Bind(IF empty THEN Parsed(j, NoTree) ELSE ParseList(ts, j), LAMBDA b :
               LET k == SkipNl(ts, b.i)
               IN  Parsed(IF At(ts, k) = ";;" THEN SkipNl(ts, k + 1) ELSE k, <<ps.n, b.n>>))
CasesFrom(ts, i, items) ==
    IF LiteralValue(At(ts, i)) = "esac" THEN Parsed(i + 1, items)
    ELSE IF At(ts, i) = "eof" THEN Incomplete
    ELSE Bind(CaseItem(ts, i), LAMBDA r : CasesFrom(ts, r.i, Append(items, r.n)))
ParseCase(ts, i) ==
    LET j == SkipNl(ts, i)
    IN  IF ~IsWord(At(ts, j)) THEN Error
        ELSE Bind(ExpectKeyword(ts, j + 1, "in"), LAMBDA e :
               Bind(CasesFrom(ts, SkipNl(ts, e.i), <<>>), LAMBDA r :
                 Parsed(r.i, <<"case", At(ts, j), r.n>>)))
ParseFunction(ts, i, name) ==
    Bind(ParseCommand(ts, SkipNl(ts, i)), LAMBDA b : Parsed(b.i, <<"fun", name, b.n>>))

(* command: what the first token says. *)
ParseCommand(ts, i) ==
    LET tok == At(ts, i)
        kw == LiteralValue(tok)
        double == At(ts, SkipNl(ts, i + 1)) = "(" /\ At(ts, SkipNl(ts, i + 1) + 1) = "("
    IN  CASE tok = "(" -> Enclosed(ts, i + 1, ")", "subshell")
          [] tok = "{" -> Enclosed(ts, i + 1, "}", "group")
          [] tok \in Inline -> InlineJs(ts, i)
          [] kw = "if" -> ParseIf(ts, i + 1)
          [] kw = "while" -> ParseWhile(ts, i + 1, FALSE)
          [] kw = "until" -> ParseWhile(ts, i + 1, TRUE)
          [] kw = "for" /\ double -> ParseArithmeticFor(ts, SkipNl(ts, i + 1) + 2)
          [] kw \in {"for", "select"} -> ParseFor(ts, i + 1, kw)
          [] kw = "case" -> ParseCase(ts, i + 1)
          [] kw = "[[" -> ConditionalFrom(ts, i + 1, <<>>)
          [] kw # "" /\ kw \notin Assignments /\ At(ts, i + 1) = "(" /\ At(ts, i + 2) = ")" ->
               ParseFunction(ts, i + 3, kw)
          [] kw \in JsNames -> JsFrom(ts, i + 1, kw, <<>>, <<>>)
          [] OTHER -> SimpleCommand(ts, i)

(* parse: a whole input, or nothing when it holds only newlines. *)
Parse(ts) ==
    LET i == SkipNl(ts, 1)
    IN  IF At(ts, i) = "eof" THEN Parsed(i, NoTree)
        ELSE Bind(ParseList(ts, i), LAMBDA r :
               IF At(ts, SkipNl(ts, r.i)) = "eof" THEN r ELSE Error)
=============================================================================
