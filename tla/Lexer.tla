--------------------------------- MODULE Lexer ---------------------------------
(* The lexer of src/parser/lexer.ts. Its input is a sequence of characters; the
   operators are pure. A scan gives where it stopped and what it read, or why it
   could not: "incomplete" is IncompleteInputError, which makes the prompt ask
   for another line, "error" a LexerError, "thrown" any other exception. *)
EXTENDS Integers, Sequences, FiniteSets

Backtick == "bt"  \* TLA+ strings hold no backtick
Blank == {" ", "\t"}
Digit == {"0", "1", "2"}
NameStart == {"a", "b", "_"}
NameChar == NameStart \cup Digit
Special == {"?", "$", "!", "#", "-", "@", "*"}
Octal == {"0", "1", "2"}
Hex == Octal \cup {"a", "b"}
(* Escapes after a dollar and a quote that stand for one control character. *)
Control == [c \in {"a", "b", "\\", "'", "\""} |->
              CASE c = "a" -> "BEL" [] c = "b" -> "BS" [] OTHER -> c]

At(s, i) == IF i \in 1..Len(s) THEN s[i] ELSE ""
Text(s, i, j) == SubSeq(s, i, j - 1)
(* The first position from i on that holds one of cs, or the end. *)
Find(s, i, cs) ==
    LET hits == {j \in i..Len(s) : s[j] \in cs}
    IN  IF hits = {} THEN Len(s) + 1 ELSE CHOOSE j \in hits : \A k \in hits : j <= k
SkipWhile(s, i, cs) ==
    LET stops == {j \in i..Len(s) : s[j] \notin cs}
    IN  IF stops = {} THEN Len(s) + 1 ELSE CHOOSE j \in stops : \A k \in stops : j <= k

Seg(type, text) == [t |-> type, text |-> text, parts |-> <<>>]
Read(i, v) == [k |-> "ok", i |-> i, v |-> v]
Stop(why) == [k |-> why, i |-> 0, v |-> Seg("none", <<>>)]
Incomplete == Stop("incomplete")
Bind(r, F(_)) == IF r.k = "ok" THEN F(r) ELSE r
(* The text of a segment is collected before the next one is added. *)
Flush(parts, text) == IF text = <<>> THEN parts ELSE Append(parts, Seg("literal", text))

(* Single quotes: no escapes. *)
SingleQuoted(s, i) ==
    LET j == Find(s, i + 1, {"'"})
    IN  IF j > Len(s) THEN Incomplete ELSE Read(j + 1, Seg("single", Text(s, i + 1, j)))
(* A backslash outside quotes: the end of the input asks for more, a newline
   vanishes with it. *)
Backslash(s, i) ==
    CASE At(s, i + 1) = "" -> Incomplete
      [] At(s, i + 1) = "\n" -> Read(i + 2, Seg("literal", <<>>))
      [] OTHER -> Read(i + 2, Seg("literal", <<At(s, i + 1)>>))

(* $(...) and <(...): parentheses are counted, quotes are not looked at. *)
RECURSIVE Closing(_, _, _)
Closing(s, i, depth) ==
    LET j == Find(s, i, {"(", ")"})
    IN  CASE j > Len(s) -> 0
          [] s[j] = "(" -> Closing(s, j + 1, depth + 1)
          [] depth = 1 -> j
          [] OTHER -> Closing(s, j + 1, depth - 1)
Parenthesised(s, i, type) ==
    LET j == Closing(s, i, 1)
    IN  IF j = 0 THEN Incomplete ELSE Read(j + 1, Seg(type, Text(s, i, j)))
(* $((...)): pairs of parentheses are counted. *)
RECURSIVE ClosingPair(_, _, _)
ClosingPair(s, i, depth) ==
    LET pair == <<At(s, i), At(s, i + 1)>>
    IN  CASE i > Len(s) -> 0
          [] pair = <<"(", "(">> -> ClosingPair(s, i + 2, depth + 1)
          [] pair = <<")", ")">> -> IF depth = 1 THEN i ELSE ClosingPair(s, i + 2, depth - 1)
          [] OTHER -> ClosingPair(s, i + 1, depth)
Arithmetic(s, i) ==
    LET j == ClosingPair(s, i, 1)
    IN  IF j = 0 THEN Incomplete ELSE Read(j + 2, Seg("arithmetic", Text(s, i, j)))
(* Backticks: a backslash escapes a backtick, a backslash and a dollar. *)
RECURSIVE BacktickFrom(_, _, _)
BacktickFrom(s, i, body) ==
    CASE i > Len(s) -> Incomplete
      [] s[i] = Backtick -> Read(i + 1, Seg("command", body))
      [] s[i] = "\\" /\ At(s, i + 1) \in {Backtick, "\\", "$"} ->
           BacktickFrom(s, i + 2, Append(body, s[i + 1]))
      [] OTHER -> BacktickFrom(s, i + 1, Append(body, s[i]))
(* A dollar and single quotes: C escapes; an unknown one keeps its backslash. *)
RECURSIVE AnsiFrom(_, _, _)
AnsiFrom(s, i, v) ==
    LET esc == At(s, i + 1)
        number(from, cs, most) ==
            CHOOSE j \in from..(from + most) :
               /\ \A k \in from..(j - 1) : At(s, k) \in cs
               /\ j = from + most \/ At(s, j) \notin cs
        hex == number(i + 2, Hex, 2)
        octal == number(i + 1, Octal, 3)
    IN  CASE i > Len(s) -> Incomplete
          [] s[i] = "'" -> Read(i + 1, Seg("literal", v))
          [] s[i] # "\\" -> AnsiFrom(s, i + 1, Append(v, s[i]))
          [] esc = "" -> Incomplete
          [] esc = "x" -> AnsiFrom(s, hex, v \o IF hex = i + 2 THEN <<"\\", "x">> ELSE <<"chr">>)
          [] esc \in Octal -> AnsiFrom(s, octal, Append(v, "chr"))
          [] esc \in DOMAIN Control -> AnsiFrom(s, i + 2, Append(v, Control[esc]))
          [] OTHER -> AnsiFrom(s, i + 2, v \o <<"\\", esc>>)

(* Double quotes: variables and substitutions inside; a backslash escapes only what is
   special there. *)
RECURSIVE DoubleFrom(_, _, _, _)
RECURSIVE Dollar(_, _)
(* Fault: a backslash escapes no backslash. *)
DoubleFromOneBackslash(s, i, parts, text) ==
    LET c == At(s, i)
        more(r) == DoubleFrom(s, r.i, Append(Flush(parts, text), r.v), <<>>)
    IN  CASE c = "" -> Incomplete
          [] c = "\"" -> Read(i + 1, [Seg("double", <<>>) EXCEPT !.parts = Flush(parts, text)])
          [] c = "\\" /\ At(s, i + 1) \in {"$", Backtick, "\""} ->
               DoubleFrom(s, i + 2, Flush(parts, text), <<s[i + 1]>>)
          [] c = "$" -> Bind(Dollar(s, i), more)
          [] OTHER -> DoubleFrom(s, i + 1, parts, Append(text, c))
DoubleFrom(s, i, parts, text) ==
    LET c == At(s, i)
        more(r) == DoubleFrom(s, r.i, Append(Flush(parts, text), r.v), <<>>)
    IN  CASE c = "" -> Incomplete
          [] c = "\"" -> Read(i + 1, [Seg("double", <<>>) EXCEPT !.parts = Flush(parts, text)])
          [] c = "\\" /\ At(s, i + 1) \in {"$", Backtick, "\"", "\\", "\n"} ->
               DoubleFrom(s, i + 2, Flush(parts, text),
                          IF s[i + 1] = "\n" THEN <<>> ELSE <<s[i + 1]>>)
          [] c = "$" -> Bind(Dollar(s, i), more)
          [] c = Backtick -> Bind(BacktickFrom(s, i + 1, <<>>), more)
          [] OTHER -> DoubleFrom(s, i + 1, parts, Append(text, c))

(* ${name...}: the operand of an operator is read up to its own brace. *)
RECURSIVE OperandFrom(_, _, _, _, _)
OperandFrom(s, i, parts, text, depth) ==
    LET c == At(s, i)
        more(r) == OperandFrom(s, r.i, Append(Flush(parts, text), r.v), <<>>, depth)
    IN  CASE c = "" -> Incomplete
          [] c = "}" /\ depth = 1 -> Read(i + 1, [Seg("operand", <<>>) EXCEPT !.parts = Flush(parts, text)])
          [] c = "$" -> Bind(Dollar(s, i), more)
          [] c = "\\" -> OperandFrom(s, i + 2, parts, IF At(s, i + 1) = "" THEN text
                                                      ELSE Append(text, At(s, i + 1)), depth)
          [] c = "'" -> Bind(SingleQuoted(s, i), more)
          [] c = "\"" -> Bind(DoubleFrom(s, i + 1, <<>>, <<>>), more)
          [] OTHER -> OperandFrom(s, i + 1, parts, Append(text, c),
                        CASE c = "{" -> depth + 1 [] c = "}" -> depth - 1 [] OTHER -> depth)
Variable(name, operator, operand) ==
    [Seg("variable", <<name>> \o operator) EXCEPT !.parts = operand]
Operand(s, i, name, operator) ==
    Bind(OperandFrom(s, i, <<>>, <<>>, 1), LAMBDA r : Read(r.i, Variable(name, operator, r.v.parts)))
RECURSIVE BraceFrom(_, _, _)
BraceFrom(s, i, name) ==
    LET c == At(s, i)
        next == At(s, i + 1)
        close == Find(s, i + 1, {"]"})
    IN  CASE c = "" -> Incomplete
          [] c = "}" -> Read(i + 1, Variable(name, <<>>, <<>>))
          [] c = "[" /\ name # <<>> -> BraceFrom(s, close + 1, name)
          [] c = ":" /\ next \in {"-", "+", "=", "?"} -> Operand(s, i + 2, name, <<c, next>>)
          [] c = ":" /\ next \in {"}", " ", "(", "+", "-"} \cup Digit -> Operand(s, i + 1, name, <<c>>)
          [] c \in {"%", "#", "/", "^", ","} /\ name # <<>> ->
               IF next = c THEN Operand(s, i + 2, name, <<c, c>>) ELSE Operand(s, i + 1, name, <<c>>)
          [] c \in {"-", "+", "=", "?"} /\ name # <<>> -> Operand(s, i + 1, name, <<c>>)
          [] OTHER -> BraceFrom(s, i + 1, Append(name, c))

Dollar(s, i) ==
    LET c == At(s, i + 1)
        last == SkipWhile(s, i + 1, NameChar)
    IN  CASE c = "'" -> AnsiFrom(s, i + 2, <<>>)
          [] c = "(" /\ At(s, i + 2) = "(" -> Arithmetic(s, i + 3)
          [] c = "(" -> Parenthesised(s, i + 2, "command")
          [] c = "{" -> BraceFrom(s, i + 2, <<>>)
          [] c \in Special \cup Digit -> Read(i + 2, Variable(<<c>>, <<>>, <<>>))
          [] c \in NameStart -> Read(last, Variable(Text(s, i + 1, last), <<>>, <<>>))
          [] OTHER -> Read(i + 1, Seg("literal", <<"$">>))

(* Fault: the bracket is looked for past the end of the word. *)
BracketAcrossWords(s, i) ==
    LET j == Find(s, i + 1, {"]", "\n"})
    IN  IF At(s, j) = "]" THEN Read(j + 1, Seg("glob", Text(s, i, j + 1)))
        ELSE Read(i + 1, Seg("literal", <<"[">>))
(* [...]: a glob when it closes before a blank or an operator, else a literal. *)
Bracket(s, i) ==
    LET from == IF At(s, i + 1) = "]" THEN i + 2 ELSE i + 1
        j == Find(s, from, {"]", "\n", "|", "&", ";", "(", ")"} \cup Blank)
    IN  IF At(s, j) = "]" THEN Read(j + 1, Seg("glob", Text(s, i, j + 1)))
        ELSE Read(i + 1, Seg("literal", <<"[">>))

--------------------------------------------------------------------------
(* A word: segments until a blank or an operator. *)
WordBreak == Blank \cup {"\n", "|", "&", ";", "(", ")"}
LiteralStop == WordBreak \cup {"'", "\"", "\\", "$", Backtick, ">", "<", "*", "?", "[", "{", "}", "#"}
BraceAlone(s, i) == At(s, i + 1) \in Blank \cup {"", "\n", ";"}
WordSegment(s, i) ==
    LET c == s[i]
    IN  CASE c \in {"<", ">"} -> Parenthesised(s, i + 2, "process")
          [] c = "'" -> SingleQuoted(s, i)
          [] c = "\"" -> DoubleFrom(s, i + 1, <<>>, <<>>)
          [] c = "\\" -> Backslash(s, i)
          [] c = "$" -> Dollar(s, i)
          [] c = Backtick -> BacktickFrom(s, i + 1, <<>>)
          [] c \in {"*", "?"} -> Read(i + 1, Seg("glob", <<c>>))
          [] c = "[" -> Bracket(s, i)
          [] c \in {"{", "}", "#"} -> Read(i + 1, Seg("literal", <<c>>))
          [] OTHER -> LET j == Find(s, i, LiteralStop) IN Read(j, Seg("literal", Text(s, i, j)))
(* Fault: a comment may start in the middle of a word. *)
EndsWordAtHash(s, i, segs) ==
    LET c == At(s, i)
    IN  \/ c = "" \/ c \in WordBreak
        \/ c \in {"<", ">"} /\ At(s, i + 1) # "("
        \/ segs = <<>> /\ (c = "}" \/ (c = "{" /\ BraceAlone(s, i)))
        \/ c = "#"
EndsWord(s, i, segs) ==
    LET c == At(s, i)
    IN  \/ c = "" \/ c \in WordBreak
        \/ c \in {"<", ">"} /\ At(s, i + 1) # "("
        \/ segs = <<>> /\ (c \in {"}", "#"} \/ (c = "{" /\ BraceAlone(s, i)))
RECURSIVE WordFrom(_, _, _)
WordFrom(s, i, segs) ==
    IF EndsWord(s, i, segs) THEN Read(i, segs)
    ELSE Bind(WordSegment(s, i), LAMBDA r : WordFrom(s, r.i, Append(segs, r.v)))

(* @{...}: JavaScript up to the brace that closes it. Strings and templates are
   read whole; a string that a line ends in is an error of its own kind. *)
RECURSIVE JsStringEnd(_, _, _)
JsStringEnd(s, i, quote) ==
    CASE At(s, i) = "" -> Incomplete
      [] s[i] = "\\" -> JsStringEnd(s, i + 2, quote)
      [] s[i] = "\n" -> Stop("thrown")
      [] s[i] = quote -> Read(i + 1, <<>>)
      [] OTHER -> JsStringEnd(s, i + 1, quote)
RECURSIVE InterpolationEnd(_, _, _)
InterpolationEnd(s, i, depth) ==
    IF depth = 0 \/ i > Len(s) THEN i
    ELSE InterpolationEnd(s, i + 1, CASE s[i] = "{" -> depth + 1 [] s[i] = "}" -> depth - 1 [] OTHER -> depth)
RECURSIVE JsTemplateEnd(_, _)
JsTemplateEnd(s, i) ==
    CASE At(s, i) = "" -> Incomplete
      [] s[i] = "\\" -> JsTemplateEnd(s, i + 2)
      [] s[i] = Backtick -> Read(i + 1, <<>>)
      [] s[i] = "$" /\ At(s, i + 1) = "{" -> JsTemplateEnd(s, InterpolationEnd(s, i + 2, 1))
      [] OTHER -> JsTemplateEnd(s, i + 1)
RECURSIVE JsFrom(_, _, _)
JsFrom(s, i, depth) ==
    LET c == At(s, i)
        on(r) == JsFrom(s, r.i, depth)
    IN  CASE c = "" -> Incomplete
          [] c \in {"'", "\""} -> Bind(JsStringEnd(s, i + 1, c), on)
          [] c = Backtick -> Bind(JsTemplateEnd(s, i + 1), on)
          [] c = "{" -> JsFrom(s, i + 1, depth + 1)
          [] c = "}" /\ depth = 1 -> Read(i + 1, <<>>)
          [] c = "}" -> JsFrom(s, i + 1, depth - 1)
          [] OTHER -> JsFrom(s, i + 1, depth)

--------------------------------------------------------------------------
(* A token: its type and the positions [from, to) of its text. *)
Token(type, from, to) == [t |-> type, from |-> from, to |-> to, segs |-> <<>>, here |-> <<>>]
Operators == {"@!{", "@{", ";;", "&&", "||", "|&", "|", ";", "&", "(", ")", "!"}
(* The operator at i: the longest, unless & starts a redirection and ! a word. *)
OperatorAt(s, i) ==
    LET c == At(s, i)
        n == At(s, i + 1)
    IN  CASE c = "@" /\ n = "!" /\ At(s, i + 2) = "{" -> "@!{"
          [] c = "@" /\ n = "{" -> "@{"
          [] c = ";" -> IF n = ";" THEN ";;" ELSE ";"
          [] c = "&" -> IF n = "&" THEN "&&" ELSE IF n \in {"<", ">"} THEN "" ELSE "&"
          [] c = "|" -> IF n = "|" THEN "||" ELSE IF n = "&" THEN "|&" ELSE "|"
          [] c \in {"(", ")"} -> c
          [] c = "!" /\ n \in Blank \cup {"\n", "", "("} -> "!"
          [] OTHER -> ""
Size == [op \in Operators |-> CASE op = "@!{" -> 3 [] op \in {"@{", ";;", "&&", "||", "|&"} -> 2 [] OTHER -> 1]
(* An operator token; an inline function also takes its body. *)
OperatorToken(s, i, op) ==
    LET after == i + Size[op]
    IN  IF op \in {"@{", "@!{"}
        THEN Bind(JsFrom(s, after, 1), LAMBDA r : Read(r.i, Token("js", i, r.i)))
        ELSE Read(after, Token(op, i, after))

(* A redirection: an optional number, then the operator. *)
RedirectionAt(s, i) ==
    LET number == SkipWhile(s, i, Digit)
        at == IF At(s, number) \in {"<", ">"} THEN number ELSE i
        c == At(s, at)
        n == At(s, at + 1)
    IN  CASE At(s, i) = "&" -> IF n # ">" THEN 0 ELSE IF At(s, i + 2) = ">" THEN i + 3 ELSE i + 2
          [] c \notin {"<", ">"} -> 0
          [] at = i /\ n = "(" -> 0
          [] c = ">" -> IF n \in {">", "&"} THEN at + 2 ELSE at + 1
          [] c = "<" /\ n = "<" -> IF At(s, at + 2) = "<" THEN at + 3 ELSE at + 2
          [] OTHER -> IF n = "&" THEN at + 2 ELSE at + 1
IsHereDoc(s, i, to) ==
    /\ At(s, to - 2) = "<" /\ At(s, to - 1) = "<"
    /\ ~(to - 3 >= i /\ At(s, to - 3) = "<")
(* The delimiter, perhaps in quotes, perhaps after a dash; the body comes after the line. *)
HereDoc(s, i, to) ==
    LET strip == At(s, to) = "-"
        from == SkipWhile(s, IF strip THEN to + 1 ELSE to, {" "})
        quote == At(s, from)
        quoted == quote \in {"'", "\""}
        end == IF quoted THEN Find(s, from + 1, {quote})
               ELSE Find(s, from, Blank \cup {"\n", ";", "|", "&"})
        delim == IF quoted THEN Text(s, from + 1, end) ELSE Text(s, from, end)
        next == IF quoted /\ end <= Len(s) THEN end + 1 ELSE end
    IN  [Token("<<", i, next) EXCEPT !.here = <<[delim |-> delim, strip |-> strip]>>]

(* The body of a here-document, from the line at i on: where the text after the
   line of the delimiter starts, or 0. *)
Stripped(line) == SubSeq(line, SkipWhile(line, 1, {"\t"}), Len(line))
RECURSIVE BodyEnd(_, _, _)
BodyEnd(s, i, here) ==
    LET nl == Find(s, i, {"\n"})
        line == Text(s, i, nl)
        after == IF nl <= Len(s) THEN nl + 1 ELSE nl
    IN  IF i > Len(s) THEN 0
        ELSE IF (IF here.strip THEN Stripped(line) ELSE line) = here.delim THEN after
        ELSE BodyEnd(s, after, here)
RECURSIVE BodiesEnd(_, _, _)
BodiesEnd(s, i, pending) ==
    IF pending = <<>> THEN i
    ELSE LET j == BodyEnd(s, i, Head(pending)) IN IF j = 0 THEN 0 ELSE BodiesEnd(s, j, Tail(pending))

--------------------------------------------------------------------------
(* tokenize: the tokens up to the end, the bodies of pending here-documents
   part of the newline that ends their line; what was read before a failure is kept. *)
Lexed(k, toks) == [k |-> k, toks |-> toks]
RECURSIVE Tokenize(_, _, _, _)
Tokenize(s, start, toks, pending) ==
    LET i == SkipWhile(s, start, Blank)
        c == At(s, i)
        op == OperatorAt(s, i)
        redirect == RedirectionAt(s, i)
        here == HereDoc(s, i, redirect)
        body == BodiesEnd(s, i + 1, pending)
        token == OperatorToken(s, i, op)
        word == WordFrom(s, i, <<>>)
        add(tok) == Append(toks, tok)
    IN  CASE c = "" -> Lexed(IF pending = <<>> THEN "ok" ELSE "incomplete", toks)
          [] c = "#" -> Tokenize(s, Find(s, i, {"\n"}), toks, pending)
          [] c = "\n" -> IF body = 0 THEN Lexed("incomplete", toks)
                         ELSE Tokenize(s, body, add(Token("nl", i, body)), <<>>)
          [] op # "" -> IF token.k # "ok" THEN Lexed(token.k, toks)
                        ELSE Tokenize(s, token.i, add(token.v), pending)
          [] redirect # 0 /\ IsHereDoc(s, i, redirect) ->
               Tokenize(s, here.to, add(here), Append(pending, here.here[1]))
          [] redirect # 0 -> Tokenize(s, redirect, add(Token("redirect", i, redirect)), pending)
          [] word.k # "ok" -> Lexed(word.k, toks)
          [] word.v # <<>> ->
               Tokenize(s, word.i, add([Token("word", i, word.i) EXCEPT !.segs = word.v]), pending)
          [] c \in {"{", "}"} -> Tokenize(s, i + 1, add(Token(c, i, i + 1)), pending)
          [] OTHER -> Lexed("error", toks)
Lex(s) == Tokenize(s, 1, <<>>, <<>>)
(* colorize (src/colorize): the text it writes for the input that starts at a
   position of the full text, from the tokens read before the end or a failure:
   the gaps between them as they are, each token between its colour codes. An
   exception that is not the lexer's leaves the input as it is. *)
RECURSIVE ColoredFrom(_, _, _, _, _)
ColoredFrom(full, toks, start, pos, out) ==
    IF toks = <<>> THEN out \o SubSeq(full, pos, Len(full))
    ELSE LET tok == Head(toks)
             from == IF tok.from > start THEN tok.from ELSE start
         IN  IF tok.to <= start THEN ColoredFrom(full, Tail(toks), start, pos, out)
             ELSE ColoredFrom(full, Tail(toks), start, tok.to,
                              out \o Text(full, pos, from) \o Text(full, from, tok.to))
(* Fault: a token that began before the line is written from its beginning. *)
ColorizeWhole(full, start, r) ==
    LET shown == SelectSeq(r.toks, LAMBDA tok : tok.to > start)
    IN  IF r.k = "thrown" THEN SubSeq(full, start, Len(full))
        ELSE ColoredFrom(full, shown, 1, start, <<>>)
Colorize(full, start, r) ==
    IF r.k = "thrown" THEN SubSeq(full, start, Len(full))
    ELSE ColoredFrom(full, r.toks, start, start, <<>>)
=============================================================================
