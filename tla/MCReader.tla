------------------------------- MODULE MCReader -------------------------------
(* The programs of the language. A command is described by <<construct, sep, gap,
   c, b>>: its lists end with sep, a semicolon or a newline; gap says whether a
   new line is started where the grammar lets one; c and b are the commands in
   its condition and its body. *)
EXTENDS Reader

Code(toks, n) == [toks |-> toks, n |-> n]
Plain(ws) == Code(ws, <<"cmd", <<>>, ws, <<>>>>)
(* Commands without commands in them. *)
SimpleCode ==
    [ a |-> Plain(<<"a">>),
      then |-> Plain(<<"b", "then">>),
      assign |-> Code(<<"x=1", "a", ">", "f", "x=1">>,
                      <<"cmd", <<<<"assign", "x=1">>>>, <<"a", "x=1">>, <<<<">", "f">>>>>>),
      array |-> Code(<<"x=", "(", "a", "nl", "b", ")">>,
                     <<"cmd", <<<<"array", <<"a", "b">>>>>>, <<>>, <<>>>>),
      here |-> Code(<<"a", "<<">>, <<"cmd", <<>>, <<"a">>, <<<<"<<", "body">>>>>>),
      bang |-> Code(<<"a", "!">>, <<"cmd", <<>>, <<"a", "!">>, <<>>>>),
      cond |-> Code(<<"[[", "a", "&&", "(", "b", ")", "]]">>,
                    <<"cond", <<"a", "&&", "(", "b", ")">>>>),
      js |-> Code(<<"@f", "a", "@{}", ">", "f">>,
                  <<"jsfun", "@f", <<<<"word", <<"a">>>>, <<"js", <<"@{}">>>>>>, <<<<">", "f">>>>>>),
      where |-> Code(<<"@where", "(", "a", ";", "b", ")">>,
                     <<"jsfun", "@where", <<<<"js", <<"(", "a", ";", "b", ")">>>>>>, <<>>>>),
      inline |-> Code(<<"@{}">>, <<"inline", "@{}", <<>>>>) ]

(* A list: each code is followed by sep, the last one by last. *)
ListOf(codes, sep, last) ==
    LET entries == [i \in DOMAIN codes |->
                      <<codes[i].n, IF i = Len(codes) /\ last = <<>> THEN ";" ELSE sep>>]
        typed[i \in 0..Len(codes)] ==
            IF i = 0 THEN <<>>
            ELSE typed[i - 1] \o codes[i].toks \o (IF i = Len(codes) THEN last ELSE <<sep>>)
    IN  Code(typed[Len(codes)],
             IF Len(codes) = 1 /\ entries[1][2] = ";" THEN codes[1].n ELSE <<"list", entries>>)

(* A construct over the codes x and y: lists c and b of them that end with sep,
   open, a list that ends with its last command, and the gap g. *)
Build(construct, sep, g, x, y, c, b, open) ==
    CASE construct = "if" ->
           Code(<<"if">> \o g \o c.toks \o <<"then">> \o g \o b.toks \o <<"fi">>,
                <<"if", c.n, b.n, NoTree>>)
      [] construct = "elif" ->
           Code(<<"if">> \o c.toks \o <<"then">> \o b.toks \o <<"elif">> \o g \o c.toks \o <<"then">>
                  \o b.toks \o <<"else">> \o g \o c.toks \o <<"fi">>,
                <<"if", c.n, b.n, <<"if", c.n, b.n, c.n>>>>)
      [] construct \in {"while", "until"} ->
           Code(<<construct>> \o g \o c.toks \o <<"do">> \o g \o b.toks \o <<"done">>,
                <<"while", c.n, b.n, construct = "until">>)
      [] construct \in {"for", "select"} ->
           Code(<<construct, "i">> \o g \o <<"in", "1", "a", sep, "do">> \o g \o b.toks \o <<"done">>,
                <<construct, "i", TRUE, <<"1", "a">>, b.n>>)
      [] construct = "params" ->
           Code(<<"for", "i", sep, "do">> \o g \o b.toks \o <<"done">>, <<"for", "i", FALSE, <<>>, b.n>>)
      [] construct = "cfor" ->
           Code(<<"for", "(", "(", "i", ";", "i", "<", "2", ";", "i", ")", ")", sep, "do">> \o g
                  \o b.toks \o <<"done">>,
                <<"cfor", <<"i", ";", "i", "<", "2", ";", "i">>, b.n>>)
      [] construct = "case" ->
           Code(<<"case", "x", "in">> \o g \o <<"(", "a", "|", "*", ")">> \o g \o open.toks \o <<";;">>
                  \o g \o <<"b", ")", ";;">> \o g \o <<"b", ")">> \o c.toks \o <<"esac">>,
                <<"case", "x",
                  << <<<<"a", "*">>, open.n>>, <<<<"b">>, NoTree>>, <<<<"b">>, c.n>> >>>>)
      [] construct = "group" ->
           Code(<<"{">> \o g \o b.toks \o g \o <<"}", ">", "f">>, <<"group", b.n, <<<<">", "f">>>>>>)
      [] construct = "subshell" ->
           Code(<<"(">> \o g \o open.toks \o <<")">>, <<"subshell", open.n, <<>>>>)
      [] construct = "function" ->
           Code(<<"a", "(", ")">> \o g \o <<"{">> \o g \o b.toks \o <<"}">>,
                <<"fun", "a", <<"group", b.n, <<>>>>>>)
      [] construct \in {"|", "|&"} ->
           Code(<<"!">> \o x.toks \o <<construct>> \o g \o y.toks,
                <<"pipe", <<x.n, y.n>>, <<construct>>, TRUE>>)
      [] construct = "andor" ->
           Code(x.toks \o <<"&&">> \o g \o y.toks \o <<"||">> \o g \o x.toks,
                <<"andor", <<"andor", x.n, "&&", y.n>>, "||", x.n>>)
InPipe == {"|", "|&"}
Constructs == InPipe \cup
    {"if", "elif", "while", "until", "for", "select", "params", "cfor", "case", "group",
     "subshell", "function", "andor"}

RECURSIVE MCCodeOf(_)
MCCodeOf(d) ==
    IF Len(d) = 1 THEN SimpleCode[d[1]]
    ELSE LET cs == [i \in DOMAIN d[4] |-> MCCodeOf(d[4][i])]
             bs == [i \in DOMAIN d[5] |-> MCCodeOf(d[5][i])]
         IN  Build(d[1], d[2], IF d[3] THEN <<"nl">> ELSE <<>>, cs[Len(cs)], bs[Len(bs)],
                   ListOf(cs, d[2], <<d[2]>>), ListOf(bs, d[2], <<d[2]>>), ListOf(bs, d[2], <<>>))

A == <<"a">>
Simple == {<<s>> : s \in DOMAIN SimpleCode}
Described(cs, bs) == {<<construct, sep, gap, cs, bs>> :
                        construct \in Constructs, sep \in {";", "nl"}, gap \in BOOLEAN}
Small == Described(<<A>>, <<<<"then">>>>)
(* A construct inside another, in its condition or in its body. A pipeline or an
   and-or is a stage or an operand only inside brackets. *)
Fits(construct, s) == construct \in InPipe \cup {"andor"} => s[1] \notin InPipe \cup {"andor"}
Deep == {d \in UNION {Described(<<A, s>>, <<A>>) \cup Described(<<A>>, <<s>>) : s \in Simple \cup Small} :
           Fits(d[1], IF Len(d[4]) = 2 THEN d[4][2] ELSE d[5][1])}
(* One command, or two, one after the other. *)
MCPrograms == {<<c>> : c \in Simple \cup Small \cup Deep} \cup {<<c, d>> : c \in Small, d \in Simple}
MCFunctionSlots == {<<"@where", 0>>}
=============================================================================
