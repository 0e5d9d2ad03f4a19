--------------------------- MODULE ExecHandleProofs ---------------------------
(***************************************************************************)
(* What jsh.exec promises, for any output and any bounds: however the      *)
(* reads cut the output the result has every line of it, and a loop is     *)
(* given every line of stdout; what a cut can spoil is the character it    *)
(* goes through.                                                           *)
(***************************************************************************)
EXTENDS ExecHandle, TLAPS, SequenceTheorems, WellFoundedInduction

\* A text without newlines, and what split makes of a text.
Plain(l) == \A i \in 1..Len(l) : l[i] # "nl"
Pieces == {lines \in Seq(Line) : lines # <<>> /\ \A i \in 1..Len(lines) : Plain(lines[i])}

-----------------------------------------------------------------------------
(* The inductive invariant.                                                *)

Bytes == Seq(Byte)
ReaderRecord == [state : {"off", "reading", "yielding", "ending", "closed"},
                 rest : Line, lines : Seq(Line), text : Seq(Line), cuts : SUBSET Nat]
IterRecord == [i : Nat, state : {"ready", "waiting", "ended"}]

DataTypeOK ==
    /\ request \in Request
    /\ pc \in {"new", "running", "executing", "draining", "capturing", "resolved", "rejected"}
    /\ pipe \in [Stream -> Bytes]
    /\ writers \in [Stream -> SUBSET {"command", "shell"}]
    /\ written \in [Stream -> Bytes]
    /\ alive \in BOOLEAN
    /\ stopped \in BOOLEAN
    /\ reader \in [Stream -> ReaderRecord]
    /\ records \in Seq(Record)
    /\ done \in BOOLEAN
    /\ iter \in [Consumer -> IterRecord]

\* The cuts through what has been read: a character that the last read cut is among them.
Marked(cuts, seen) ==
    /\ cuts \subseteq 1..Len(seen)
    /\ seen # <<>> /\ seen[Len(seen)] = "lead" => Len(seen) \in cuts

\* What reader r has taken and has in hand is what its reads make of what they have seen.
Drawn(r, seen) ==
    /\ Marked(r.cuts, seen)
    /\ r.text \o Append(r.lines, r.rest) = Split(Decode(seen, r.cuts))

\* What r has seen and what it will still find in the pipe is what was written; once it has
\* seen the end nothing more is written, and no line is missing.
Faithful(r, unread, wrote, holders) ==
    /\ Plain(r.rest)
    /\ r.state = "off" => r.cuts = {}
    /\ r.state \in {"reading", "closed"} => r.lines = <<>>
    /\ r.state \in {"reading", "yielding"} =>
           \E seen \in Bytes : wrote = seen \o unread /\ Drawn(r, seen)
    /\ r.state \in {"ending", "closed"} =>
           holders = {} /\ r.text \o r.lines = LinesOf(Decode(wrote, r.cuts))

StreamsFaithful ==
    \A s \in Stream : Faithful(reader[s], pipe[s], written[s], writers[s])

Untouched(s) == reader[s].state = "off" /\ reader[s].text = <<>> /\ reader[s].rest = <<>>
                /\ reader[s].lines = <<>> /\ reader[s].cuts = {}
Silent(s) == writers[s] = {} /\ written[s] = <<>> /\ pipe[s] = <<>>

\* What has happened to the streams when _run is where it is.
PhaseInv ==
    /\ pc = "new" => ~alive /\ records = <<>> /\ ~done
                     /\ \A s \in Stream : Untouched(s) /\ Silent(s)
    /\ pc = "capturing" => Captured /\ records = <<>> /\ ~done /\ Silent("stderr")
                           /\ pipe["stdout"] = written["stdout"]
                           /\ \A s \in Stream : Untouched(s)
    /\ pc \in {"running", "executing", "draining"} => ~Captured
    /\ pc = "draining" => ~alive
    /\ pc = "resolved" =>
           Waited /\ \A s \in Stream : /\ writers[s] = {} /\ reader[s].state \in {"off", "closed"}
                                       /\ reader[s].text = LinesOf(Delivered(s))

\* What has been queued when stdout has not ended, and when it has.
QueueInv ==
    /\ ~Captured => Lines(OfStream("stdout", records)) = reader["stdout"].text
    /\ Captured => reader["stdout"].state = "off" /\ reader["stderr"].state = "off"
    /\ done => /\ writers["stdout"] = {}
               /\ reader["stdout"].state \in {"off", "closed"}
               /\ Lines(OfStream("stdout", records)) =
                      IF Captured THEN NonEmpty(LinesOf(Delivered("stdout")))
                                  ELSE LinesOf(Delivered("stdout"))

\* A loop that has ended missed nothing of stdout.
LoopInv ==
    \A c \in Consumer :
        /\ iter[c].i <= Len(records)
        /\ iter[c].state = "ended" =>
               done /\ OfStream("stdout", SubSeq(records, 1, iter[c].i)) = OfStream("stdout", records)

ExecInv == DataTypeOK /\ StreamsFaithful /\ PhaseInv /\ QueueInv /\ LoopInv

-----------------------------------------------------------------------------
(* Folds.                                                                  *)

\* A set of numbers that is not empty has a smallest one.
LEMMA Smallest ==
    ASSUME NEW S \in SUBSET Nat, S # {}
    PROVE  \E n \in S : \A m \in S : n <= m
<1>1. \E n \in S : \A m \in S : <<m, n>> \notin OpToRel(<, Nat)
  BY WFMin, NatLessThanWellFounded
<1>2. PICK n \in S : \A m \in S : <<m, n>> \notin OpToRel(<, Nat)
  BY <1>1
<1>3. \A m \in S : <<m, n>> \in Nat \X Nat
  OBVIOUS
<1>4. \A m \in S : ~(m < n)
  BY <1>2, <1>3 DEF OpToRel
<1> QED
  BY <1>4

IsFold(f, step, base, seq) ==
    f = [n \in 0..Len(seq) |-> IF n = 0 THEN base ELSE step[f[n - 1]][seq[n]]]

\* A sequence that is not empty is its front and its last element.
LEMMA FrontLast ==
    ASSUME NEW T, NEW s \in Seq(T), s # <<>>
    PROVE  /\ Front(s) \in Seq(T) /\ Last(s) \in T /\ s = Append(Front(s), Last(s))
           /\ Len(Front(s)) = Len(s) - 1 /\ Len(s) \in Nat \ {0}
           /\ \A i \in 1..Len(Front(s)) : Front(s)[i] = s[i]
<1>1. Len(s) \in Nat \ {0} /\ DOMAIN s = 1..Len(s) /\ \A i \in 1..Len(s) : s[i] \in T
  BY ElementOfSeq, EmptySeq, LenProperties
<1>2. /\ Front(s) \in Seq(T) /\ Len(Front(s)) = Len(s) - 1
      /\ \A i \in 1..Len(Front(s)) : Front(s)[i] = s[i]
  BY <1>1 DEF Front
<1>3. Last(s) \in T /\ Last(s) = s[Len(s)]
  BY <1>1 DEF Last
<1> DEFINE t == Append(Front(s), Last(s))
<1>4. t \in Seq(T) /\ Len(t) = Len(s) /\ \A i \in 1..Len(s) : t[i] = s[i]
  <2>1. Front(s) \in Seq(T) /\ Last(s) \in T /\ Len(Front(s)) + 1 = Len(s)
    BY <1>1, <1>2, <1>3
  <2> HIDE DEF t
  <2>2. /\ t \in Seq(T) /\ Len(t) = Len(Front(s)) + 1
        /\ \A i \in 1..Len(Front(s)) : t[i] = Front(s)[i]
        /\ t[Len(Front(s)) + 1] = Last(s)
    BY <2>1, AppendProperties DEF t
  <2> QED BY <1>1, <1>2, <1>3, <2>1, <2>2
<1>5. s = t
  BY <1>1, <1>4, SeqEqual
<1> QED BY <1>1, <1>2, <1>3, <1>5

\* The partial results of a fold exist, although a recursive definition does not say so.
LEMMA FoldExists ==
    ASSUME NEW T, NEW step, NEW base, NEW seq \in Seq(T)
    PROVE  \E f : IsFold(f, step, base, seq)
<1> DEFINE Bad == {n \in Nat : \E s \in Seq(T) : Len(s) = n /\ ~ \E f : IsFold(f, step, base, s)}
<1> SUFFICES ASSUME Bad # {} PROVE FALSE
  <2>1. Len(seq) \in Nat
    OBVIOUS
  <2> QED BY <2>1
<1>1. PICK n \in Bad : \A m \in Bad : n <= m
  BY Smallest
<1>2. PICK s \in Seq(T) : Len(s) = n /\ ~ \E f : IsFold(f, step, base, s)
  OBVIOUS
<1>3. n \in Nat
  OBVIOUS
<1> HIDE DEF Bad
<1>4. CASE n = 0
  <2>1. IsFold([i \in 0..0 |-> base], step, base, s)
    BY <1>2, <1>4 DEF IsFold
  <2> QED BY <1>2, <2>1
<1>5. CASE n # 0
  <2>1. Front(s) \in Seq(T) /\ Len(Front(s)) = n - 1
        /\ \A i \in 1..(n-1) : Front(s)[i] = s[i]
    BY <1>2, <1>3, <1>5, FrontLast
  <2>2. PICK g : IsFold(g, step, base, Front(s))
    BY <1>1, <1>3, <1>5, <2>1 DEF Bad
  <2> DEFINE f == [i \in 0..n |-> IF i = n THEN step[g[n - 1]][s[n]] ELSE g[i]]
  <2>3. \A i \in 0..(n - 1) : g[i] = IF i = 0 THEN base ELSE step[g[i - 1]][s[i]]
    <3>1. g = [i \in 0..(n - 1) |-> IF i = 0 THEN base ELSE step[g[i - 1]][Front(s)[i]]]
      BY <2>1, <2>2 DEF IsFold
    <3>2. \A i \in 0..(n - 1) : g[i] = IF i = 0 THEN base ELSE step[g[i - 1]][Front(s)[i]]
      BY <3>1
    <3>3. \A i \in 0..(n - 1) : i # 0 => Front(s)[i] = s[i]
      BY <1>3, <2>1
    <3> QED BY <3>2, <3>3
  <2>4. f = [i \in 0..n |-> IF i = 0 THEN base ELSE step[f[i - 1]][s[i]]]
    BY <1>3, <1>5, <2>3
  <2> QED BY <1>2, <2>4 DEF IsFold
<1> QED BY <1>4, <1>5

\* So a fold is the last of its partial results.
LEMMA FoldUnfolds ==
    ASSUME NEW T, NEW step, NEW base, NEW seq \in Seq(T)
    PROVE  \E f : IsFold(f, step, base, seq) /\ Fold(step, base, seq) = f[Len(seq)]
<1> DEFINE upTo == CHOOSE f : IsFold(f, step, base, seq)
<1>1. IsFold(upTo, step, base, seq)
  BY FoldExists
<1>2. Fold(step, base, seq) = upTo[Len(seq)]
  BY DEF Fold, IsFold
<1> HIDE DEF upTo
<1> WITNESS upTo
<1> QED BY <1>1, <1>2

\* A fold over nothing is its base,
LEMMA FoldEmpty ==
    ASSUME NEW step, NEW base
    PROVE  Fold(step, base, <<>>) = base
<1>1. <<>> \in Seq({}) /\ Len(<<>>) = 0
  OBVIOUS
<1>2. \A s \in Seq({}) : \E f : IsFold(f, step, base, s) /\ Fold(step, base, s) = f[Len(s)]
  BY FoldUnfolds
<1>3. PICK f : IsFold(f, step, base, <<>>) /\ Fold(step, base, <<>>) = f[0]
  BY <1>1, <1>2
<1> QED BY <1>1, <1>3 DEF IsFold

\* and one more element is one more step.
LEMMA FoldAppend ==
    ASSUME NEW T, NEW step, NEW base, NEW seq \in Seq(T), NEW e \in T
    PROVE  Fold(step, base, Append(seq, e)) = step[Fold(step, base, seq)][e]
<1> DEFINE long == Append(seq, e)
           k == Len(seq)
<1>1. k \in Nat /\ long \in Seq(T) /\ Len(long) = k + 1
      /\ long[k + 1] = e /\ \A i \in 1..k : long[i] = seq[i]
  BY AppendProperties, LenProperties
<1>2. PICK f : IsFold(f, step, base, seq) /\ Fold(step, base, seq) = f[k]
  BY FoldUnfolds
<1> HIDE DEF long
<1>3. PICK g : IsFold(g, step, base, long) /\ Fold(step, base, long) = g[k + 1]
  BY <1>1, FoldUnfolds
<1> HIDE DEF k
<1>4. /\ f = [n \in 0..k |-> IF n = 0 THEN base ELSE step[f[n - 1]][seq[n]]]
      /\ g = [n \in 0..(k + 1) |-> IF n = 0 THEN base ELSE step[g[n - 1]][long[n]]]
  BY <1>1, <1>2, <1>3 DEF IsFold, k
<1>5. /\ \A n \in 0..k : f[n] = IF n = 0 THEN base ELSE step[f[n - 1]][seq[n]]
      /\ \A n \in 0..(k + 1) : g[n] = IF n = 0 THEN base ELSE step[g[n - 1]][long[n]]
  BY <1>4
<1> DEFINE Bad == {n \in Nat : n <= k /\ f[n] # g[n]}
<1>6. Bad = {}
  <2> SUFFICES ASSUME Bad # {} PROVE FALSE
    OBVIOUS
  <2>1. PICK n \in Bad : \A m \in Bad : n <= m
    BY Smallest
  <2>2. n \in Nat /\ n <= k /\ f[n] # g[n] /\ n \in 0..k /\ n \in 0..(k + 1)
    BY <1>1
  <2>3. CASE n = 0
    BY <1>5, <2>2, <2>3
  <2>4. CASE n # 0
    <3>1. n - 1 \in Nat /\ n - 1 <= k /\ n - 1 \notin Bad /\ n \in 1..k
      BY <1>1, <2>1, <2>2, <2>4
    <3>2. f[n - 1] = g[n - 1] /\ seq[n] = long[n]
      BY <1>1, <3>1
    <3> QED BY <1>5, <2>2, <2>4, <3>2
  <2> QED BY <2>3, <2>4
<1>7. f[k] = g[k] /\ k + 1 \in 0..(k + 1) /\ k + 1 # 0 /\ (k + 1) - 1 = k
  BY <1>1, <1>6
<1>8. g[k + 1] = step[g[k]][long[k + 1]]
  BY <1>5, <1>7
<1> QED BY <1>1, <1>2, <1>3, <1>7, <1>8 DEF long

\* A fold stays where its steps stay.
LEMMA FoldType ==
    ASSUME NEW A, NEW T, NEW step, NEW base \in A, NEW seq \in Seq(T),
           \A a \in A, e \in T : step[a][e] \in A
    PROVE  Fold(step, base, seq) \in A
<1> DEFINE Bad == {n \in Nat : \E s \in Seq(T) : Len(s) = n /\ Fold(step, base, s) \notin A}
<1> SUFFICES ASSUME Bad # {} PROVE FALSE
  <2>1. Len(seq) \in Nat
    OBVIOUS
  <2> QED BY <2>1
<1>1. PICK n \in Bad : \A m \in Bad : n <= m
  BY Smallest
<1>2. PICK s \in Seq(T) : Len(s) = n /\ Fold(step, base, s) \notin A
  OBVIOUS
<1>3. s # <<>>
  BY <1>2, FoldEmpty
<1>4. /\ Front(s) \in Seq(T) /\ Last(s) \in T /\ s = Append(Front(s), Last(s))
      /\ Len(Front(s)) = n - 1 /\ n \in Nat \ {0}
  BY <1>2, <1>3, FrontLast
<1>5. Fold(step, base, s) = step[Fold(step, base, Front(s))][Last(s)]
  <2>1. \A q \in Seq(T), e \in T :
            Fold(step, base, Append(q, e)) = step[Fold(step, base, q)][e]
    BY FoldAppend
  <2> QED BY <1>4, <2>1, Zenon
<1>6. Fold(step, base, Front(s)) \in A
  BY <1>1, <1>4
<1> QED BY <1>2, <1>4, <1>5, <1>6

\* Append gives back its front and its last element.
LEMMA FrontOfAppend ==
    ASSUME NEW T, NEW s \in Seq(T), NEW e \in T
    PROVE  /\ Append(s, e) \in Seq(T) /\ Append(s, e) # <<>>
           /\ Front(Append(s, e)) = s /\ Last(Append(s, e)) = e
<1> DEFINE t == Append(s, e)
<1>1. /\ t \in Seq(T) /\ t # <<>> /\ Len(t) = Len(s) + 1 /\ Len(s) \in Nat
      /\ \A i \in 1..Len(s) : t[i] = s[i]
      /\ t[Len(s) + 1] = e
  BY AppendProperties, LenProperties
<1> HIDE DEF t
<1>2. /\ Front(t) \in Seq(T) /\ Len(Front(t)) = Len(s) /\ Last(t) = e
      /\ \A i \in 1..Len(s) : Front(t)[i] = s[i]
  BY <1>1, FrontLast DEF Last
<1>3. Front(t) = s
  BY <1>1, <1>2, SeqEqual
<1> QED BY <1>1, <1>2, <1>3 DEF t

\* What is appended to the second of two sequences is appended to both,
LEMMA ConcatAppend ==
    ASSUME NEW T, NEW s \in Seq(T), NEW t \in Seq(T), NEW e \in T
    PROVE  s \o Append(t, e) = Append(s \o t, e) /\ s \o t \in Seq(T)
<1>1. <<e>> \in Seq(T) /\ s \o t \in Seq(T)
  BY ConcatProperties
<1>2. Append(t, e) = t \o <<e>> /\ Append(s \o t, e) = (s \o t) \o <<e>>
  BY <1>1, AppendIsConcat
<1>3. (s \o t) \o <<e>> = s \o (t \o <<e>>)
  BY <1>1, ConcatAssociative
<1> QED BY <1>1, <1>2, <1>3

\* and the last of both is the last of the second.
LEMMA ConcatFront ==
    ASSUME NEW T, NEW s \in Seq(T), NEW t \in Seq(T), t # <<>>
    PROVE  /\ s \o t \in Seq(T) /\ s \o t # <<>>
           /\ Front(s \o t) = s \o Front(t) /\ Last(s \o t) = Last(t)
<1> DEFINE f == Front(t)
           e == Last(t)
<1>1. f \in Seq(T) /\ e \in T /\ t = Append(f, e)
  BY FrontLast
<1> HIDE DEF f, e
<1>2. s \o Append(f, e) = Append(s \o f, e) /\ s \o f \in Seq(T)
  BY <1>1, ConcatAppend
<1>3. /\ Append(s \o f, e) \in Seq(T) /\ Append(s \o f, e) # <<>>
      /\ Front(Append(s \o f, e)) = s \o f /\ Last(Append(s \o f, e)) = e
  BY <1>1, <1>2, FrontOfAppend
<1>4. /\ s \o t \in Seq(T) /\ s \o t # <<>>
      /\ Front(s \o t) = s \o f /\ Last(s \o t) = e
  BY <1>1, <1>2, <1>3, Zenon
<1> QED BY <1>4 DEF f, e

\* What split does with one character: a newline begins a piece,
\* another character goes to the last one.
LEMMA StepEffect ==
    ASSUME NEW lines \in Seq(Line), lines # <<>>, NEW c \in Char
    PROVE  /\ c = "nl" => SplitStep[lines][c] = Append(lines, <<>>)
           /\ c # "nl" => SplitStep[lines][c] = Append(Front(lines), Append(Last(lines), c))
BY DEF SplitStep

\* Neither puts a newline into a piece.
LEMMA StepType ==
    ASSUME NEW lines \in Pieces, NEW c \in Char
    PROVE  SplitStep[lines][c] \in Pieces
<1>1. lines \in Seq(Line) /\ lines # <<>> /\ \A i \in 1..Len(lines) : Plain(lines[i])
  BY DEF Pieces
<1>2. CASE c = "nl"
  <2>1. <<>> \in Line /\ Plain(<<>>)
    BY DEF Line, Plain
  <2>2. /\ Append(lines, <<>>) \in Seq(Line) /\ Append(lines, <<>>) # <<>>
        /\ Len(Append(lines, <<>>)) = Len(lines) + 1 /\ Len(lines) \in Nat
        /\ \A i \in 1..Len(lines) : Append(lines, <<>>)[i] = lines[i]
        /\ Append(lines, <<>>)[Len(lines) + 1] = <<>>
    BY <1>1, <2>1, AppendProperties, LenProperties
  <2>3. \A i \in 1..Len(Append(lines, <<>>)) : Plain(Append(lines, <<>>)[i])
    BY <1>1, <2>1, <2>2
  <2> QED BY <1>1, <1>2, <2>2, <2>3, StepEffect DEF Pieces
<1>3. CASE c # "nl"
  <2> DEFINE front == Front(lines)
             last == Append(Last(lines), c)
             next == Append(front, last)
  <2>1. /\ front \in Seq(Line) /\ Len(front) = Len(lines) - 1 /\ Len(lines) \in Nat \ {0}
        /\ \A i \in 1..Len(front) : front[i] = lines[i]
        /\ Last(lines) \in Line /\ Last(lines) = lines[Len(lines)]
    BY <1>1, FrontLast DEF Last
  <2>2. Plain(Last(lines)) /\ \A i \in 1..Len(front) : Plain(front[i])
    BY <1>1, <2>1
  <2> HIDE DEF front
  <2>3. /\ last \in Seq(Char) /\ Len(last) = Len(Last(lines)) + 1 /\ Len(Last(lines)) \in Nat
        /\ \A i \in 1..Len(Last(lines)) : last[i] = Last(lines)[i]
        /\ last[Len(Last(lines)) + 1] = c
    BY <2>1, AppendProperties, LenProperties DEF Line
  <2> HIDE DEF last
  <2>4. last \in Line /\ Plain(last)
    BY <1>3, <2>2, <2>3 DEF Plain, Line
  <2>5. /\ next \in Seq(Line) /\ next # <<>> /\ Len(next) = Len(front) + 1 /\ Len(front) \in Nat
        /\ \A i \in 1..Len(front) : next[i] = front[i]
        /\ next[Len(front) + 1] = last
    BY <2>1, <2>4, AppendProperties, LenProperties
  <2>6. SplitStep[lines][c] = next
    BY <1>1, <1>3, StepEffect DEF front, last
  <2> HIDE DEF next
  <2>7. \A i \in 1..Len(next) : Plain(next[i])
    BY <2>2, <2>4, <2>5
  <2> QED BY <2>5, <2>6, <2>7 DEF Pieces
<1> QED BY <1>2, <1>3

\* Splitting a text gives pieces without newlines, one at least.
LEMMA SplitType ==
    ASSUME NEW text \in Line
    PROVE  /\ Split(text) \in Pieces /\ Split(text) \in Seq(Line) /\ Split(text) # <<>>
           /\ Front(Split(text)) \in Seq(Line)
           /\ Last(Split(text)) \in Line /\ Plain(Last(Split(text)))
<1>1. << <<>> >> \in Pieces
  BY DEF Pieces, Line, Plain
<1>2. Split(text) \in Pieces
  BY <1>1, StepType, FoldType DEF Split, Line
<1>3. Split(text) \in Seq(Line) /\ Split(text) # <<>>
      /\ \A i \in 1..Len(Split(text)) : Plain(Split(text)[i])
  BY <1>2 DEF Pieces
<1>4. /\ Front(Split(text)) \in Seq(Line) /\ Last(Split(text)) \in Line
      /\ Last(Split(text)) = Split(text)[Len(Split(text))] /\ Len(Split(text)) \in Nat \ {0}
  BY <1>3, FrontLast DEF Last
<1> QED BY <1>2, <1>3, <1>4

\* No text is one empty piece,
LEMMA SplitEmpty == Split(<<>>) = << <<>> >>
BY FoldEmpty DEF Split

\* and one more character is one more step.
LEMMA SplitAppend ==
    ASSUME NEW text \in Line, NEW c \in Char
    PROVE  Split(Append(text, c)) = SplitStep[Split(text)][c]
BY FoldAppend DEF Split, Line

\* A step of split looks only at the last piece.
LEMMA StepConcat ==
    ASSUME NEW before \in Seq(Line), NEW lines \in Seq(Line), lines # <<>>, NEW c \in Char
    PROVE  SplitStep[before \o lines][c] = before \o SplitStep[lines][c]
<1>1. /\ before \o lines \in Seq(Line) /\ before \o lines # <<>>
      /\ Front(before \o lines) = before \o Front(lines)
      /\ Last(before \o lines) = Last(lines)
      /\ Front(lines) \in Seq(Line) /\ Last(lines) \in Line
  BY ConcatFront, FrontLast
<1>2. CASE c = "nl"
  <2>1. <<>> \in Line
    BY DEF Line
  <2>2. before \o Append(lines, <<>>) = Append(before \o lines, <<>>)
    BY <2>1, ConcatAppend
  <2> QED BY <1>1, <1>2, <2>2, StepEffect
<1>3. CASE c # "nl"
  <2>1. Append(Last(lines), c) \in Line
    BY <1>1 DEF Line
  <2>2. before \o Append(Front(lines), Append(Last(lines), c))
          = Append(before \o Front(lines), Append(Last(lines), c))
    BY <1>1, <2>1, ConcatAppend
  <2> QED BY <1>1, <1>3, <2>2, StepEffect
<1> QED BY <1>2, <1>3

\* A text as the only piece.
LEMMA OnePiece ==
    ASSUME NEW l \in Line
    PROVE  /\ <<l>> \in Seq(Line) /\ <<l>> # <<>> /\ Last(<<l>>) = l /\ Front(<<l>>) = <<>>
<1>1. <<l>> = Append(<<>>, l) /\ <<>> \in Seq(Line)
  OBVIOUS
<1>2. \A s \in Seq(Line), e \in Line :
          /\ Append(s, e) \in Seq(Line) /\ Append(s, e) # <<>>
          /\ Front(Append(s, e)) = s /\ Last(Append(s, e)) = e
  BY FrontOfAppend
<1> QED
  BY <1>1, <1>2, Zenon

\* A text without newlines is not cut.
LEMMA SplitPlain ==
    ASSUME NEW text \in Line, Plain(text)
    PROVE  Split(text) = <<text>>
<1> DEFINE Bad == {n \in Nat : \E t \in Line : Len(t) = n /\ Plain(t) /\ Split(t) # <<t>>}
<1> SUFFICES ASSUME Bad # {} PROVE FALSE
  <2>1. Len(text) \in Nat
    BY DEF Line
  <2> QED BY <2>1
<1>1. PICK n \in Bad : \A m \in Bad : n <= m
  BY Smallest
<1>2. PICK t \in Line : Len(t) = n /\ Plain(t) /\ Split(t) # <<t>>
  OBVIOUS
<1>3. t # <<>>
  BY <1>2, SplitEmpty
<1> DEFINE f == Front(t)
           c == Last(t)
<1>4. /\ f \in Line /\ c \in Char /\ t = Append(f, c) /\ Len(f) = n - 1 /\ n \in Nat \ {0}
      /\ \A i \in 1..Len(f) : f[i] = t[i]
      /\ c = t[Len(t)]
  BY <1>2, <1>3, FrontLast DEF Line, Last
<1> HIDE DEF f, c
<1>5. Plain(f) /\ c # "nl"
  BY <1>2, <1>4 DEF Plain
<1>6. Split(f) = <<f>>
  BY <1>1, <1>4, <1>5
<1>7. /\ <<f>> \in Seq(Line) /\ <<f>> # <<>> /\ Last(<<f>>) = f /\ Front(<<f>>) = <<>>
  BY <1>4, OnePiece
<1>8. Split(Append(f, c)) = SplitStep[Split(f)][c]
  BY <1>4, SplitAppend
<1>9. SplitStep[<<f>>][c] = Append(<<>>, Append(f, c))
  <2>1. SplitStep[<<f>>][c] = Append(Front(<<f>>), Append(Last(<<f>>), c))
    BY <1>4, <1>5, <1>7, StepEffect
  <2> QED BY <1>7, <2>1, Zenon
<1>10. Append(<<>>, Append(f, c)) = <<Append(f, c)>>
  OBVIOUS
<1> QED BY <1>2, <1>4, <1>6, <1>8, <1>9, <1>10, Zenon

\* Splitting a text in two reads: what follows the last newline of the first is put before
\* the second.  fdLineReader loses nothing by keeping it, wherever fs.read cuts.
LEMMA SplitConcat ==
    ASSUME NEW t \in Line, NEW u \in Line
    PROVE  Split(t \o u) = Front(Split(t)) \o Split(Last(Split(t)) \o u)
<1> DEFINE front == Front(Split(t))
           last == Last(Split(t))
           Holds(v) == Split(t \o v) = front \o Split(last \o v)
           Bad == {n \in Nat : \E v \in Line : Len(v) = n /\ ~Holds(v)}
<1>0. /\ front \in Seq(Line) /\ last \in Line /\ Plain(last)
      /\ Split(t) = Append(front, last)
  BY SplitType, FrontLast
<1> HIDE DEF front, last
<1> SUFFICES ASSUME Bad # {} PROVE FALSE
  <2>1. Len(u) \in Nat
    BY DEF Line
  <2>2. Holds(u)
    BY <2>1
  <2> QED BY <2>2 DEF front, last
<1>1. PICK n \in Bad : \A m \in Bad : n <= m
  BY Smallest
<1>2. PICK v \in Line : Len(v) = n /\ ~Holds(v)
  OBVIOUS
<1>3. v # <<>>
  <2>1. t \o <<>> = t /\ last \o <<>> = last
    BY <1>0 DEF Line
  <2>2. Split(last) = <<last>>
    BY <1>0, SplitPlain
  <2>3. front \o <<last>> = Append(front, last)
    BY <1>0, AppendIsConcat
  <2>4. Holds(<<>>)
    BY <1>0, <2>1, <2>2, <2>3, Zenon
  <2> HIDE DEF Holds
  <2> QED BY <1>2, <2>4
<1> DEFINE f == Front(v)
           c == Last(v)
<1>4. f \in Line /\ c \in Char /\ v = Append(f, c) /\ Len(f) = n - 1 /\ n \in Nat \ {0}
  BY <1>2, <1>3, FrontLast DEF Line
<1> HIDE DEF f, c
<1>5. Holds(f)
  BY SMTT(30), <1>1, <1>4
<1>6. /\ t \o Append(f, c) = Append(t \o f, c) /\ t \o f \in Line
      /\ last \o Append(f, c) = Append(last \o f, c) /\ last \o f \in Line
  <2>1. \A x \in Line : x \o Append(f, c) = Append(x \o f, c) /\ x \o f \in Line
    BY <1>4, ConcatAppend DEF Line
  <2> QED BY <1>0, <2>1
<1>7. /\ Split(Append(t \o f, c)) = SplitStep[Split(t \o f)][c]
      /\ Split(Append(last \o f, c)) = SplitStep[Split(last \o f)][c]
  BY <1>4, <1>6, SplitAppend
<1>8. Split(last \o f) \in Seq(Line) /\ Split(last \o f) # <<>>
  BY <1>6, SplitType
<1>9. SplitStep[front \o Split(last \o f)][c] = front \o SplitStep[Split(last \o f)][c]
  BY <1>0, <1>4, <1>8, StepConcat
<1>10. Holds(Append(f, c))
  BY <1>5, <1>6, <1>7, <1>9, Zenon
<1> HIDE DEF Holds
<1> QED BY <1>2, <1>4, <1>10

\* A command that writes nothing has no lines.
LEMMA EmptyOutput == Split(<<>>) = << <<>> >> /\ LinesOf(<<>>) = <<>> /\ <<>> \in Line
<1>1. <<>> \in Line
  BY DEF Line
<1>2. Front(<< <<>> >>) = <<>> /\ Last(<< <<>> >>) = <<>>
  BY <1>1, OnePiece
<1> QED
  BY <1>1, <1>2, SplitEmpty DEF LinesOf

\* The lines of a text are lines.
LEMMA LinesOfType == ASSUME NEW text \in Line PROVE LinesOf(text) \in Seq(Line)
BY SplitType DEF LinesOf

\* The filter of captureDone, one line at a time.
LEMMA NonEmptyAppend ==
    ASSUME NEW lines \in Seq(Line), NEW l \in Line
    PROVE  /\ NonEmpty(lines) \in Seq(Line)
           /\ NonEmpty(Append(lines, l)) = IF IsEmpty(l) THEN NonEmpty(lines)
                                           ELSE Append(NonEmpty(lines), l)
<1> DEFINE step == [found \in Seq(Line) |-> [x \in Line |-> IF IsEmpty(x) THEN found ELSE Append(found, x)]]
<1>1. \A f \in Seq(Line), x \in Line : step[f][x] = IF IsEmpty(x) THEN f ELSE Append(f, x)
  OBVIOUS
<1>2. \A f \in Seq(Line), x \in Line : step[f][x] \in Seq(Line)
  BY <1>1
<1>3. \A q : NonEmpty(q) = Fold(step, <<>>, q)
  BY DEF NonEmpty
<1> HIDE DEF step
<1>4. NonEmpty(lines) \in Seq(Line)
  <2>1. <<>> \in Seq(Line)
    OBVIOUS
  <2> QED BY <1>2, <1>3, <2>1, FoldType
<1>5. NonEmpty(Append(lines, l)) = step[NonEmpty(lines)][l]
  BY <1>3, FoldAppend
<1> QED BY <1>1, <1>4, <1>5

\* Without its empty lines a text is what is between its newlines without the empty pieces.
LEMMA NonEmptyLines ==
    ASSUME NEW text \in Line
    PROVE  NonEmpty(Split(text)) = NonEmpty(LinesOf(text)) /\ NonEmpty(Split(text)) \in Seq(Line)
<1> DEFINE f == Front(Split(text))
           l == Last(Split(text))
<1>1. f \in Seq(Line) /\ l \in Line /\ Split(text) = Append(f, l) /\ Split(text) \in Seq(Line)
  BY SplitType, FrontLast
<1>2. LinesOf(text) = IF l = <<>> THEN f ELSE Split(text)
  BY DEF LinesOf
<1> HIDE DEF f, l
<1>3. NonEmpty(Append(f, l)) = IF l = <<>> THEN NonEmpty(f) ELSE Append(NonEmpty(f), l)
  BY <1>1, NonEmptyAppend DEF IsEmpty
<1>4. NonEmpty(Split(text)) \in Seq(Line)
  BY <1>1, NonEmptyAppend
<1>5. CASE l = <<>>
  BY <1>1, <1>2, <1>3, <1>4, <1>5, Zenon
<1>6. CASE l # <<>>
  BY <1>2, <1>4, <1>6, Zenon
<1> QED BY <1>5, <1>6

\* The records of a stream, one record at a time.
LEMMA OfStreamAppend ==
    ASSUME NEW s, NEW recs \in Seq(Record), NEW r \in Record
    PROVE  /\ OfStream(s, recs) \in Seq(Record)
           /\ OfStream(s, Append(recs, r)) = IF r.stream = s THEN Append(OfStream(s, recs), r)
                                             ELSE OfStream(s, recs)
<1> DEFINE step == [found \in Seq(Record) |-> [x \in Record |-> IF x.stream = s THEN Append(found, x) ELSE found]]
<1>1. \A f \in Seq(Record), x \in Record : step[f][x] = IF x.stream = s THEN Append(f, x) ELSE f
  OBVIOUS
<1>2. \A f \in Seq(Record), x \in Record : step[f][x] \in Seq(Record)
  BY <1>1
<1>3. \A q : OfStream(s, q) = Fold(step, <<>>, q)
  BY DEF OfStream
<1> HIDE DEF step
<1>4. OfStream(s, recs) \in Seq(Record)
  <2>1. <<>> \in Seq(Record)
    OBVIOUS
  <2>2. \A q \in Seq(Record) : Fold(step, <<>>, q) \in Seq(Record)
    BY <1>2, <2>1, FoldType
  <2> QED BY <1>3, <2>2
<1>5. OfStream(s, Append(recs, r)) = step[OfStream(s, recs)][r]
  BY <1>3, FoldAppend
<1> QED BY <1>1, <1>4, <1>5

\* No records are none of any stream.
LEMMA OfStreamEmpty == \A s : OfStream(s, <<>>) = <<>>
BY FoldEmpty DEF OfStream

\* The records of a stream are all of them if there is only that stream.
LEMMA OfStreamAll ==
    ASSUME NEW s, NEW recs \in Seq(Record), \A i \in 1..Len(recs) : recs[i].stream = s
    PROVE  OfStream(s, recs) = recs
<1> DEFINE All(q) == \A i \in 1..Len(q) : q[i].stream = s
           Bad == {n \in Nat : \E q \in Seq(Record) : Len(q) = n /\ All(q) /\ OfStream(s, q) # q}
<1> SUFFICES ASSUME Bad # {} PROVE FALSE
  <2>1. Len(recs) \in Nat
    OBVIOUS
  <2> QED BY <2>1
<1>1. PICK n \in Bad : \A m \in Bad : n <= m
  BY Smallest
<1>2. PICK q \in Seq(Record) : Len(q) = n /\ All(q) /\ OfStream(s, q) # q
  OBVIOUS
<1>3. q # <<>>
  BY <1>2, OfStreamEmpty
<1> DEFINE f == Front(q)
           r == Last(q)
<1>4. /\ f \in Seq(Record) /\ r \in Record /\ q = Append(f, r) /\ Len(f) = n - 1 /\ n \in Nat \ {0}
      /\ \A i \in 1..Len(f) : f[i] = q[i]
      /\ r = q[Len(q)]
  BY <1>2, <1>3, FrontLast DEF Last
<1> HIDE DEF f, r
<1>5. All(f) /\ r.stream = s
  BY <1>2, <1>4
<1>6. OfStream(s, f) = f
  BY <1>1, <1>4, <1>5
<1>7. OfStream(s, Append(f, r)) = Append(OfStream(s, f), r)
  BY <1>4, <1>5, OfStreamAppend
<1> QED BY <1>2, <1>4, <1>6, <1>7, Zenon

\* The lines of records are lines,
LEMMA LinesType == ASSUME NEW recs \in Seq(Record) PROVE Lines(recs) \in Seq(Line)
<1>1. /\ Len(recs) \in Nat /\ DOMAIN recs = 1..Len(recs)
      /\ \A i \in 1..Len(recs) : recs[i] \in Record
  BY ElementOfSeq, LenProperties
<1>2. Lines(recs) = [i \in 1..Len(recs) |-> recs[i].line]
  BY <1>1 DEF Lines
<1> QED
  BY <1>1, <1>2, IsASeq DEF Record

\* and the line of a record that is added is added to them.
LEMMA LinesAppend ==
    ASSUME NEW recs \in Seq(Record), NEW r \in Record
    PROVE  /\ Lines(recs) \in Seq(Line)
           /\ Lines(Append(recs, r)) = Append(Lines(recs), r.line)
<1>1. /\ Len(recs) \in Nat /\ DOMAIN recs = 1..Len(recs)
      /\ \A i \in 1..Len(recs) : recs[i] \in Record
  BY ElementOfSeq, LenProperties
<1>2. Lines(recs) = [i \in 1..Len(recs) |-> recs[i].line] /\ r.line \in Line
  BY <1>1 DEF Lines, Record
<1>3. /\ Lines(recs) \in Seq(Line) /\ Len(Lines(recs)) = Len(recs)
      /\ \A i \in 1..Len(recs) : Lines(recs)[i] = recs[i].line
  BY <1>1, <1>2, IsASeq DEF Record
<1> DEFINE q == Append(recs, r)
<1>4. /\ q \in Seq(Record) /\ Len(q) = Len(recs) + 1
      /\ \A i \in 1..Len(recs) : q[i] = recs[i]
      /\ q[Len(recs) + 1] = r
  BY AppendProperties
<1> HIDE DEF q
<1>5. /\ DOMAIN q = 1..(Len(recs) + 1)
      /\ \A i \in 1..(Len(recs) + 1) : q[i] \in Record
  BY <1>1, <1>4, ElementOfSeq, LenProperties
<1>6. Lines(q) = [i \in 1..(Len(recs) + 1) |-> q[i].line]
  BY <1>5 DEF Lines
<1>7. Lines(q) \in Seq(Line) /\ Len(Lines(q)) = Len(recs) + 1
  BY <1>1, <1>5, <1>6, IsASeq DEF Record
<1> DEFINE t == Append(Lines(recs), r.line)
<1>8. /\ t \in Seq(Line) /\ Len(t) = Len(recs) + 1
      /\ \A i \in 1..Len(recs) : t[i] = Lines(recs)[i]
      /\ t[Len(recs) + 1] = r.line
  BY <1>2, <1>3, AppendProperties
<1> HIDE DEF t
<1>9. \A i \in 1..(Len(recs) + 1) : Lines(q)[i] = t[i]
  BY <1>1, <1>2, <1>3, <1>4, <1>6, <1>8
<1>10. Lines(q) = t
  BY <1>7, <1>8, <1>9, SeqEqual
<1> QED BY <1>3, <1>10 DEF q, t

-----------------------------------------------------------------------------
(* Bytes and characters.                                                   *)

\* A text has as many places as its bytes.
LEMMA DecodeType ==
    ASSUME NEW bytes \in Bytes, NEW cuts
    PROVE  /\ Decode(bytes, cuts) \in Line /\ Len(Decode(bytes, cuts)) = Len(bytes)
           /\ \A i \in 1..Len(bytes) :
                  Decode(bytes, cuts)[i] = IF Kept(bytes, cuts, i) THEN bytes[i] ELSE "bad"
<1>1. Len(bytes) \in Nat /\ \A i \in 1..Len(bytes) : bytes[i] \in Byte
  BY ElementOfSeq, LenProperties DEF Bytes
<1>2. Decode(bytes, cuts) \in [1..Len(bytes) -> Char]
  BY <1>1 DEF Decode, Char
<1>3. Decode(bytes, cuts) \in Seq(Char) /\ Len(Decode(bytes, cuts)) = Len(bytes)
  BY <1>1, <1>2, LenProperties
<1> QED
  BY <1>3 DEF Decode, Line

\* Nothing is decoded to nothing.
LEMMA DecodeEmpty == \A cuts : Decode(<<>>, cuts) = <<>>
<1> SUFFICES ASSUME NEW cuts PROVE Decode(<<>>, cuts) = <<>>
  OBVIOUS
<1>1. <<>> \in Bytes /\ Len(<<>>) = 0
  BY DEF Bytes
<1>2. Decode(<<>>, cuts) \in Seq(Char) /\ Len(Decode(<<>>, cuts)) = 0
  BY <1>1, DecodeType DEF Line
<1> QED
  BY <1>2, EmptySeq

\* A read decodes its own bytes: what it makes of them, after what the reads before made
\* of theirs, is what a decoder makes of both that is cut between them.
LEMMA DecodeConcat ==
    ASSUME NEW a \in Bytes, NEW b \in Bytes, b # <<>>, NEW cuts, Marked(cuts, a),
           NEW cut, cut = IF b[Len(b)] = "lead" THEN {Len(a) + Len(b)} ELSE {}
    PROVE  /\ a \o b \in Bytes /\ Marked(cuts \cup cut, a \o b)
           /\ Decode(a \o b, cuts \cup cut) = Decode(a, cuts) \o Decode(b, {})
<1> DEFINE w == a \o b
           n == Len(a)
           m == Len(b)
           all == cuts \cup cut
<1>1. /\ n \in Nat /\ m \in Nat \ {0} /\ w \in Bytes /\ Len(w) = n + m
      /\ \A i \in 1..n : w[i] = a[i] /\ a[i] \in Byte
      /\ \A j \in 1..m : w[n + j] = b[j] /\ b[j] \in Byte
  <2>1. n \in Nat /\ m \in Nat /\ m # 0
    BY LenProperties, EmptySeq DEF Bytes
  <2>2. /\ w \in Bytes /\ Len(w) = n + m
        /\ \A i \in 1..Len(w) : w[i] = IF i <= n THEN a[i] ELSE b[i - n]
    BY ConcatProperties DEF Bytes
  <2>3. /\ \A i \in 1..n : a[i] \in Byte
        /\ \A j \in 1..m : b[j] \in Byte
    BY ElementOfSeq DEF Bytes
  <2> HIDE DEF w, n, m
  <2>4. \A j \in 1..m : n + j \in 1..Len(w) /\ ~(n + j <= n) /\ (n + j) - n = j
    BY <2>1, <2>2
  <2> QED
    BY <2>1, <2>2, <2>3, <2>4
<1>2. /\ cuts \subseteq 1..n /\ (n > 0 /\ a[n] = "lead" => n \in cuts)
      /\ cut \subseteq {n + m} /\ (b[m] = "lead" => n + m \in cut)
  <2>1. n > 0 => a # <<>>
    OBVIOUS
  <2>2. cuts \subseteq 1..n /\ (a # <<>> /\ a[n] = "lead" => n \in cuts)
    BY DEF Marked
  <2>3. cut \subseteq {n + m} /\ (b[m] = "lead" => n + m \in cut)
    OBVIOUS
  <2> HIDE DEF w, n, m
  <2> QED
    BY <2>1, <2>2, <2>3
<1> HIDE DEF w, n, m
<1>3. Marked(all, w)
  <2>1. all \subseteq 1..(n + m)
    <3>1. n + m \in 1..(n + m) /\ \A i \in 1..n : i \in 1..(n + m)
      BY <1>1
    <3> QED BY <1>2, <3>1, Zenon
  <2>2. w[n + m] = b[m]
    BY <1>1
  <2> QED
    BY <1>1, <1>2, <2>1, <2>2 DEF Marked
<1>4. \A i \in 1..n : Kept(w, all, i) <=> Kept(a, cuts, i)
  <2> SUFFICES ASSUME NEW i \in 1..n PROVE Kept(w, all, i) <=> Kept(a, cuts, i)
    OBVIOUS
  <2>1. w[i] = a[i] /\ (i < n => w[i + 1] = a[i + 1]) /\ (i > 1 => w[i - 1] = a[i - 1])
    BY <1>1
  <2>2. CASE i < n
    <3>1. (i \in all <=> i \in cuts) /\ (i - 1 \in all <=> i - 1 \in cuts) /\ i < n + m
      BY <1>1, <1>2, <2>2
    <3> QED BY <1>1, <2>1, <2>2, <3>1 DEF Kept, n
  <2>3. CASE i = n
    <3>1. (i - 1 \in all <=> i - 1 \in cuts) /\ (a[i] = "lead" => i \in all)
      BY <1>1, <1>2, <2>3
    <3> QED BY <1>1, <2>1, <2>3, <3>1 DEF Kept, n
  <2> QED BY <1>1, <2>2, <2>3
<1>5. \A j \in 1..m : Kept(w, all, n + j) <=> Kept(b, {}, j)
  <2> SUFFICES ASSUME NEW j \in 1..m PROVE Kept(w, all, n + j) <=> Kept(b, {}, j)
    OBVIOUS
  <2>1. /\ w[n + j] = b[j]
        /\ j < m => w[(n + j) + 1] = b[j + 1] /\ n + j \notin all
        /\ j > 1 => w[(n + j) - 1] = b[j - 1] /\ (n + j) - 1 \notin all
    <3>1. ASSUME j < m PROVE w[(n + j) + 1] = b[j + 1] /\ n + j \notin all
      <4>1. j + 1 \in 1..m /\ n + (j + 1) = (n + j) + 1
        BY <1>1, <3>1
      <4>2. w[n + (j + 1)] = b[j + 1]
        BY <1>1, <4>1
      <4> QED BY <1>1, <1>2, <3>1, <4>1, <4>2
    <3>2. ASSUME j > 1 PROVE w[(n + j) - 1] = b[j - 1] /\ (n + j) - 1 \notin all
      <4>1. j - 1 \in 1..m /\ n + (j - 1) = (n + j) - 1
        BY <1>1, <3>2
      <4>2. w[n + (j - 1)] = b[j - 1]
        BY <1>1, <4>1
      <4> QED BY <1>1, <1>2, <3>2, <4>1, <4>2
    <3> QED BY <1>1, <3>1, <3>2
  <2>2. j = 1 => ((n + j) - 1 = n /\ (n > 0 /\ w[n] = "lead" => n \in all))
    BY <1>1, <1>2
  <2>3. (n + j < n + m <=> j < m) /\ (n + j > 1 <=> (j > 1 \/ n > 0))
    BY <1>1
  <2> QED BY <1>1, <2>1, <2>2, <2>3 DEF Kept, m
<1> DEFINE x == Decode(w, all)
           u == Decode(a, cuts)
           v == Decode(b, {})
<1>6. /\ x \in Line /\ Len(x) = n + m
      /\ \A i \in 1..Len(w) : x[i] = IF Kept(w, all, i) THEN w[i] ELSE "bad"
  BY <1>1, DecodeType
<1>7. /\ u \in Line /\ Len(u) = n
      /\ \A i \in 1..n : u[i] = IF Kept(a, cuts, i) THEN a[i] ELSE "bad"
  BY DecodeType DEF n
<1>8. /\ v \in Line /\ Len(v) = m
      /\ \A j \in 1..m : v[j] = IF Kept(b, {}, j) THEN b[j] ELSE "bad"
  BY DecodeType DEF m
<1> HIDE DEF x, u, v
<1> DEFINE y == u \o v
<1>9. /\ y \in Line /\ Len(y) = n + m
      /\ \A i \in 1..(n + m) : y[i] = IF i <= n THEN u[i] ELSE v[i - n]
  BY <1>7, <1>8, ConcatProperties DEF Line
<1> HIDE DEF y
<1>10. \A i \in 1..(n + m) : x[i] = y[i]
  <2> SUFFICES ASSUME NEW i \in 1..(n + m) PROVE x[i] = y[i]
    OBVIOUS
  <2>1. CASE i <= n
    <3>1. i \in 1..n /\ i \in 1..Len(w)
      BY <1>1, <2>1
    <3> QED BY <1>1, <1>4, <1>6, <1>7, <1>9, <2>1, <3>1
  <2>2. CASE ~(i <= n)
    <3> DEFINE j == i - n
    <3>1. j \in 1..m /\ i = n + j /\ i \in 1..Len(w)
      BY <1>1, <2>2
    <3>2. x[i] = IF Kept(w, all, i) THEN w[i] ELSE "bad"
      BY <1>6, <3>1
    <3>3. v[j] = IF Kept(b, {}, j) THEN b[j] ELSE "bad"
      BY <1>8, <3>1
    <3>4. y[i] = v[j]
      BY <1>9, <2>2
    <3>5. w[n + j] = b[j] /\ (Kept(w, all, n + j) <=> Kept(b, {}, j))
      BY <1>1, <1>5, <3>1
    <3> HIDE DEF j
    <3> QED BY <3>1, <3>2, <3>3, <3>4, <3>5
  <2> QED BY <2>1, <2>2
<1>11. x = y
  BY <1>6, <1>9, <1>10, SeqEqual DEF Line
<1> QED
  BY <1>1, <1>3, <1>11 DEF w, x, y, u, v

-----------------------------------------------------------------------------
(* What the steps do to one reader.                                        *)

AfterEnd(r) ==
    [r EXCEPT !.rest = <<>>, !.lines = IF IsEmpty(r.rest) THEN <<>> ELSE <<r.rest>>,
              !.state = "ending"]
AfterTake(r) == [r EXCEPT !.text = Append(r.text, Head(r.lines)), !.lines = Tail(r.lines)]

\* Taking the next line of what is in hand leaves the whole as it was.
LEMMA HeadMoves ==
    ASSUME NEW T, NEW s \in Seq(T), NEW t \in Seq(T), t # <<>>
    PROVE  /\ Head(t) \in T /\ Tail(t) \in Seq(T) /\ Append(s, Head(t)) \in Seq(T)
           /\ Append(s, Head(t)) \o Tail(t) = s \o t
<1> DEFINE h == Head(t)
           r == Tail(t)
<1>1. h \in T /\ r \in Seq(T)
  BY HeadTailProperties
<1>2. t = <<h>> \o r
  <2> DEFINE q == <<h>> \o r
  <2>1. <<h>> \in Seq(T) /\ Len(<<h>>) = 1 /\ <<h>>[1] = h
    BY <1>1
  <2>2. q \in Seq(T) /\ Len(q) = 1 + Len(r) /\ \A i \in 1..Len(q) : q[i] = IF i <= 1 THEN <<h>>[i] ELSE r[i - 1]
    BY <1>1, <2>1, ConcatProperties
  <2>3. Len(t) \in Nat /\ Len(r) = Len(t) - 1 /\ h = t[1] /\ \A i \in 1..Len(r) : r[i] = t[i + 1]
    BY HeadTailProperties, LenProperties
  <2> HIDE DEF q, h, r
  <2>4. \A i \in 1..Len(t) : q[i] = t[i]
    <3> SUFFICES ASSUME NEW i \in 1..Len(t) PROVE q[i] = t[i]
      OBVIOUS
    <3>1. CASE i = 1
      BY <2>1, <2>2, <2>3, <3>1
    <3>2. CASE i # 1
      <4>1. i - 1 \in 1..Len(r) /\ i \in 1..Len(q) /\ ~(i <= 1) /\ (i - 1) + 1 = i
        BY <2>2, <2>3, <3>2
      <4> QED BY <2>2, <2>3, <4>1
    <3> QED BY <3>1, <3>2
  <2>5. q = t
    BY <2>2, <2>3, <2>4, SeqEqual
  <2> QED BY <2>5 DEF q
<1> HIDE DEF h, r
<1>3. Append(s, h) = s \o <<h>> /\ <<h>> \in Seq(T) /\ Append(s, h) \in Seq(T)
  BY <1>1, AppendIsConcat, AppendProperties
<1>4. \A v \in Seq(T) : (s \o <<h>>) \o v = s \o (<<h>> \o v)
  BY <1>3, ConcatAssociative
<1>5. Append(s, h) \o r = s \o t
  BY <1>1, <1>2, <1>3, <1>4, Zenon
<1> QED
  BY <1>1, <1>3, <1>5 DEF h, r

\* A line alone, after the lines before it, is one more line.
LEMMA AppendToNothing ==
    \A text \in Seq(Line), rest \in Line : text \o Append(<<>>, rest) = Append(text, rest)
<1> SUFFICES ASSUME NEW text \in Seq(Line), NEW rest \in Line
    PROVE  text \o Append(<<>>, rest) = Append(text, rest)
  OBVIOUS
<1>1. <<>> \in Seq(Line)
  OBVIOUS
<1>2. text \o Append(<<>>, rest) = Append(text \o <<>>, rest) /\ text \o <<>> = text
  BY <1>1, ConcatAppend, ConcatEmptySeq
<1> QED
  BY <1>2, Zenon

\* The lines of a read complete the text: the last of them is what is left.
Continues(text, lines, all) ==
    /\ Front(lines) \in Seq(Line) /\ Last(lines) \in Line /\ Plain(Last(lines))
    /\ text \o Append(Front(lines), Last(lines)) = Split(all)

\* The next read continues where the last one ended.
LEMMA ReadContinues ==
    ASSUME NEW before \in Line, NEW text \in Seq(Line), NEW rest \in Line, NEW chunk \in Line
    PROVE  Append(text, rest) = Split(before) => Continues(text, Split(rest \o chunk), before \o chunk)
<1> SUFFICES ASSUME Append(text, rest) = Split(before)
    PROVE  Continues(text, Split(rest \o chunk), before \o chunk)
  OBVIOUS
<1> DEFINE lines == Split(rest \o chunk)
<1> DEFINE both == rest \o chunk
<1>1. both \in Line
  BY ConcatProperties DEF Line
<1>2. Front(Split(before)) = text /\ Last(Split(before)) = rest
  <2>1. Front(Append(text, rest)) = text /\ Last(Append(text, rest)) = rest
    BY FrontOfAppend
  <2> QED
    BY <2>1, Zenon
<1>3. Split(before \o chunk) = text \o Split(both)
  <2>1. Split(before \o chunk) = Front(Split(before)) \o Split(Last(Split(before)) \o chunk)
    BY SplitConcat
  <2> QED
    BY <1>2, <2>1, Zenon
<1>4. lines = Split(both)
  OBVIOUS
<1> HIDE DEF both, lines
<1>5. /\ Split(both) \in Seq(Line) /\ Split(both) # <<>>
      /\ Front(Split(both)) \in Seq(Line) /\ Last(Split(both)) \in Line
      /\ Plain(Last(Split(both)))
      /\ Split(both) = Append(Front(Split(both)), Last(Split(both)))
  BY <1>1, SplitType, FrontLast
<1>6. /\ Front(lines) \in Seq(Line) /\ Last(lines) \in Line /\ Plain(Last(lines))
      /\ lines = Append(Front(lines), Last(lines))
  BY <1>4, <1>5, Zenon
<1>7. text \o Append(Front(lines), Last(lines)) = Split(before \o chunk)
  BY <1>3, <1>4, <1>6, Zenon
<1>8. Continues(text, lines, before \o chunk)
  BY <1>6, <1>7, Zenon DEF Continues
<1> QED
  BY <1>8 DEF lines, both

\* A read takes the beginning of what the pipe has and leaves the rest there.
LEMMA CutInTwo ==
    ASSUME NEW text \in Bytes, NEW n \in 1..Len(text)
    PROVE  /\ SubSeq(text, 1, n) \in Bytes /\ SubSeq(text, n + 1, Len(text)) \in Bytes
           /\ text = SubSeq(text, 1, n) \o SubSeq(text, n + 1, Len(text))
           /\ Len(SubSeq(text, 1, n)) = n /\ SubSeq(text, 1, n)[n] = text[n]
<1>1. /\ Len(text) \in Nat /\ n \in Int /\ text \in Seq(Byte)
      /\ \A i \in 1..Len(text) : text[i] \in Byte
  BY DEF Bytes
<1>2. SubSeq(text, 1, n) \in Seq(Byte) /\ SubSeq(text, n + 1, Len(text)) \in Seq(Byte)
  BY <1>1, SubSeqProperties
<1>3. SubSeq(text, 1, n) \o SubSeq(text, n + 1, Len(text)) = SubSeq(text, 1, Len(text))
  BY <1>1, ConcatAdjacentSubSeq
<1>4. SubSeq(text, 1, Len(text)) = text
  BY <1>1, SubSeqFull
<1>5. Len(SubSeq(text, 1, n)) = n /\ SubSeq(text, 1, n)[n] = text[n]
  BY <1>1, SubSeqProperties
<1> QED
  BY <1>2, <1>3, <1>4, <1>5 DEF Bytes

\* A read keeps the reader faithful: the beginning of the pipe moves into its hand.
LEMMA FaithfulRead ==
    ASSUME NEW r \in ReaderRecord, NEW chunk \in Bytes, chunk # <<>>, NEW later \in Bytes,
           NEW wrote \in Bytes, NEW holders,
           Faithful(r, chunk \o later, wrote, holders), r.state = "reading",
           NEW cut, cut = IF chunk[Len(chunk)] = "lead"
                          THEN {Len(wrote) - Len(chunk \o later) + Len(chunk)} ELSE {}
    PROVE  LET r2 == AfterRead(r, Split(r.rest \o Decode(chunk, {})), cut)
           IN  /\ r2 \in ReaderRecord /\ r2.text = r.text /\ r2.state = "yielding"
               /\ Faithful(r2, later, wrote, holders)
<1> DEFINE more == Decode(chunk, {})
           lines == Split(r.rest \o more)
           r2 == AfterRead(r, lines, cut)
<1>1. /\ r.rest \in Line /\ r.lines = <<>> /\ r.text \in Seq(Line) /\ r.cuts \in SUBSET Nat
      /\ r \in ReaderRecord
  BY DEF Faithful, ReaderRecord
<1>2. PICK seen \in Bytes : wrote = seen \o (chunk \o later) /\ Drawn(r, seen)
  BY DEF Faithful
<1>3. Marked(r.cuts, seen) /\ Append(r.text, r.rest) = Split(Decode(seen, r.cuts))
  <2>1. Marked(r.cuts, seen) /\ r.text \o Append(<<>>, r.rest) = Split(Decode(seen, r.cuts))
    BY <1>1, <1>2, Zenon DEF Drawn
  <2> QED
    BY <1>1, <2>1, AppendToNothing, Zenon
<1>4. cut = IF chunk[Len(chunk)] = "lead" THEN {Len(seen) + Len(chunk)} ELSE {}
  <2>1. chunk \o later \in Bytes
    BY ConcatProperties DEF Bytes
  <2> DEFINE both == chunk \o later
  <2> HIDE DEF both
  <2>2. Len(seen \o both) = Len(seen) + Len(both) /\ Len(seen) \in Nat /\ Len(both) \in Nat
        /\ Len(chunk) \in Nat
    BY <2>1, ConcatProperties, LenProperties DEF Bytes, both
  <2>3. Len(wrote) - Len(both) + Len(chunk) = Len(seen) + Len(chunk)
    BY <1>2, <2>2 DEF both
  <2> QED BY <2>3 DEF both
<1> DEFINE now == seen \o chunk
<1>5. /\ now \in Bytes /\ Marked(r.cuts \cup cut, now)
      /\ Decode(now, r.cuts \cup cut) = Decode(seen, r.cuts) \o more
  <2> DEFINE cuts == r.cuts
  <2>1. Marked(cuts, seen)
    BY <1>3
  <2> HIDE DEF cuts
  <2>2. /\ seen \o chunk \in Bytes /\ Marked(cuts \cup cut, seen \o chunk)
        /\ Decode(seen \o chunk, cuts \cup cut) = Decode(seen, cuts) \o Decode(chunk, {})
    BY <1>4, <2>1, DecodeConcat
  <2> QED BY <2>2 DEF cuts
<1>6. wrote = now \o later
  <2>1. (seen \o chunk) \o later = seen \o (chunk \o later)
    BY ConcatAssociative DEF Bytes
  <2> QED BY <1>2, <2>1
<1>7. more \in Line /\ Decode(seen, r.cuts) \in Line
  BY DecodeType
<1> HIDE DEF more, now
<1>7a. lines = Split(r.rest \o more)
  OBVIOUS
<1> HIDE DEF lines
<1>8. /\ Front(lines) \in Seq(Line) /\ Last(lines) \in Line /\ Plain(Last(lines))
      /\ r.text \o Append(Front(lines), Last(lines)) = Split(Decode(seen, r.cuts) \o more)
  <2> DEFINE rest == r.rest
             text == r.text
             before == Decode(seen, r.cuts)
  <2>1. rest \in Line /\ text \in Seq(Line) /\ before \in Line
        /\ Append(text, rest) = Split(before)
    BY <1>1, <1>3, <1>7
  <2> HIDE DEF rest, text, before
  <2>2. lines = Split(rest \o more)
    BY <1>7a DEF rest
  <2>3. /\ Front(lines) \in Seq(Line) /\ Last(lines) \in Line /\ Plain(Last(lines))
        /\ text \o Append(Front(lines), Last(lines)) = Split(before \o more)
    <3>1. more \in Line /\ rest \in Line /\ text \in Seq(Line) /\ before \in Line
      BY <1>7, <2>1
    <3>2. Append(text, rest) = Split(before)
      BY <2>1
    <3>3. Continues(text, Split(rest \o more), before \o more)
      BY <3>1, <3>2, ReadContinues, Zenon
    <3> QED BY <3>3, <2>2, Zenon DEF Continues
  <2> QED
    BY <2>3 DEF text, before
<1>9. cut \subseteq Nat
  <2>1. Len(seen) + Len(chunk) \in Nat
    BY LenProperties DEF Bytes
  <2> QED BY <1>4, <2>1
<1>10. /\ r2 \in ReaderRecord /\ r2.text = r.text /\ r2.state = "yielding"
       /\ r2.rest = Last(lines) /\ r2.lines = Front(lines) /\ r2.cuts = r.cuts \cup cut
  BY <1>1, <1>8, <1>9 DEF ReaderRecord, AfterRead
<1> HIDE DEF r2
<1>11. Drawn(r2, now)
  BY <1>5, <1>8, <1>10, Zenon DEF Drawn
<1>12. Faithful(r2, later, wrote, holders)
  BY <1>5, <1>6, <1>8, <1>10, <1>11 DEF Faithful
<1> QED
  BY <1>10, <1>12 DEF r2, lines, more

\* The end of the file does: what is left without a newline is the last line.
LEMMA FaithfulEnd ==
    ASSUME NEW r \in ReaderRecord, NEW wrote \in Bytes, Faithful(r, <<>>, wrote, {}),
           r.state = "reading"
    PROVE  /\ AfterEnd(r) \in ReaderRecord /\ AfterEnd(r).text = r.text
           /\ AfterEnd(r).state = "ending"
           /\ Faithful(AfterEnd(r), <<>>, wrote, {})
<1> DEFINE made == Decode(wrote, r.cuts)
<1>1. /\ r.rest \in Line /\ Plain(r.rest) /\ r.text \in Seq(Line) /\ r.lines = <<>>
      /\ r \in ReaderRecord
  BY DEF Faithful, ReaderRecord
<1>2. Split(made) = Append(r.text, r.rest)
  <2>1. PICK seen \in Bytes : wrote = seen \o <<>> /\ Drawn(r, seen)
    BY DEF Faithful
  <2>2. wrote = seen
    BY <2>1, ConcatEmptySeq DEF Bytes
  <2>3. r.text \o Append(<<>>, r.rest) = Split(made)
    BY <1>1, <2>1, <2>2, Zenon DEF Drawn
  <2> QED
    BY <1>1, <2>3, AppendToNothing, Zenon
<1> HIDE DEF made
<1>3. LinesOf(made) = IF r.rest = <<>> THEN r.text ELSE Append(r.text, r.rest)
  <2>1. Front(Append(r.text, r.rest)) = r.text /\ Last(Append(r.text, r.rest)) = r.rest
    BY <1>1, FrontOfAppend
  <2> QED
    BY <1>2, <2>1 DEF LinesOf
<1> DEFINE lines == IF IsEmpty(r.rest) THEN <<>> ELSE <<r.rest>>
<1>4. lines \in Seq(Line) /\ r.text \o lines = LinesOf(made)
  <2>1. CASE r.rest = <<>>
    BY <1>1, <1>3, <2>1, ConcatEmptySeq DEF IsEmpty
  <2>2. CASE r.rest # <<>>
    <3>1. <<r.rest>> \in Seq(Line) /\ Append(r.text, r.rest) = r.text \o <<r.rest>>
      BY <1>1, AppendIsConcat, OnePiece
    <3> QED
      BY <1>3, <2>2, <3>1 DEF IsEmpty
  <2> QED
    BY <2>1, <2>2
<1> DEFINE r2 == AfterEnd(r)
<1>5. r2 = [r EXCEPT !.rest = <<>>, !.lines = lines, !.state = "ending"] /\ <<>> \in Line
  BY DEF Line, AfterEnd
<1> HIDE DEF lines, r2
<1>6. /\ r2 \in ReaderRecord /\ r2.text = r.text /\ r2.state = "ending"
      /\ r2.rest = <<>> /\ r2.lines = lines /\ r2.cuts = r.cuts
  BY <1>1, <1>4, <1>5 DEF ReaderRecord
<1>7. Plain(<<>>)
  BY DEF Plain
<1>8. Faithful(r2, <<>>, wrote, {})
  BY <1>4, <1>6, <1>7 DEF Faithful, made
<1> QED
  BY <1>6, <1>8 DEF r2

\* Taking a line does: it moves from the hand to the text.
LEMMA FaithfulTake ==
    ASSUME NEW r \in ReaderRecord, NEW unread \in Bytes, NEW wrote \in Bytes, NEW holders,
           Faithful(r, unread, wrote, holders), r.state \in {"yielding", "ending"},
           r.lines # <<>>
    PROVE  /\ AfterTake(r) \in ReaderRecord /\ AfterTake(r).state = r.state
           /\ Head(r.lines) \in Line /\ AfterTake(r).text = Append(r.text, Head(r.lines))
           /\ Faithful(AfterTake(r), unread, wrote, holders)
<1> DEFINE t == r.lines
           q == r.text
           e == r.rest
           h == Head(t)
           q2 == Append(q, h)
           t2 == Tail(t)
           r2 == AfterTake(r)
<1>1. e \in Line /\ t \in Seq(Line) /\ q \in Seq(Line) /\ t # <<>> /\ r \in ReaderRecord
  BY DEF ReaderRecord
<1>3. r2 = [r EXCEPT !.text = q2, !.lines = t2]
  BY DEF AfterTake
<1>4. /\ h \in Line /\ t2 \in Seq(Line) /\ q2 \in Seq(Line)
      /\ q2 \o t2 = q \o t /\ q2 \o Append(t2, e) = q \o Append(t, e)
  <2>1. t \in Seq(Line) /\ q \in Seq(Line) /\ e \in Line /\ t # <<>>
    BY <1>1
  <2> HIDE DEF t, q, e
  <2>2. h \in Line /\ t2 \in Seq(Line) /\ q2 \in Seq(Line)
    BY <2>1, HeadMoves
  <2>5. q2 \o t2 = q \o t
    BY <2>1, HeadMoves
  <2> HIDE DEF h, q2, t2
  <2>3. q2 \o Append(t2, e) = Append(q2 \o t2, e)
    BY <2>1, <2>2, ConcatAppend
  <2>4. q \o Append(t, e) = Append(q \o t, e)
    BY <2>1, ConcatAppend
  <2> QED
    BY <2>2, <2>3, <2>4, <2>5, Zenon
<1> HIDE DEF t2, q2, h, r2
<1>6. /\ r2 \in ReaderRecord /\ r2.state = r.state /\ r2.rest = r.rest
      /\ r2.text = q2 /\ r2.lines = t2 /\ r2.cuts = r.cuts
  BY <1>1, <1>3, <1>4 DEF ReaderRecord
<1>7. \A seen \in Bytes : Drawn(r, seen) => Drawn(r2, seen)
  BY <1>4, <1>6, Zenon DEF Drawn
<1>8. Faithful(r2, unread, wrote, holders)
  <2>1. r.state = "yielding" => \E seen \in Bytes : wrote = seen \o unread /\ Drawn(r2, seen)
    BY <1>7 DEF Faithful
  <2>2. r.state = "ending" => holders = {} /\ q \o t = LinesOf(Decode(wrote, r.cuts))
    BY DEF Faithful
  <2>3. Plain(r.rest)
    BY DEF Faithful
  <2> HIDE DEF q, t
  <2> QED
    BY <1>4, <1>6, <2>1, <2>2, <2>3 DEF Faithful
<1> QED
  BY <1>4, <1>6, <1>8 DEF t, q, q2, h, r2

\* A write of the command does, to a stream that somebody still holds.
LEMMA FaithfulWrite ==
    ASSUME NEW r \in ReaderRecord, NEW unread \in Bytes, NEW wrote \in Bytes, NEW holders,
           Faithful(r, unread, wrote, holders), holders # {}, NEW c \in Byte
    PROVE  /\ Append(unread, c) \in Bytes /\ Append(wrote, c) \in Bytes
           /\ Faithful(r, Append(unread, c), Append(wrote, c), holders)
<1>1. Append(unread, c) \in Bytes /\ Append(wrote, c) \in Bytes
  BY DEF Bytes
<1>2. \A seen \in Bytes : seen \o Append(unread, c) = Append(seen \o unread, c)
  BY ConcatAppend DEF Bytes
<1> QED
  BY <1>1, <1>2 DEF Faithful

\* A reader that starts on a stream nobody has written to is faithful.
LEMMA FaithfulStart ==
    ASSUME NEW r \in ReaderRecord, r.text = <<>>, r.rest = <<>>, r.lines = <<>>, r.cuts = {}
    PROVE  /\ [r EXCEPT !.state = "reading"] \in ReaderRecord
           /\ [r EXCEPT !.state = "closed"] \in ReaderRecord
           /\ \A holders : Faithful([r EXCEPT !.state = "reading"], <<>>, <<>>, holders)
           /\ Faithful([r EXCEPT !.state = "closed"], <<>>, <<>>, {})
<1>1. <<>> \o <<>> = <<>> /\ Append(<<>>, <<>>) = << <<>> >> /\ <<>> \in Bytes
  BY DEF Bytes
<1>2. <<>> \o Append(<<>>, <<>>) = Split(Decode(<<>>, {}))
  <2>1. \A q \in Seq(Line) : <<>> \o q = q
    BY ConcatEmptySeq
  <2>2. Split(Decode(<<>>, {})) = << <<>> >> /\ << <<>> >> \in Seq(Line)
    BY EmptyOutput, DecodeEmpty, OnePiece
  <2> QED BY <1>1, <2>1, <2>2, Zenon
<1>3. <<>> \o <<>> = LinesOf(Decode(<<>>, {}))
  BY <1>1, EmptyOutput, DecodeEmpty
<1> DEFINE open == [r EXCEPT !.state = "reading"]
           shut == [r EXCEPT !.state = "closed"]
<1>4. /\ open \in ReaderRecord /\ open.state = "reading" /\ open.cuts = {}
      /\ open.text = <<>> /\ open.rest = <<>> /\ open.lines = <<>>
      /\ shut \in ReaderRecord /\ shut.state = "closed" /\ shut.cuts = {}
      /\ shut.text = <<>> /\ shut.rest = <<>> /\ shut.lines = <<>>
  BY DEF ReaderRecord
<1> HIDE DEF open, shut
<1>5. Plain(<<>>) /\ Marked({}, <<>>)
  BY DEF Plain, Marked
<1>6. Drawn(open, <<>>)
  BY <1>2, <1>4, <1>5, Zenon DEF Drawn
<1>7. \A holders : Faithful(open, <<>>, <<>>, holders)
  BY <1>1, <1>4, <1>5, <1>6 DEF Faithful
<1>8. Faithful(shut, <<>>, <<>>, {})
  BY <1>3, <1>4, <1>5 DEF Faithful
<1> QED
  BY <1>4, <1>7, <1>8 DEF open, shut

-----------------------------------------------------------------------------
(* The steps of _run, of the readers and of the command.                   *)

\* Steps that change neither the readers, the queue, the pipes nor what was written.
LEMMA Frame ==
    ASSUME ExecInv, PhaseInv',
           UNCHANGED <<request, pipe, written, reader, records, done, iter>>,
           writers' \in [Stream -> SUBSET {"command", "shell"}],
           \A s \in Stream : writers'[s] \subseteq writers[s],
           pc' \in {"new", "running", "executing", "draining", "capturing", "resolved", "rejected"},
           alive' \in BOOLEAN, stopped' \in BOOLEAN
    PROVE  ExecInv'
<1>1. DataTypeOK'
  BY DEF ExecInv, DataTypeOK
<1>2. StreamsFaithful'
  BY DEF ExecInv, StreamsFaithful, Faithful
<1>3. QueueInv'
  BY DEF ExecInv, QueueInv, Captured, Delivered, Stream
<1>4. LoopInv'
  BY DEF ExecInv, LoopInv
<1> QED
  BY <1>1, <1>2, <1>3, <1>4 DEF ExecInv

\* What a loop has been given is not taken back.
LEMMA WokenKeeps ==
    ASSUME DataTypeOK, iter' = Woken
    PROVE  /\ iter' \in [Consumer -> IterRecord]
           /\ \A c \in Consumer : /\ iter'[c].i = iter[c].i
                                  /\ iter'[c].state = "ended" <=> iter[c].state = "ended"
<1>1. iter \in [Consumer -> IterRecord]
  BY DEF DataTypeOK
<1> SUFFICES ASSUME NEW c \in Consumer
    PROVE  /\ iter'[c] \in IterRecord /\ iter'[c].i = iter[c].i
           /\ iter'[c].state = "ended" <=> iter[c].state = "ended"
  BY DEF Woken
<1>2. iter'[c] = IF iter[c].state = "waiting" THEN [iter[c] EXCEPT !.state = "ready"] ELSE iter[c]
  BY DEF Woken
<1>3. CASE iter[c].state = "waiting"
  BY <1>1, <1>2, <1>3 DEF IterRecord
<1>4. CASE iter[c].state # "waiting"
  BY <1>1, <1>2, <1>4
<1> QED
  BY <1>3, <1>4

\* A command that cannot be parsed starts nothing.
LEMMA RunThrowsKeeps == ASSUME ExecInv, RunThrows PROVE ExecInv'
<1>1. PhaseInv'
  BY DEF RunThrows, PhaseInv
<1> QED
  BY <1>1, Frame DEF RunThrows, commandVars, queueVars, ExecInv, DataTypeOK

\* The shell closes the ends it holds.
LEMMA CompoundDoneKeeps == ASSUME ExecInv, CompoundDone PROVE ExecInv'
<1>1. PhaseInv'
  BY DEF CompoundDone, PhaseInv, ExecInv, Captured, queueVars
<1>2. writers' \in [Stream -> SUBSET {"command", "shell"}]
  BY DEF CompoundDone, ExecInv, DataTypeOK
<1>3. \A s \in Stream : writers'[s] \subseteq writers[s]
  BY DEF CompoundDone
<1> QED
  BY <1>1, <1>2, <1>3, Frame DEF CompoundDone, queueVars, ExecInv, DataTypeOK

\* The promise resolves only when both readers have returned.
LEMMA ResolveKeeps == ASSUME ExecInv, Resolve PROVE ExecInv'
<1>1. /\ pc \in {"running", "draining"} /\ Waited /\ ReadersClosed /\ pc' = "resolved"
      /\ UNCHANGED <<request, pipe, writers, written, alive, stopped, reader, records, done, iter>>
  BY DEF Resolve, AllSettled, commandVars, queueVars, ExecInv, PhaseInv, Waited
<1>2. \A s \in Stream : /\ writers[s] = {} /\ reader[s].state = "closed"
                        /\ reader[s].text = LinesOf(Delivered(s))
  <2> SUFFICES ASSUME NEW s \in Stream
      PROVE  /\ writers[s] = {} /\ reader[s].state = "closed"
             /\ reader[s].text = LinesOf(Delivered(s))
    OBVIOUS
  <2>1. reader[s].state = "closed" /\ reader[s].text \in Seq(Line)
    BY <1>1 DEF ReadersClosed, ExecInv, DataTypeOK, ReaderRecord
  <2>2. writers[s] = {} /\ reader[s].text \o <<>> = LinesOf(Delivered(s))
    BY <2>1 DEF ExecInv, StreamsFaithful, Faithful, Delivered
  <2> QED
    BY <2>1, <2>2, ConcatEmptySeq
<1>3. PhaseInv'
  BY <1>1, <1>2 DEF PhaseInv, Waited, Delivered
<1> QED
  BY <1>1, <1>3, Frame DEF ExecInv, DataTypeOK

\* A feed that failed rejects the promise.
LEMMA RejectKeeps == ASSUME ExecInv, Reject PROVE ExecInv'
<1>1. PhaseInv'
  BY DEF Reject, PhaseInv
<1> QED
  BY <1>1, Frame DEF Reject, commandVars, queueVars, ExecInv, DataTypeOK

\* The feed of stdin touches neither the output nor the queue.
LEMMA FeedKeeps == ASSUME ExecInv, FeedNext \/ FeedWritten PROVE ExecInv'
<1>1. UNCHANGED <<request, pc, pipe, writers, written, alive, stopped, reader, records, done, iter>>
  BY DEF FeedNext, FeedWritten, commandVars, queueVars
<1>2. PhaseInv'
  BY <1>1 DEF ExecInv, PhaseInv, Captured, Untouched, Silent, Waited, Delivered
<1> QED
  BY <1>1, <1>2, Frame DEF ExecInv, DataTypeOK

\* The command closes an end.
LEMMA CommandClosesKeeps == ASSUME ExecInv, NEW s \in Stream, CommandCloses(s) PROVE ExecInv'
<1>1. /\ writers' = [writers EXCEPT ![s] = @ \ {"command"}]
      /\ UNCHANGED <<request, pc, pipe, written, alive, stopped, reader, records, done, iter>>
  BY DEF CommandCloses, queueVars
<1>2. /\ writers' \in [Stream -> SUBSET {"command", "shell"}]
      /\ \A t \in Stream : writers'[t] \subseteq writers[t]
  BY <1>1 DEF ExecInv, DataTypeOK
<1>3. PhaseInv'
  BY <1>1, <1>2 DEF ExecInv, PhaseInv, Captured, Untouched, Silent, Waited, Delivered, Stream
<1> QED
  BY <1>1, <1>2, <1>3, Frame DEF ExecInv, DataTypeOK

\* The command dies, which its readers need not notice.
LEMMA CommandEndsKeeps == ASSUME ExecInv, CommandEnds PROVE ExecInv'
<1>1. /\ alive' = FALSE /\ stopped' \in BOOLEAN
      /\ UNCHANGED <<request, pc, pipe, writers, written, reader, records, done, iter>>
  BY DEF CommandEnds, queueVars, ExecInv, DataTypeOK
<1>2. PhaseInv'
  BY <1>1 DEF ExecInv, PhaseInv, Captured, Untouched, Silent, Waited, Delivered
<1> QED
  BY <1>1, <1>2, Frame DEF ExecInv, DataTypeOK

\* Nor its being stopped.
LEMMA CommandStopsKeeps == ASSUME ExecInv, CommandStops PROVE ExecInv'
<1>1. /\ stopped' = TRUE
      /\ UNCHANGED <<request, pc, pipe, writers, written, alive, reader, records, done, iter>>
  BY DEF CommandStops, queueVars
<1>2. PhaseInv'
  BY <1>1 DEF ExecInv, PhaseInv, Captured, Untouched, Silent, Waited, Delivered
<1> QED
  BY <1>1, <1>2, Frame DEF ExecInv, DataTypeOK

\* The command writes a byte: nobody has seen the end of that stream.
LEMMA CommandWritesKeeps == ASSUME ExecInv, NEW s \in Stream, CommandWrites(s) PROVE ExecInv'
<1>1. PICK c \in Byte :
          /\ "command" \in writers[s]
          /\ pipe' = [pipe EXCEPT ![s] = Append(@, c)]
          /\ written' = [written EXCEPT ![s] = Append(@, c)]
          /\ UNCHANGED <<request, pc, writers, alive, stopped, reader, records, done, iter>>
  BY DEF CommandWrites, queueVars
<1>2. /\ reader[s] \in ReaderRecord /\ pipe[s] \in Bytes /\ written[s] \in Bytes
      /\ pipe \in [Stream -> Bytes] /\ written \in [Stream -> Bytes]
      /\ Faithful(reader[s], pipe[s], written[s], writers[s]) /\ writers[s] # {}
  BY <1>1 DEF ExecInv, DataTypeOK, StreamsFaithful
<1>3. /\ Append(pipe[s], c) \in Bytes /\ Append(written[s], c) \in Bytes
      /\ Faithful(reader[s], Append(pipe[s], c), Append(written[s], c), writers[s])
  BY <1>2, FaithfulWrite
<1>4. /\ pipe'[s] = Append(pipe[s], c) /\ written'[s] = Append(written[s], c)
      /\ \A t \in Stream : t # s => pipe'[t] = pipe[t] /\ written'[t] = written[t]
  BY <1>1, <1>2
<1>5. DataTypeOK'
  BY <1>1, <1>2, <1>3 DEF ExecInv, DataTypeOK
<1>6. StreamsFaithful'
  BY <1>1, <1>3, <1>4 DEF ExecInv, StreamsFaithful
<1>7. PhaseInv'
  BY <1>1, <1>2, <1>4 DEF ExecInv, PhaseInv, Captured, Untouched, Silent, Waited, Delivered, Stream
<1>8. QueueInv'
  BY <1>1, <1>2, <1>4 DEF ExecInv, QueueInv, Captured, Delivered, Stream
<1>9. LoopInv'
  BY <1>1 DEF ExecInv, LoopInv
<1> QED
  BY <1>5, <1>6, <1>7, <1>8, <1>9 DEF ExecInv

\* A step of a reader that takes no line.
LEMMA ReaderMoves ==
    ASSUME ExecInv, NEW s \in Stream, NEW r2 \in ReaderRecord, NEW p2 \in Bytes,
           reader[s].state \in {"reading", "yielding", "ending"},
           reader' = [reader EXCEPT ![s] = r2], pipe' = [pipe EXCEPT ![s] = p2],
           r2.text = reader[s].text, r2.state # "off",
           Faithful(r2, p2, written[s], writers[s]),
           UNCHANGED <<request, pc, writers, written, alive, stopped, records, done, iter>>
    PROVE  ExecInv'
<1>1. /\ reader'[s] = r2 /\ pipe'[s] = p2
      /\ \A t \in Stream : t # s => reader'[t] = reader[t] /\ pipe'[t] = pipe[t]
      /\ reader' \in [Stream -> ReaderRecord] /\ pipe' \in [Stream -> Bytes]
  BY DEF ExecInv, DataTypeOK
<1>2. DataTypeOK'
  BY <1>1 DEF ExecInv, DataTypeOK
<1>3. StreamsFaithful'
  BY <1>1 DEF ExecInv, StreamsFaithful
<1>4. pc \notin {"new", "capturing", "resolved"} /\ ~Captured /\ (s = "stdout" => ~done)
  BY DEF ExecInv, PhaseInv, QueueInv, Untouched, Stream
<1>5. PhaseInv'
  BY <1>4 DEF ExecInv, PhaseInv, Captured, Waited, Delivered
<1>6. QueueInv'
  BY <1>1, <1>4 DEF ExecInv, QueueInv, Captured, Delivered, Stream
<1>7. LoopInv'
  BY DEF ExecInv, LoopInv
<1> QED
  BY <1>2, <1>3, <1>5, <1>6, <1>7 DEF ExecInv

\* A read, wherever it ends.
LEMMA ReadKeeps == ASSUME ExecInv, NEW s \in Stream, Read(s) PROVE ExecInv'
<1> DEFINE chunk(n) == SubSeq(pipe[s], 1, n)
           later(n) == SubSeq(pipe[s], n + 1, Len(pipe[s]))
           cut(n) == CutAfter(s, n)
           r2(n) == AfterRead(reader[s], Split(reader[s].rest \o Decode(chunk(n), {})), cut(n))
<1>1. PICK n \in 1..Len(pipe[s]) :
          /\ reader[s].state = "reading"
          /\ pipe' = [pipe EXCEPT ![s] = later(n)]
          /\ reader' = [reader EXCEPT ![s] = r2(n)]
          /\ UNCHANGED <<request, pc, writers, written, alive, stopped, records, done, iter>>
  BY DEF Read, queueVars
<1>2. /\ reader[s] \in ReaderRecord /\ pipe[s] \in Bytes /\ written[s] \in Bytes
      /\ Faithful(reader[s], pipe[s], written[s], writers[s])
  BY DEF ExecInv, DataTypeOK, StreamsFaithful
<1>3. /\ chunk(n) \in Bytes /\ later(n) \in Bytes /\ pipe[s] = chunk(n) \o later(n)
      /\ Len(chunk(n)) = n /\ chunk(n)[n] = pipe[s][n]
  BY <1>2, CutInTwo
<1> HIDE DEF chunk, later
<1>4. /\ Faithful(reader[s], chunk(n) \o later(n), written[s], writers[s])
      /\ chunk(n) # <<>>
      /\ cut(n) = IF chunk(n)[Len(chunk(n))] = "lead"
                  THEN {Len(written[s]) - Len(chunk(n) \o later(n)) + Len(chunk(n))} ELSE {}
  <2>1. Faithful(reader[s], chunk(n) \o later(n), written[s], writers[s])
    BY <1>2, <1>3, Zenon
  <2>2. chunk(n) # <<>>
    BY <1>3
  <2>3. cut(n) = IF chunk(n)[n] = "lead"
                 THEN {Len(written[s]) - Len(chunk(n) \o later(n)) + n} ELSE {}
    BY <1>3, Zenon DEF CutAfter
  <2> QED BY <1>3, <2>1, <2>2, <2>3, Zenon
<1> HIDE DEF cut
<1>5. /\ r2(n) \in ReaderRecord /\ r2(n).text = reader[s].text /\ r2(n).state = "yielding"
      /\ Faithful(r2(n), later(n), written[s], writers[s])
  BY <1>1, <1>2, <1>3, <1>4, FaithfulRead
<1> HIDE DEF r2
<1> QED
  BY <1>1, <1>3, <1>5, ReaderMoves

\* A read that finds the end.
LEMMA ReadEndKeeps == ASSUME ExecInv, NEW s \in Stream, ReadEnd(s) PROVE ExecInv'
<1> DEFINE r2 == AfterEnd(reader[s])
<1>1. /\ reader[s].state = "reading" /\ pipe[s] = <<>> /\ writers[s] = {}
      /\ reader' = [reader EXCEPT ![s] = r2]
      /\ UNCHANGED <<request, pc, pipe, writers, written, alive, stopped, records, done, iter>>
  BY DEF ReadEnd, AfterEnd, commandVars, queueVars
<1>2. /\ reader[s] \in ReaderRecord /\ written[s] \in Bytes /\ pipe \in [Stream -> Bytes]
      /\ Faithful(reader[s], <<>>, written[s], {})
  BY <1>1 DEF ExecInv, DataTypeOK, StreamsFaithful
<1>3. /\ r2 \in ReaderRecord /\ r2.text = reader[s].text /\ r2.state = "ending"
      /\ Faithful(r2, <<>>, written[s], {})
  BY <1>1, <1>2, FaithfulEnd
<1> HIDE DEF r2
<1>4. pipe' = [pipe EXCEPT ![s] = <<>>] /\ <<>> \in Bytes
  BY <1>1, <1>2 DEF Bytes
<1>5. Faithful(r2, <<>>, written[s], writers[s])
  BY <1>1, <1>3
<1> QED
  BY <1>1, <1>3, <1>4, <1>5, ReaderMoves

\* The next read is submitted when the lines of the last are taken.
LEMMA ReadAgainKeeps == ASSUME ExecInv, NEW s \in Stream, ReadAgain(s) PROVE ExecInv'
<1> DEFINE r2 == [reader[s] EXCEPT !.state = "reading"]
<1>1. /\ reader[s].state = "yielding" /\ reader[s].lines = <<>>
      /\ reader' = [reader EXCEPT ![s] = r2]
      /\ UNCHANGED <<request, pc, pipe, writers, written, alive, stopped, records, done, iter>>
  BY DEF ReadAgain, commandVars, queueVars, ExecInv, DataTypeOK
<1>2. /\ reader[s] \in ReaderRecord /\ pipe[s] \in Bytes /\ pipe \in [Stream -> Bytes]
      /\ Faithful(reader[s], pipe[s], written[s], writers[s])
  BY DEF ExecInv, DataTypeOK, StreamsFaithful
<1>3. /\ r2 \in ReaderRecord /\ r2.text = reader[s].text /\ r2.state = "reading"
      /\ r2.rest = reader[s].rest /\ r2.lines = reader[s].lines /\ r2.cuts = reader[s].cuts
  BY <1>2 DEF ReaderRecord
<1> HIDE DEF r2
<1>4. Faithful(r2, pipe[s], written[s], writers[s])
  BY <1>1, <1>2, <1>3 DEF Faithful, Drawn
<1>5. pipe' = [pipe EXCEPT ![s] = pipe[s]]
  BY <1>1, <1>2
<1> QED
  BY <1>1, <1>2, <1>3, <1>4, <1>5, ReaderMoves

\* A record that is added leaves those before it where they are.
LEMMA AppendKeepsSeen ==
    ASSUME NEW recs \in Seq(Record), NEW r \in Record, NEW i \in Nat, i <= Len(recs)
    PROVE  /\ Append(recs, r) \in Seq(Record) /\ i <= Len(Append(recs, r))
           /\ SubSeq(Append(recs, r), 1, i) = SubSeq(recs, 1, i)
<1> DEFINE long == Append(recs, r)
<1>1. /\ long \in Seq(Record) /\ Len(long) = Len(recs) + 1 /\ Len(recs) \in Nat
      /\ \A j \in 1..Len(recs) : long[j] = recs[j]
      /\ \A j \in 1..Len(recs) : recs[j] \in Record
  BY AppendProperties, LenProperties, ElementOfSeq
<1> HIDE DEF long
<1>2. /\ SubSeq(recs, 1, i) \in Seq(Record) /\ Len(SubSeq(recs, 1, i)) = i
      /\ \A j \in 1..i : SubSeq(recs, 1, i)[j] = recs[j]
  BY <1>1, SubSeqProperties
<1>3. /\ SubSeq(long, 1, i) \in Seq(Record) /\ Len(SubSeq(long, 1, i)) = i
      /\ \A j \in 1..i : SubSeq(long, 1, i)[j] = long[j]
  <2>1. \A j \in 1..i : long[j] \in Record
    BY <1>1
  <2> QED
    BY <2>1, SubSeqProperties
<1>4. \A j \in 1..i : SubSeq(long, 1, i)[j] = SubSeq(recs, 1, i)[j]
  BY <1>1, <1>2, <1>3
<1>5. SubSeq(long, 1, i) = SubSeq(recs, 1, i)
  BY <1>2, <1>3, <1>4, SeqEqual
<1> QED
  BY <1>1, <1>5 DEF long

\* A line goes to the text and to the queue in one step.
LEMMA TakeLineKeeps == ASSUME ExecInv, NEW s \in Stream, TakeLine(s) PROVE ExecInv'
<1> DEFINE r2 == AfterTake(reader[s])
           rec == [stream |-> s, line |-> Head(reader[s].lines)]
<1>1. /\ reader[s].state \in {"yielding", "ending"} /\ reader[s].lines # <<>>
      /\ reader' = [reader EXCEPT ![s] = r2]
      /\ records' = Append(records, rec)
      /\ iter' = Woken
      /\ UNCHANGED <<request, pc, pipe, writers, written, alive, stopped, done>>
  BY DEF TakeLine, AfterTake, PushRecord, commandVars
<1>2. /\ reader[s] \in ReaderRecord /\ pipe[s] \in Bytes /\ written[s] \in Bytes
      /\ Faithful(reader[s], pipe[s], written[s], writers[s])
      /\ records \in Seq(Record)
  BY DEF ExecInv, DataTypeOK, StreamsFaithful
<1>3. /\ r2 \in ReaderRecord /\ r2.state = reader[s].state
      /\ Head(reader[s].lines) \in Line /\ r2.text = Append(reader[s].text, Head(reader[s].lines))
      /\ Faithful(r2, pipe[s], written[s], writers[s])
  BY <1>1, <1>2, FaithfulTake
<1>4. rec \in Record /\ rec.stream = s /\ rec.line = Head(reader[s].lines)
  BY <1>3 DEF Record
<1> HIDE DEF r2, rec
<1>5. /\ reader'[s] = r2
      /\ \A t \in Stream : t # s => reader'[t] = reader[t]
      /\ reader' \in [Stream -> ReaderRecord]
  BY <1>1, <1>3 DEF ExecInv, DataTypeOK
<1>6. /\ iter' \in [Consumer -> IterRecord]
      /\ \A c \in Consumer : /\ iter'[c].i = iter[c].i
                             /\ iter'[c].state = "ended" <=> iter[c].state = "ended"
  BY <1>1, WokenKeeps DEF ExecInv
<1>7. records' \in Seq(Record)
  BY <1>1, <1>2, <1>4
<1>8. DataTypeOK'
  BY <1>1, <1>5, <1>6, <1>7 DEF ExecInv, DataTypeOK
<1>9. StreamsFaithful'
  BY <1>1, <1>3, <1>5 DEF ExecInv, StreamsFaithful
<1>10. pc \notin {"new", "capturing", "resolved"} /\ ~Captured /\ (s = "stdout" => ~done)
  BY <1>1 DEF ExecInv, PhaseInv, QueueInv, Untouched, Stream
<1>11. PhaseInv'
  BY <1>1, <1>10 DEF ExecInv, PhaseInv, Captured, Waited, Delivered
<1>12. OfStream("stdout", records') = IF s = "stdout" THEN Append(OfStream("stdout", records), rec)
                                      ELSE OfStream("stdout", records)
  BY <1>1, <1>2, <1>4, OfStreamAppend
<1>7a. Lines(OfStream("stdout", records')) = reader'["stdout"].text
  <2>1. Lines(OfStream("stdout", records)) = reader["stdout"].text
    BY <1>10 DEF ExecInv, QueueInv
  <2>2. CASE s = "stdout"
    <3>1. OfStream("stdout", records) \in Seq(Record)
      BY <1>2, <1>4, OfStreamAppend
    <3>2. Lines(Append(OfStream("stdout", records), rec))
            = Append(Lines(OfStream("stdout", records)), rec.line)
      BY <1>4, <3>1, LinesAppend
    <3> QED
      BY <1>3, <1>4, <1>5, <1>12, <2>1, <2>2, <3>2, Zenon
  <2>3. CASE s # "stdout"
    BY <1>5, <1>12, <2>1, <2>3 DEF Stream
  <2> QED
    BY <2>2, <2>3
<1>14. QueueInv'
  <2>1. ASSUME done PROVE s # "stdout" /\ OfStream("stdout", records') = OfStream("stdout", records)
    BY <1>10, <1>12, <2>1
  <2> QED
    BY <1>1, <1>5, <1>10, <1>7a, <2>1 DEF ExecInv, QueueInv, Captured, Delivered, Stream
<1>15. LoopInv'
  <2> SUFFICES ASSUME NEW c \in Consumer
      PROVE  /\ iter'[c].i <= Len(records')
             /\ iter'[c].state = "ended" =>
                    done' /\ OfStream("stdout", SubSeq(records', 1, iter'[c].i))
                               = OfStream("stdout", records')
    BY DEF LoopInv
  <2>1. iter[c].i \in Nat /\ iter[c].i <= Len(records)
    BY DEF ExecInv, DataTypeOK, IterRecord, LoopInv
  <2>2. iter[c].i <= Len(records') /\ SubSeq(records', 1, iter[c].i) = SubSeq(records, 1, iter[c].i)
    BY <1>1, <1>2, <1>4, <2>1, AppendKeepsSeen
  <2>3. ASSUME iter'[c].state = "ended"
        PROVE  /\ done' /\ OfStream("stdout", records') = OfStream("stdout", records)
               /\ OfStream("stdout", SubSeq(records, 1, iter[c].i)) = OfStream("stdout", records)
    BY <1>1, <1>6, <1>10, <1>12, <2>3 DEF ExecInv, LoopInv
  <2> QED
    BY <1>6, <2>2, <2>3
<1> QED
  BY <1>8, <1>9, <1>11, <1>14, <1>15 DEF ExecInv

\* The reader of stdout finishes the queue with every line in it.
LEMMA ReaderReturnsKeeps == ASSUME ExecInv, NEW s \in Stream, ReaderReturns(s) PROVE ExecInv'
<1> DEFINE r2 == [reader[s] EXCEPT !.state = "closed"]
<1>1. /\ reader[s].state = "ending" /\ reader[s].lines = <<>>
      /\ reader' = [reader EXCEPT ![s] = r2]
      /\ IF s = "stdout" THEN done' = TRUE /\ iter' = Woken ELSE UNCHANGED <<done, iter>>
      /\ UNCHANGED <<request, pc, pipe, writers, written, alive, stopped, records>>
  BY DEF ReaderReturns, Finish, commandVars, ExecInv, DataTypeOK
<1>2. /\ reader[s] \in ReaderRecord
      /\ Faithful(reader[s], pipe[s], written[s], writers[s])
  BY DEF ExecInv, DataTypeOK, StreamsFaithful
<1>3. /\ r2 \in ReaderRecord /\ r2.text = reader[s].text /\ r2.state = "closed"
      /\ r2.rest = reader[s].rest /\ r2.lines = reader[s].lines /\ r2.cuts = reader[s].cuts
  BY <1>2 DEF ReaderRecord
<1> HIDE DEF r2
<1>4. Faithful(r2, pipe[s], written[s], writers[s])
  BY <1>1, <1>2, <1>3 DEF Faithful
<1>5. writers[s] = {} /\ reader[s].text = LinesOf(Delivered(s))
  <2>1. reader[s].text \in Seq(Line)
    BY <1>2 DEF ReaderRecord
  <2>2. writers[s] = {} /\ reader[s].text \o <<>> = LinesOf(Delivered(s))
    BY <1>1, <1>2 DEF Faithful, Delivered
  <2> QED
    BY <2>1, <2>2, ConcatEmptySeq
<1>6. /\ reader'[s] = r2
      /\ \A t \in Stream : t # s => reader'[t] = reader[t]
      /\ reader' \in [Stream -> ReaderRecord]
  BY <1>1, <1>3 DEF ExecInv, DataTypeOK
<1>7. /\ iter' \in [Consumer -> IterRecord]
      /\ \A c \in Consumer : /\ iter'[c].i = iter[c].i
                             /\ iter'[c].state = "ended" <=> iter[c].state = "ended"
      /\ done' \in BOOLEAN /\ (done => done')
  <2>1. CASE s = "stdout"
    BY <1>1, <2>1, WokenKeeps DEF ExecInv
  <2>2. CASE s # "stdout"
    BY <1>1, <2>2 DEF ExecInv, DataTypeOK
  <2> QED
    BY <2>1, <2>2
<1>8. DataTypeOK'
  BY <1>1, <1>6, <1>7 DEF ExecInv, DataTypeOK
<1>9. StreamsFaithful'
  BY <1>1, <1>4, <1>6 DEF ExecInv, StreamsFaithful
<1>10. pc \notin {"new", "capturing", "resolved"} /\ ~Captured
  BY <1>1 DEF ExecInv, PhaseInv, QueueInv, Untouched, Stream
<1>11. PhaseInv'
  BY <1>1, <1>10 DEF ExecInv, PhaseInv, Captured, Waited, Delivered
<1>12. QueueInv'
  <2>1. Lines(OfStream("stdout", records)) = reader["stdout"].text /\ reader'["stdout"].text = reader["stdout"].text
    BY <1>3, <1>6, <1>10 DEF ExecInv, QueueInv, Stream
  <2>2. CASE s = "stdout"
    BY <1>1, <1>3, <1>5, <1>6, <1>10, <2>1, <2>2 DEF QueueInv, Captured, Delivered
  <2>3. CASE s # "stdout"
    BY <1>1, <1>6, <1>10, <2>1, <2>3 DEF ExecInv, QueueInv, Captured, Delivered, Stream
  <2> QED
    BY <2>2, <2>3
<1>7a. LoopInv'
  BY <1>1, <1>7 DEF ExecInv, LoopInv
<1> QED
  BY <1>8, <1>9, <1>11, <1>12, <1>7a DEF ExecInv

\* A command of no words finishes the queue with nothing in it.
LEMMA RunNothingKeeps == ASSUME ExecInv, RunNothing PROVE ExecInv'
<1>1. /\ pc = "new" /\ request.form = "nothing" /\ pc' = "resolved"
      /\ done' = TRUE /\ iter' = Woken
      /\ UNCHANGED <<request, pipe, writers, written, alive, stopped, reader, records>>
  BY DEF RunNothing, Finish, commandVars
<1>2. /\ ~alive /\ ~Captured /\ ~done
      /\ \A s \in Stream : Untouched(s) /\ Silent(s)
  BY <1>1 DEF ExecInv, PhaseInv, Captured, Waited, Delivered
<1>3. /\ iter' \in [Consumer -> IterRecord]
      /\ \A c \in Consumer : /\ iter'[c].i = iter[c].i
                             /\ iter'[c].state = "ended" <=> iter[c].state = "ended"
  BY <1>1, WokenKeeps DEF ExecInv
<1>4. DataTypeOK'
  BY <1>1, <1>3 DEF ExecInv, DataTypeOK
<1>5. StreamsFaithful'
  BY <1>1 DEF ExecInv, StreamsFaithful, Faithful
<1>6. \A s \in Stream : /\ writers[s] = {} /\ reader[s].state = "off"
                        /\ reader[s].text = LinesOf(Delivered(s))
  BY <1>2, EmptyOutput, DecodeEmpty DEF Untouched, Silent, Delivered
<1>7. PhaseInv'
  BY <1>1, <1>2, <1>6 DEF PhaseInv, Waited, Delivered
<1>8. QueueInv'
  BY <1>1, <1>2, <1>6 DEF ExecInv, QueueInv, Captured, Delivered, Stream
<1>9. LoopInv'
  BY <1>1, <1>2, <1>3 DEF ExecInv, LoopInv
<1> QED
  BY <1>4, <1>5, <1>7, <1>8, <1>9 DEF ExecInv

\* captureOutput takes over the whole of stdout.
LEMMA RunCapturedKeeps == ASSUME ExecInv, RunCaptured PROVE ExecInv'
<1>1. /\ pc = "new" /\ Captured /\ pc' = "capturing" /\ alive' = TRUE
      /\ writers' = [writers EXCEPT !["stdout"] = {"command"}]
      /\ UNCHANGED <<request, pipe, written, stopped, reader, records, done, iter>>
  BY DEF RunCaptured, queueVars
<1>2. /\ records = <<>> /\ ~done
      /\ \A s \in Stream : Untouched(s) /\ Silent(s)
  BY <1>1 DEF ExecInv, PhaseInv
<1>3. /\ writers'["stdout"] = {"command"} /\ writers'["stderr"] = writers["stderr"]
      /\ writers' \in [Stream -> SUBSET {"command", "shell"}]
  BY <1>1 DEF ExecInv, DataTypeOK, Stream
<1>4. DataTypeOK'
  BY <1>1, <1>3 DEF ExecInv, DataTypeOK
<1>5. StreamsFaithful'
  BY <1>1, <1>2 DEF ExecInv, StreamsFaithful, Faithful, Untouched
<1>6. PhaseInv'
  BY <1>1, <1>2, <1>3 DEF PhaseInv, Captured, Untouched, Silent, Waited, Delivered, Stream
<1>7. QueueInv'
  BY <1>1, <1>2 DEF ExecInv, QueueInv, Captured, Delivered, Stream
<1>8. LoopInv'
  BY <1>1 DEF ExecInv, LoopInv
<1> QED
  BY <1>4, <1>5, <1>6, <1>7, <1>8 DEF ExecInv

\* The pipes are open, the readers have begun, and nothing has been written.
LEMMA StartKeeps ==
    ASSUME ExecInv, pc = "new", ~Captured, pc' \in {"running", "executing"}, alive' = TRUE,
           writers' \in [Stream -> SUBSET {"command", "shell"}],
           \A s \in Stream : ~Piped(s) => writers'[s] = {},
           StartReaders,
           UNCHANGED <<request, pipe, written, stopped, records, done, iter>>
    PROVE  ExecInv'
<1>1. /\ records = <<>> /\ ~done
      /\ \A s \in Stream : Untouched(s) /\ Silent(s)
  BY DEF ExecInv, PhaseInv
<1>2. \A s \in Stream :
          /\ reader'[s] \in ReaderRecord /\ reader'[s].text = <<>>
          /\ Faithful(reader'[s], <<>>, <<>>, writers'[s])
  <2> SUFFICES ASSUME NEW s \in Stream
      PROVE  /\ reader'[s] \in ReaderRecord /\ reader'[s].text = <<>>
             /\ Faithful(reader'[s], <<>>, <<>>, writers'[s])
    OBVIOUS
  <2> DEFINE r == reader[s]
             open == [r EXCEPT !.state = "reading"]
             shut == [r EXCEPT !.state = "closed"]
  <2>1. r \in ReaderRecord /\ r.text = <<>> /\ r.rest = <<>> /\ r.lines = <<>> /\ r.cuts = {}
    BY <1>1 DEF Untouched, ExecInv, DataTypeOK
  <2>2. reader'[s] = IF Piped(s) THEN open ELSE shut
    BY DEF StartReaders
  <2>3. open.text = <<>> /\ shut.text = <<>>
    BY <2>1 DEF ReaderRecord
  <2>4. /\ open \in ReaderRecord /\ shut \in ReaderRecord
        /\ \A holders : Faithful(open, <<>>, <<>>, holders)
        /\ Faithful(shut, <<>>, <<>>, {})
    <3> HIDE DEF r
    <3> QED
      BY <2>1, FaithfulStart
  <2> HIDE DEF open, shut
  <2>5. CASE Piped(s)
    BY <2>2, <2>3, <2>4, <2>5
  <2>6. CASE ~Piped(s)
    BY <2>2, <2>3, <2>4, <2>6
  <2> QED
    BY <2>5, <2>6
<1>3. reader' \in [Stream -> ReaderRecord]
  BY <1>2 DEF StartReaders
<1>4. DataTypeOK'
  BY <1>3 DEF ExecInv, DataTypeOK
<1>5. StreamsFaithful'
  BY <1>1, <1>2 DEF StreamsFaithful, Silent
<1>6. PhaseInv'
  BY DEF PhaseInv, Captured, Waited, Delivered
<1>7. QueueInv'
  BY <1>1, <1>2 DEF ExecInv, QueueInv, Captured, Untouched, Stream
<1>8. LoopInv'
  BY DEF ExecInv, LoopInv
<1> QED
  BY <1>4, <1>5, <1>6, <1>7, <1>8 DEF ExecInv

\* The fast path starts the readers it needs,
LEMMA RunStagesKeeps == ASSUME ExecInv, RunStages PROVE ExecInv'
<1>1. writers' = [s \in Stream |-> IF Piped(s) THEN {"command"} ELSE {}]
  BY DEF RunStages
<1>2. /\ writers' \in [Stream -> SUBSET {"command", "shell"}]
      /\ \A s \in Stream : ~Piped(s) => writers'[s] = {}
  BY <1>1
<1> QED
  BY <1>2, StartKeeps DEF RunStages, queueVars

\* and so does _runCompound.
LEMMA RunCompoundKeeps == ASSUME ExecInv, RunCompound PROVE ExecInv'
<1>1. writers' = [s \in Stream |-> IF Piped(s) THEN {"command", "shell"} ELSE {}]
  BY DEF RunCompound
<1>2. /\ writers' \in [Stream -> SUBSET {"command", "shell"}]
      /\ \A s \in Stream : ~Piped(s) => writers'[s] = {}
  BY <1>1
<1>3. ~Captured
  BY DEF RunCompound, Captured
<1> QED
  BY <1>2, <1>3, StartKeeps DEF RunCompound, queueVars

\* captureOutput gives the whole output at once; the queue gets the lines that are not empty.
LEMMA CaptureDoneKeeps == ASSUME ExecInv, CaptureDone PROVE ExecInv'
<1> DEFINE text == Decode(written["stdout"], {})
           lines == NonEmpty(Split(text))
           recs == [i \in DOMAIN lines |-> [stream |-> "stdout", line |-> lines[i]]]
<1>1. /\ Captured /\ records = <<>> /\ ~done /\ Silent("stderr")
      /\ pipe["stdout"] = written["stdout"]
      /\ \A s \in Stream : Untouched(s)
  BY DEF CaptureDone, ExecInv, PhaseInv
<1>2. /\ pc = "capturing" /\ Waited /\ writers["stdout"] = {} /\ pc' = "resolved"
      /\ reader' = [reader EXCEPT !["stdout"].text = LinesOf(text)]
      /\ records' = recs
      /\ done' = TRUE /\ iter' = Woken
      /\ UNCHANGED <<request, pipe, writers, written, alive, stopped>>
  BY <1>1 DEF CaptureDone, Finish, commandVars
<1>3. text \in Line /\ "stdout" \in Stream /\ "stderr" \in Stream
  BY DecodeType DEF ExecInv, DataTypeOK, Stream
<1>4. lines = NonEmpty(LinesOf(text)) /\ lines \in Seq(Line) /\ LinesOf(text) \in Seq(Line)
  BY <1>3, NonEmptyLines, LinesOfType
<1> HIDE DEF text, lines
<1>5. /\ recs \in Seq(Record) /\ Lines(recs) = lines
      /\ OfStream("stdout", recs) = recs
  <2>1. /\ Len(lines) \in Nat /\ DOMAIN lines = 1..Len(lines)
        /\ \A i \in 1..Len(lines) : lines[i] \in Line
    BY <1>4, ElementOfSeq, LenProperties
  <2>2. recs = [i \in 1..Len(lines) |-> [stream |-> "stdout", line |-> lines[i]]]
    BY <2>1
  <2>3. \A i \in 1..Len(lines) : recs[i] = [stream |-> "stdout", line |-> lines[i]]
    BY <2>2
  <2>4. \A i \in 1..Len(lines) : recs[i] \in Record /\ recs[i].stream = "stdout" /\ recs[i].line = lines[i]
    BY <1>3, <2>1, <2>3 DEF Record
  <2>5. DOMAIN recs = 1..Len(lines)
    BY <2>2
  <2>6. recs \in [1..Len(lines) -> Record]
    BY <2>2, <2>4
  <2> HIDE DEF recs
  <2>7. recs \in Seq(Record) /\ Len(recs) = Len(lines)
    BY <2>1, <2>5, <2>6, LenProperties
  <2>8. OfStream("stdout", recs) = recs
    BY <2>4, <2>7, OfStreamAll
  <2>9. Lines(recs) \in Seq(Line)
    BY <2>7, LinesType
  <2>10. Lines(recs) = [i \in 1..Len(lines) |-> recs[i].line]
    BY <2>5 DEF Lines
  <2>11. Lines(recs) = lines
    <3>1. \A i \in 1..Len(lines) : Lines(recs)[i] = lines[i]
      BY <2>4, <2>10
    <3>2. DOMAIN Lines(recs) = 1..Len(lines)
      BY <2>10
    <3>3. Len(Lines(recs)) = Len(lines)
      BY <2>1, <2>9, <3>2, LenProperties
    <3> QED
      BY <1>4, <2>9, <3>1, <3>3, SeqEqual
  <2> QED
    BY <2>7, <2>8, <2>11
<1> HIDE DEF recs
<1> DEFINE r2 == [reader["stdout"] EXCEPT !.text = LinesOf(text)]
<1>6. /\ r2 \in ReaderRecord /\ r2.state = "off" /\ r2.text = LinesOf(text)
      /\ r2.rest = <<>> /\ r2.lines = <<>> /\ r2.cuts = {}
  <2>1. /\ reader["stdout"] \in ReaderRecord /\ reader["stdout"].state = "off"
        /\ reader["stdout"].rest = <<>> /\ reader["stdout"].lines = <<>>
        /\ reader["stdout"].cuts = {}
    BY <1>1, <1>3 DEF ExecInv, DataTypeOK, Untouched
  <2> QED
    BY <1>4, <2>1 DEF ReaderRecord
<1>7. /\ reader'["stdout"] = r2 /\ reader'["stderr"] = reader["stderr"]
      /\ reader' \in [Stream -> ReaderRecord]
  <2>1. reader' = [reader EXCEPT !["stdout"] = r2] /\ reader \in [Stream -> ReaderRecord]
    BY <1>2, <1>3 DEF ExecInv, DataTypeOK
  <2> HIDE DEF r2
  <2> QED
    BY <1>3, <1>6, <2>1 DEF Stream
<1> HIDE DEF r2
<1>8. /\ iter' \in [Consumer -> IterRecord]
      /\ \A c \in Consumer : /\ iter'[c].i = iter[c].i
                             /\ iter'[c].state = "ended" <=> iter[c].state = "ended"
  BY <1>2, WokenKeeps DEF ExecInv
<1>9. DataTypeOK'
  BY <1>2, <1>5, <1>7, <1>8 DEF ExecInv, DataTypeOK
<1>10. StreamsFaithful'
  <2>1. Plain(<<>>)
    BY DEF Plain
  <2> QED
    BY <1>1, <1>3, <1>6, <1>7, <2>1 DEF StreamsFaithful, Faithful, Untouched, Stream
<1>11. /\ writers["stderr"] = {} /\ reader["stderr"].state = "off"
       /\ reader["stderr"].text = LinesOf(Delivered("stderr"))
  BY <1>1, <1>3, EmptyOutput, DecodeEmpty DEF Untouched, Silent, Delivered
<1>12. PhaseInv'
  BY <1>2, <1>6, <1>7, <1>11 DEF PhaseInv, Stream, Waited, Delivered, text
<1>7a. QueueInv'
  BY <1>1, <1>2, <1>4, <1>5, <1>6, <1>7, <1>11 DEF QueueInv, Captured, Delivered, text
<1>14. LoopInv'
  <2> SUFFICES ASSUME NEW c \in Consumer
      PROVE  iter'[c].i <= Len(records') /\ iter'[c].state # "ended"
    BY DEF LoopInv
  <2>1. iter[c].i \in Nat /\ iter[c].i <= Len(records) /\ iter[c].state # "ended"
    BY <1>1 DEF ExecInv, DataTypeOK, LoopInv, IterRecord
  <2>2. Len(records) = 0 /\ Len(records') \in Nat
    BY <1>1, <1>2, <1>5
  <2> QED
    BY <1>8, <2>1, <2>2
<1> QED
  BY <1>9, <1>10, <1>12, <1>7a, <1>14 DEF ExecInv

\* A loop ends when it has been given every record and no more will come.
LEMMA IterStepKeeps == ASSUME ExecInv, NEW c \in Consumer, IterStep(c) PROVE ExecInv'
<1> DEFINE x == iter[c]
           y == IF x.i < Len(records) THEN [x EXCEPT !.i = x.i + 1]
                ELSE IF done          THEN [x EXCEPT !.state = "ended"]
                                      ELSE [x EXCEPT !.state = "waiting"]
<1>1. /\ x.state = "ready"
      /\ iter' = [iter EXCEPT ![c] = y]
      /\ UNCHANGED <<request, pc, pipe, writers, written, alive, stopped, reader, records, done>>
  BY DEF IterStep, commandVars
<1>2. /\ x \in IterRecord /\ x.i \in Nat /\ x.i <= Len(records)
      /\ records \in Seq(Record) /\ Len(records) \in Nat
  BY DEF ExecInv, DataTypeOK, LoopInv, IterRecord
<1>3. /\ y \in IterRecord /\ y.i <= Len(records)
      /\ y.state = "ended" => done /\ y.i = Len(records)
  <2>1. CASE x.i < Len(records)
    BY <1>1, <1>2, <2>1 DEF IterRecord
  <2>2. CASE ~(x.i < Len(records)) /\ done
    BY <1>1, <1>2, <2>2 DEF IterRecord
  <2>3. CASE ~(x.i < Len(records)) /\ ~done
    BY <1>1, <1>2, <2>3 DEF IterRecord
  <2> QED
    BY <2>1, <2>2, <2>3
<1> HIDE DEF x, y
<1>4. /\ iter'[c] = y /\ iter' \in [Consumer -> IterRecord]
      /\ \A d \in Consumer : d # c => iter'[d] = iter[d]
  BY <1>1, <1>3 DEF ExecInv, DataTypeOK
<1>5. DataTypeOK'
  BY <1>1, <1>4 DEF ExecInv, DataTypeOK
<1>6. StreamsFaithful' /\ PhaseInv'
  BY <1>1 DEF ExecInv, StreamsFaithful, PhaseInv, Captured, Untouched, Silent, Waited, Delivered
<1>7. QueueInv'
  BY <1>1 DEF ExecInv, QueueInv, Captured, Delivered
<1>8. LoopInv'
  <2>1. y.state = "ended" => SubSeq(records, 1, y.i) = records
    BY <1>2, <1>3, SubSeqFull
  <2> QED
    BY <1>1, <1>3, <1>4, <2>1 DEF ExecInv, LoopInv
<1> QED
  BY <1>5, <1>6, <1>7, <1>8 DEF ExecInv

-----------------------------------------------------------------------------
(* The specification.                                                      *)

\* A handle that is new has taken nothing, and its command has written nothing.
LEMMA InitKeeps == ASSUME Init PROVE ExecInv
<1>1. <<>> \in Line /\ <<>> \in Seq(Line) /\ <<>> \in Seq(Record) /\ <<>> \in Bytes
  BY DEF Line, Bytes
<1>2. \A s \in Stream : reader[s] = [state |-> "off", rest |-> <<>>, lines |-> <<>>, text |-> <<>>,
                                 cuts |-> {}]
  BY DEF Init
<1>3. reader \in [Stream -> ReaderRecord]
  BY <1>1 DEF Init, ReaderRecord
<1>4. DataTypeOK
  BY <1>1, <1>3 DEF Init, DataTypeOK, IterRecord
<1>5. StreamsFaithful
  <2>1. Plain(<<>>)
    BY DEF Plain
  <2>2. \A s \in Stream : reader[s].rest = <<>> /\ reader[s].state = "off" /\ reader[s].cuts = {}
    BY <1>2
  <2> QED
    BY <2>1, <2>2 DEF StreamsFaithful, Faithful
<1>6. PhaseInv
  BY <1>2 DEF Init, PhaseInv, Untouched, Silent, Waited, Delivered
<1>7. QueueInv
  <2>1. OfStream("stdout", records) = <<>>
    BY OfStreamEmpty DEF Init
  <2>2. Lines(<<>>) = <<>>
    BY DEF Lines
  <2> QED
    BY <1>2, <2>1, <2>2 DEF Init, QueueInv, Stream
<1>8. LoopInv
  BY DEF Init, LoopInv
<1> QED
  BY <1>4, <1>5, <1>6, <1>7, <1>8 DEF ExecInv

\* No step of _run, of the readers, of the feed, of a loop or of the command breaks it.
LEMMA NextKeeps == ASSUME ExecInv, [Next]_vars PROVE ExecInv'
<1>1. CASE RunStep
  BY <1>1, RunThrowsKeeps, RunNothingKeeps, RunCapturedKeeps, RunStagesKeeps, RunCompoundKeeps,
     CompoundDoneKeeps, ResolveKeeps, RejectKeeps, CaptureDoneKeeps DEF RunStep
<1>2. CASE FeedNext \/ FeedWritten
  BY <1>2, FeedKeeps
<1>3. CASE CommandStep
  BY <1>3, CommandEndsKeeps, CommandStopsKeeps, CommandWritesKeeps, CommandClosesKeeps DEF CommandStep
<1>4. ASSUME NEW s \in Stream, StreamStep(s) PROVE ExecInv'
  BY <1>4, ReadKeeps, ReadEndKeeps, TakeLineKeeps, ReadAgainKeeps, ReaderReturnsKeeps
     DEF StreamStep
<1>5. ASSUME NEW c \in Consumer, IterStep(c) PROVE ExecInv'
  BY <1>5, IterStepKeeps
<1>6. CASE UNCHANGED vars
  <2>1. PhaseInv'
    BY <1>6 DEF vars, commandVars, queueVars, ExecInv, PhaseInv, Captured, Untouched, Silent, Waited, Delivered
  <2> QED
    BY <1>6, <2>1, Frame DEF vars, commandVars, queueVars, ExecInv, DataTypeOK
<1> QED
  BY <1>1, <1>2, <1>3, <1>4, <1>5, <1>6 DEF Next

\* In every reachable state of a handle what the reader of a stream has taken and has in
\* hand is what its reads made of the bytes they have seen, what they have seen and what is
\* in the pipe is what the command wrote, and the queue has the lines too.
THEOREM ExecInvariant == Spec => []ExecInv
<1>1. Init => ExecInv
  BY InitKeeps
<1>2. ExecInv /\ [Next]_vars => ExecInv'
  BY NextKeeps
<1> QED
  BY <1>1, <1>2, PTL DEF Spec

\* A result that resolved comes after the end of the command, or its stop, and after the end
\* of its streams, and has every line that was written, for any output and any reads: _run
\* resolves when both readers have returned, fdLineReader keeps what follows the last newline
\* for its next read, and a read spoils only the character it ends in.
THEOREM ResultIsComplete == Spec => []ResultComplete
<1>1. ExecInv => ResultComplete
  <2> SUFFICES ASSUME ExecInv, pc = "resolved" PROVE ResultComplete
    BY DEF ResultComplete
  <2>1. Waited /\ \A s \in Stream : writers[s] = {} /\ reader[s].text = LinesOf(Delivered(s))
    BY DEF ExecInv, PhaseInv
  <2>2. Captured => \A s \in Stream : reader[s].cuts = {}
    BY DEF ExecInv, QueueInv, StreamsFaithful, Faithful, Stream
  <2> QED
    BY <2>1, <2>2, Zenon DEF ResultComplete
<1> QED
  BY <1>1, ExecInvariant, PTL

\* A loop over stdout that ended has been given every line of it, in order: a record is
\* queued for each line before _finish, and the waiters are called after both.
THEOREM EveryLineIterated == ASSUME "stdout" \in Consumer PROVE Spec => []StdoutIterated
<1>1. ExecInv => StdoutIterated
  <2> SUFFICES ASSUME ExecInv, iter["stdout"].state = "ended" PROVE StdoutIterated
    BY DEF StdoutIterated
  <2>1. done /\ Given("stdout") = OfStream("stdout", records)
    BY DEF ExecInv, LoopInv, Given
  <2>2. Lines(OfStream("stdout", records)) =
            IF Captured THEN NonEmpty(LinesOf(Delivered("stdout"))) ELSE LinesOf(Delivered("stdout"))
    BY <2>1 DEF ExecInv, QueueInv
  <2> QED
    BY <2>1, <2>2, Zenon DEF StdoutIterated
<1> QED
  BY <1>1, ExecInvariant, PTL

=============================================================================
