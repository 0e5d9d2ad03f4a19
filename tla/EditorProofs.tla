----------------------------- MODULE EditorProofs -----------------------------
(***************************************************************************)
(* The screen of the line editor, for any widgets, bounds and sessions:    *)
(* the frame that is drawn is on the screen, nothing of an earlier one is  *)
(* left, and what commands have written is never drawn over, but for a     *)
(* last row without its newline.                                           *)
(***************************************************************************)
EXTENDS Editor, TLAPS, SequenceTheorems

-----------------------------------------------------------------------------
(* The inductive invariant.                                                *)

InputRow == ({"prompt"} \X Nat) \cup ({"input"} \X Nat \X Nat)
FrameRow == InputRow \cup {<<"menu">>} \cup ({"header", "footer"} \X Nat)
Row == FrameRow \cup {Blank, Unfinished} \cup ({"output"} \X Nat)

TermRecord == [rows : Seq(Row), cur : Nat \ {0}, total : Nat, at : Nat]
StateRecord == [from : Nat, lines : Nat \ {0}, at : Nat \ {0}, menu : Nat]
Caches == {c \in [Widget -> Nat] : c["prompt"] # 0}

\* Where the renderer believes the frame to begin.
Top(t) == t.cur - t.at

\* The cursor is on the screen, and so is the frame the renderer counts from.
Sound(t) ==
    /\ t \in TermRecord /\ t.cur <= Len(t.rows)
    /\ t.total = 0 => t.at = 0
    /\ t.total # 0 => t.at < t.total /\ t.at < t.cur /\ Top(t) + t.total - 1 <= Len(t.rows)

EditorTypeOK ==
    /\ phase \in {"starting", "on", "running"}
    /\ session \in Nat \ {0} /\ editing = (phase # "running") /\ continued \in BOOLEAN
    /\ loading \in Seq(Widget)
    /\ state \in StateRecord /\ state.at <= state.lines /\ (phase = "on" => state.from # 0)
    /\ frozen \in Seq(InputRow) /\ pendingFreeze \in Seq(InputRow) /\ lastInput \in Seq(InputRow)
    /\ cache \in Caches
    /\ pending \in [Widget -> SUBSET Nat] /\ \A w \in Widget : pending[w] \subseteq Rows[w]
    /\ output \in Nat /\ resized \in BOOLEAN
    /\ Sound(term)

\* What is on the screen about the row a frame begins at: no finished output from it on, and
\* before the window changes its size nothing of a frame above it and, from below on, blank
\* rows, but for what a command has left without a newline where the next frame will begin.
OutputAbove(rows, first) == \A i \in 1..Len(rows) : Output(rows[i]) => i < first
NothingLeft(rows, first, below) ==
    \A i \in 1..Len(rows) : /\ i >= below => rows[i] = Blank \/ (i = first /\ rows[i] = Unfinished)
                            /\ i < first => ~Leftover(rows[i])

\* The rows of a frame are on the screen.
Shows(t, lines) == \A i \in 1..Len(lines) : t.rows[Top(t) + i - 1] = lines[i]

ScreenInv ==
    /\ OutputAbove(term.rows, Top(term))
    /\ ~resized => NothingLeft(term.rows, Top(term), Top(term) + term.total)
    /\ resized => session = MaxSessions
    /\ phase = "running" => term.total = 0
    /\ phase = "on" =>
           LET frame == Frame(state, cache, continued, frozen)
           IN  /\ term.total = Len(frame) /\ Shows(term, frame)
               /\ term.at = CursorRow(state, cache, continued, frozen)

EditorInv == EditorTypeOK /\ ScreenInv /\ OutputKept

-----------------------------------------------------------------------------
(* Rows and frames.                                                        *)

\* A row says in its first place what it is.
LEMMA RowKinds ==
    /\ \A row \in FrameRow : ~Output(row) /\ row \in Row
    /\ \A row \in InputRow : ~Leftover(row) /\ row \in FrameRow
    /\ ~Output(Blank) /\ ~Leftover(Blank) /\ Blank \in Row
    /\ ~Output(Unfinished) /\ ~Leftover(Unfinished) /\ Unfinished \in Row
    /\ \A k \in Nat : LET row == <<"output", k>>
                      IN  row \in Row /\ Output(row) /\ ~Leftover(row) /\ row[2] = k
<1>1. \A row \in InputRow : row[1] \in {"prompt", "input"}
  BY DEF InputRow
<1>2. \A row \in FrameRow : row[1] \in {"prompt", "input", "menu", "header", "footer"}
  BY <1>1 DEF FrameRow
<1>3. \A row \in InputRow : row \in FrameRow
  BY DEF FrameRow
<1>4. \A row \in FrameRow : row \in Row
  BY DEF Row
<1>5. \A k \in Nat : <<"output", k>> \in Row
  BY DEF Row
<1> QED
  BY <1>1, <1>2, <1>3, <1>4, <1>5 DEF Output, Leftover, Blank, Unfinished, Row

LEMMA Larger == \A a, b \in Int : Max({a, b}) = IF a >= b THEN a ELSE b
<1> SUFFICES ASSUME NEW a \in Int, NEW b \in Int PROVE Max({a, b}) = IF a >= b THEN a ELSE b
  OBVIOUS
<1> DEFINE m == IF a >= b THEN a ELSE b
<1>1. m \in {a, b} /\ \A y \in {a, b} : m >= y
  OBVIOUS
<1>2. \A x \in {a, b} : (\A y \in {a, b} : x >= y) => x = m
  OBVIOUS
<1> QED
  BY <1>1, <1>2 DEF Max

LEMMA Smaller == \A a, b \in Int : Min({a, b}) = IF a <= b THEN a ELSE b
<1> SUFFICES ASSUME NEW a \in Int, NEW b \in Int PROVE Min({a, b}) = IF a <= b THEN a ELSE b
  OBVIOUS
<1> DEFINE m == IF a <= b THEN a ELSE b
<1>1. m \in {a, b} /\ \A y \in {a, b} : m <= y
  OBVIOUS
<1>2. \A x \in {a, b} : (\A y \in {a, b} : x <= y) => x = m
  OBVIOUS
<1> QED
  BY <1>1, <1>2 DEF Min

-----------------------------------------------------------------------------
(* The terminal.                                                           *)

\* Newlines at the bottom add blank rows and change none.
LEMMA GrownRows ==
    ASSUME NEW rows \in Seq(Row), NEW n \in Nat
    PROVE  LET g == Grown(rows, n)
           IN  /\ g \in Seq(Row) /\ Len(g) = IF n >= Len(rows) THEN n ELSE Len(rows)
               /\ \A i \in 1..Len(g) : g[i] = IF i <= Len(rows) THEN rows[i] ELSE Blank
<1> DEFINE m == IF n >= Len(rows) THEN n ELSE Len(rows)
           g == Grown(rows, n)
<1>1. Len(rows) \in Nat /\ \A i \in 1..Len(rows) : rows[i] \in Row
  OBVIOUS
<1>2. Max({n, Len(rows)}) = m /\ m \in Nat
  BY <1>1, Larger
<1>3. g = [i \in 1..m |-> IF i <= Len(rows) THEN rows[i] ELSE Blank]
  BY <1>2 DEF Grown
<1> HIDE DEF m, g
<1>4. \A i \in 1..m : g[i] = (IF i <= Len(rows) THEN rows[i] ELSE Blank) /\ g[i] \in Row
  BY <1>1, <1>2, <1>3, RowKinds
<1>5. g \in Seq(Row) /\ Len(g) = m
  BY <1>2, <1>3, <1>4, IsASeq
<1> QED
  BY <1>4, <1>5 DEF m, g

\* Rows that are written over others.
LEMMA OverRows ==
    ASSUME NEW rows \in Seq(Row), NEW lines \in Seq(Row), NEW top \in Nat \ {0}
    PROVE  LET o == Over(rows, top, lines)
           IN  /\ o \in Seq(Row) /\ Len(o) = Len(rows)
               /\ \A i \in 1..Len(o) : o[i] = IF i >= top /\ i < top + Len(lines) THEN lines[i - top + 1]
                                              ELSE rows[i]
<1> DEFINE o == Over(rows, top, lines)
           n == Len(rows)
           k == Len(lines)
<1>1. /\ n \in Nat /\ k \in Nat /\ DOMAIN rows = 1..n
      /\ \A i \in 1..n : rows[i] \in Row
      /\ \A i \in 1..k : lines[i] \in Row
  OBVIOUS
<1>2. o = [i \in 1..n |-> IF i \in top..(top + k - 1) THEN lines[i - top + 1] ELSE rows[i]]
  BY <1>1 DEF Over
<1> HIDE DEF o, n, k
<1>3. \A i \in 1..n : o[i] = IF i >= top /\ i < top + k THEN lines[i - top + 1] ELSE rows[i]
  BY <1>1, <1>2
<1>4. \A i \in 1..n : o[i] \in Row
  BY <1>1, <1>3
<1>5. o \in Seq(Row) /\ Len(o) = n
  BY <1>1, <1>2, <1>4, IsASeq
<1> QED
  BY <1>3, <1>5 DEF o, n, k

\* Rows that are erased.
LEMMA ErasedRows ==
    ASSUME NEW rows \in Seq(Row), NEW first \in Nat, NEW last \in Nat
    PROVE  LET e == Erased(rows, first, last)
           IN  /\ e \in Seq(Row) /\ Len(e) = Len(rows)
               /\ \A i \in 1..Len(e) : e[i] = IF i >= first /\ i <= last THEN Blank ELSE rows[i]
<1> DEFINE e == Erased(rows, first, last)
           n == Len(rows)
<1>1. /\ n \in Nat /\ DOMAIN rows = 1..n /\ \A i \in 1..n : rows[i] \in Row
  OBVIOUS
<1>2. e = [i \in 1..n |-> IF i \in first..last THEN Blank ELSE rows[i]]
  BY <1>1 DEF Erased
<1> HIDE DEF e, n
<1>3. \A i \in 1..n : e[i] = (IF i >= first /\ i <= last THEN Blank ELSE rows[i]) /\ e[i] \in Row
  BY <1>1, <1>2, RowKinds
<1>4. e \in Seq(Row) /\ Len(e) = n
  BY <1>1, <1>2, <1>3, IsASeq
<1> QED
  BY <1>3, <1>4 DEF e, n

\* The cursor moves; nothing else does.
LEMMA UpStep ==
    ASSUME NEW t \in TermRecord, NEW n \in Nat
    PROVE  /\ Up(t, n) \in TermRecord
           /\ Up(t, n).rows = t.rows /\ Up(t, n).total = t.total /\ Up(t, n).at = t.at
           /\ Up(t, n).cur = IF t.cur - n >= 1 THEN t.cur - n ELSE 1
<1>1. t.cur \in Nat \ {0}
  BY DEF TermRecord
<1>2. Max({1, t.cur - n}) = IF 1 >= t.cur - n THEN 1 ELSE t.cur - n
  BY <1>1, Larger
<1>3. Max({1, t.cur - n}) \in Nat \ {0} /\ Max({1, t.cur - n}) = IF t.cur - n >= 1 THEN t.cur - n ELSE 1
  BY <1>1, <1>2
<1> QED
  BY <1>3 DEF Up, TermRecord

\* Newlines move the cursor down and add rows at the bottom.
LEMMA NewLinesStep ==
    ASSUME NEW t \in TermRecord, NEW n \in Nat
    PROVE  LET u == NewLines(t, n)
           IN  /\ u \in TermRecord /\ u.rows = Grown(t.rows, t.cur + n) /\ u.cur = t.cur + n
               /\ u.total = t.total /\ u.at = t.at
               /\ u.cur <= Len(u.rows) /\ Len(u.rows) >= Len(t.rows)
               /\ \A i \in 1..Len(u.rows) : u.rows[i] = IF i <= Len(t.rows) THEN t.rows[i] ELSE Blank
<1>1. t.cur + n \in Nat \ {0} /\ t.rows \in Seq(Row) /\ Len(t.rows) \in Nat
  BY DEF TermRecord
<1> DEFINE g == Grown(t.rows, t.cur + n)
<1>2. /\ g \in Seq(Row) /\ Len(g) = IF t.cur + n >= Len(t.rows) THEN t.cur + n ELSE Len(t.rows)
      /\ \A i \in 1..Len(g) : g[i] = IF i <= Len(t.rows) THEN t.rows[i] ELSE Blank
  BY <1>1, GrownRows
<1> DEFINE u == NewLines(t, n)
<1>3. u = [t EXCEPT !.rows = g, !.cur = t.cur + n]
  BY DEF NewLines
<1> HIDE DEF g, u
<1>4. /\ u \in TermRecord /\ u.rows = g /\ u.cur = t.cur + n
      /\ u.total = t.total /\ u.at = t.at
  BY <1>1, <1>2, <1>3 DEF TermRecord
<1> QED
  BY <1>1, <1>2, <1>4 DEF g, u

\* The rows of t from first on are those of lines, u has them instead.
WrittenAt(u, t, first, lines) ==
    /\ Len(u.rows) >= Len(t.rows)
    /\ \A i \in 1..Len(u.rows) :
           u.rows[i] = IF i >= first /\ i < first + Len(lines) THEN lines[i - first + 1]
                       ELSE IF i <= Len(t.rows) THEN t.rows[i] ELSE Blank

LEMMA WriteLinesStep ==
    ASSUME NEW t \in TermRecord, NEW lines \in Seq(Row)
    PROVE  LET u == WriteLines(t, lines)
           IN  /\ u \in TermRecord /\ u.cur = t.cur + Len(lines) /\ u.cur <= Len(u.rows)
               /\ u.total = t.total /\ u.at = t.at
               /\ WrittenAt(u, t, t.cur, lines)
<1> DEFINE v == NewLines(t, Len(lines))
           u == WriteLines(t, lines)
           o == Over(v.rows, t.cur, lines)
<1>1. Len(lines) \in Nat /\ t.cur \in Nat \ {0}
  BY DEF TermRecord
<1>2. /\ v \in TermRecord /\ v.cur = t.cur + Len(lines)
      /\ v.total = t.total /\ v.at = t.at
      /\ v.cur <= Len(v.rows) /\ Len(v.rows) >= Len(t.rows)
      /\ \A i \in 1..Len(v.rows) : v.rows[i] = IF i <= Len(t.rows) THEN t.rows[i] ELSE Blank
  BY <1>1, NewLinesStep
<1>3. u = [v EXCEPT !.rows = o]
  BY DEF WriteLines
<1> HIDE DEF v, u
<1>4. v.rows \in Seq(Row)
  BY <1>2 DEF TermRecord
<1>5. /\ o \in Seq(Row) /\ Len(o) = Len(v.rows)
      /\ \A i \in 1..Len(o) : o[i] = IF i >= t.cur /\ i < t.cur + Len(lines) THEN lines[i - t.cur + 1]
                                     ELSE v.rows[i]
  BY <1>1, <1>4, OverRows
<1> HIDE DEF o
<1>6. /\ u \in TermRecord /\ u.rows = o /\ u.cur = v.cur /\ u.total = v.total /\ u.at = v.at
  BY <1>2, <1>3, <1>5 DEF TermRecord
<1>7. WrittenAt(u, t, t.cur, lines)
  BY <1>2, <1>5, <1>6 DEF WrittenAt
<1> QED
  BY <1>2, <1>5, <1>6, <1>7 DEF u

\* A sequence that is not empty is its front and its last element.
LEMMA FrontLast ==
    ASSUME NEW T, NEW s \in Seq(T), s # <<>>
    PROVE  /\ Front(s) \in Seq(T) /\ Last(s) \in T /\ s = Append(Front(s), Last(s))
           /\ Len(Front(s)) = Len(s) - 1 /\ Len(s) \in Nat \ {0}
           /\ \A i \in 1..Len(Front(s)) : Front(s)[i] = s[i]
<1>1. Len(s) \in Nat \ {0} /\ DOMAIN s = 1..Len(s) /\ \A i \in 1..Len(s) : s[i] \in T
  BY ElementOfSeq, EmptySeq, LenProperties
<1>2. /\ Front(s) \in Seq(T) /\ Len(Front(s)) = Len(s) - 1
      /\ \A i \in 1..Len(Front(s)) : Front(s)[i] = s[i]
  BY <1>1 DEF Front
<1>3. Last(s) \in T /\ Last(s) = s[Len(s)]
  BY <1>1 DEF Last
<1> DEFINE t == Append(Front(s), Last(s))
<1>4. t \in Seq(T) /\ Len(t) = Len(s) /\ \A i \in 1..Len(s) : t[i] = s[i]
  <2>1. Front(s) \in Seq(T) /\ Last(s) \in T /\ Len(Front(s)) + 1 = Len(s)
    BY <1>1, <1>2, <1>3
  <2> HIDE DEF t
  <2>2. /\ t \in Seq(T) /\ Len(t) = Len(Front(s)) + 1
        /\ \A i \in 1..Len(Front(s)) : t[i] = Front(s)[i]
        /\ t[Len(Front(s)) + 1] = Last(s)
    BY <2>1, AppendProperties DEF t
  <2> QED BY <1>1, <1>2, <1>3, <2>1, <2>2
<1>5. s = t
  BY <1>1, <1>4, SeqEqual
<1> QED BY <1>1, <1>2, <1>3, <1>5

-----------------------------------------------------------------------------
(* The renderer.                                                           *)

\* Room for n rows from the top of the frame on, and the cursor where it was.
LEMMA ReserveStep ==
    ASSUME NEW t, Sound(t), NEW n \in Nat \ {0}
    PROVE  LET u == Reserve(t, n)
           IN  /\ u \in TermRecord /\ u.cur = t.cur /\ u.total = t.total /\ u.at = t.at
               /\ Len(u.rows) >= Len(t.rows) /\ Top(t) + n - 1 <= Len(u.rows)
               /\ \A i \in 1..Len(u.rows) : u.rows[i] = IF i <= Len(t.rows) THEN t.rows[i] ELSE Blank
<1> DEFINE u == Reserve(t, n)
           extra == n - t.total
           toBottom == t.total - 1 - t.at
<1>1. /\ t \in TermRecord /\ t.cur \in Nat \ {0} /\ t.total \in Nat /\ t.at \in Nat
      /\ Len(t.rows) \in Nat /\ t.rows \in Seq(Row)
      /\ Top(t) = t.cur - t.at /\ t.cur <= Len(t.rows)
  BY DEF Sound, TermRecord, Top
<1>2. CASE t.total = 0
  <2> DEFINE v == NewLines(t, n - 1)
  <2>1. u = Up(v, n - 1) /\ t.at = 0 /\ n - 1 \in Nat
    BY <1>2 DEF Reserve, Sound
  <2>2. /\ v \in TermRecord /\ v.cur = t.cur + (n - 1) /\ v.total = t.total /\ v.at = t.at
        /\ v.cur <= Len(v.rows) /\ Len(v.rows) >= Len(t.rows)
        /\ \A i \in 1..Len(v.rows) : v.rows[i] = IF i <= Len(t.rows) THEN t.rows[i] ELSE Blank
    BY <1>1, <2>1, NewLinesStep
  <2> HIDE DEF v, u
  <2>3. /\ u \in TermRecord /\ u.rows = v.rows /\ u.total = v.total /\ u.at = v.at
        /\ u.cur = IF v.cur - (n - 1) >= 1 THEN v.cur - (n - 1) ELSE 1
    BY <2>1, <2>2, UpStep
  <2> QED
    BY <1>1, <2>1, <2>2, <2>3 DEF u
<1>3. CASE t.total # 0 /\ extra > 0
  <2> DEFINE d == Down(t, toBottom)
             v == NewLines(d, extra)
  <2>1. u = Up(v, extra + toBottom)
    BY <1>3 DEF Reserve
  <2>2. /\ extra \in Nat /\ toBottom \in Nat /\ extra + toBottom \in Nat
        /\ t.cur + toBottom \in Nat \ {0} /\ t.cur + toBottom <= Len(t.rows)
        /\ t.cur + toBottom + extra = Top(t) + n - 1
    <3>1. t.at < t.total /\ t.at < t.cur /\ Top(t) + t.total - 1 <= Len(t.rows)
      BY <1>3 DEF Sound
    <3>2. t.cur \in Nat /\ t.total \in Nat /\ t.at \in Nat /\ n \in Nat /\ Len(t.rows) \in Nat
      BY <1>1
    <3>3. n - t.total \in Nat /\ t.total - 1 - t.at \in Nat
      BY <1>3, <3>1, <3>2
    <3>4. t.cur + (t.total - 1 - t.at) = Top(t) + t.total - 1 /\ t.cur # 0
      BY <1>1, <3>2
    <3>5. t.cur + (t.total - 1 - t.at) + (n - t.total) = Top(t) + n - 1
      <4>1. Top(t) = t.cur - t.at
        BY <1>1
      <4> DEFINE c == t.cur
                 o == t.total
                 a == t.at
      <4>2. c \in Nat /\ o \in Nat /\ a \in Nat /\ n \in Nat
        BY <3>2
      <4>3. c + (o - 1 - a) + (n - o) = (c - a) + n - 1
        <5> HIDE DEF c, o, a
        <5> QED
          BY <4>2
      <4> QED
        BY <4>1, <4>3
    <3>6. t.cur + (t.total - 1 - t.at) \in Nat \ {0} /\ t.cur + (t.total - 1 - t.at) <= Len(t.rows)
      BY <3>1, <3>2, <3>3, <3>4
    <3>7. n - t.total + (t.total - 1 - t.at) \in Nat
      BY <3>3
    <3> QED
      BY <3>3, <3>5, <3>6, <3>7
  <2>3. d = [t EXCEPT !.cur = t.cur + toBottom]
    <3>1. Min({t.cur + toBottom, Len(t.rows)}) = t.cur + toBottom
      <4> DEFINE a == t.cur + toBottom
                 b == Len(t.rows)
      <4>1. a \in Int /\ b \in Int /\ a <= b
        BY <1>1, <2>2
      <4> HIDE DEF a, b
      <4>2. Min({a, b}) = a
        BY <4>1, Smaller
      <4> QED
        BY <4>2 DEF a, b
    <3> QED
      BY <3>1 DEF Down
  <2> HIDE DEF extra, toBottom, u, d, v
  <2>4. /\ d \in TermRecord /\ d.rows = t.rows /\ d.cur = t.cur + toBottom
        /\ d.total = t.total /\ d.at = t.at
    BY <1>1, <2>2, <2>3 DEF TermRecord
  <2>5. /\ v \in TermRecord /\ v.cur = d.cur + extra /\ v.total = d.total /\ v.at = d.at
        /\ v.cur <= Len(v.rows) /\ Len(v.rows) >= Len(d.rows)
        /\ \A i \in 1..Len(v.rows) : v.rows[i] = IF i <= Len(d.rows) THEN d.rows[i] ELSE Blank
    BY <2>2, <2>4, NewLinesStep DEF v
  <2>6. /\ u \in TermRecord /\ u.rows = v.rows /\ u.total = v.total /\ u.at = v.at
        /\ u.cur = IF v.cur - (extra + toBottom) >= 1 THEN v.cur - (extra + toBottom) ELSE 1
    BY <2>1, <2>2, <2>5, UpStep
  <2> QED
    BY <1>1, <2>2, <2>4, <2>5, <2>6 DEF u
<1>4. CASE t.total # 0 /\ ~(extra > 0)
  <2>1. u = t
    BY <1>4 DEF Reserve
  <2>2. Top(t) + n - 1 <= Len(t.rows)
    <3>1. Top(t) + t.total - 1 <= Len(t.rows)
      BY <1>4 DEF Sound
    <3>2. n <= t.total /\ n \in Nat /\ t.total \in Nat
      BY <1>1, <1>4
    <3>3. Top(t) \in Int /\ Len(t.rows) \in Nat
      BY <1>1
    <3> DEFINE top == Top(t)
               len == Len(t.rows)
               o == t.total
    <3> HIDE DEF top, len, o
    <3>4. top + n - 1 <= len
      <4>1. top + o - 1 <= len
        BY <3>1 DEF top, len, o
      <4>2. n <= o /\ n \in Nat /\ o \in Nat /\ top \in Int /\ len \in Nat
        BY <3>2, <3>3 DEF top, len, o
      <4> QED
        BY <4>1, <4>2
    <3> QED
      BY <3>4 DEF top, len
  <2> QED
    BY <1>1, <2>1, <2>2
<1> QED
  BY <1>2, <1>3, <1>4

\* The lines go over what is there from the top on; the cursor ends on the last.
LEMMA DrawStep ==
    ASSUME NEW t \in TermRecord, t.at < t.cur, NEW lines \in Seq(Row), lines # <<>>,
           Top(t) + Len(lines) - 1 <= Len(t.rows)
    PROVE  LET u == Draw(t, lines)
           IN  /\ u \in TermRecord /\ u.cur = Top(t) + Len(lines) - 1 /\ u.cur <= Len(u.rows)
               /\ u.total = t.total /\ u.at = t.at
               /\ WrittenAt(u, t, Top(t), lines)
<1> DEFINE top == Up(t, t.at)
           n == Len(lines)
           init == Front(lines)
           last == Last(lines)
           front == WriteLines(top, init)
           u == Draw(t, lines)
<1>1. /\ t.cur \in Nat \ {0} /\ t.at \in Nat /\ Len(t.rows) \in Nat /\ Top(t) = t.cur - t.at
      /\ Top(t) \in Nat \ {0}
  BY DEF TermRecord, Top
<1>2. /\ n \in Nat \ {0} /\ init \in Seq(Row) /\ Len(init) = n - 1
      /\ \A i \in 1..(n - 1) : init[i] = lines[i]
      /\ last \in Row /\ last = lines[n]
  BY FrontLast DEF Last
<1>4. u = Write(front, last)
  BY DEF Draw
<1> HIDE DEF top
<1>3. /\ top \in TermRecord /\ top.rows = t.rows /\ top.total = t.total /\ top.at = t.at
      /\ top.cur = Top(t)
  <2>1. top = Up(t, t.at)
    BY DEF top
  <2>2. /\ top \in TermRecord /\ top.rows = t.rows /\ top.total = t.total /\ top.at = t.at
        /\ top.cur = IF t.cur - t.at >= 1 THEN t.cur - t.at ELSE 1
    BY <1>1, <2>1, UpStep
  <2> QED
    BY <1>1, <2>2
<1> HIDE DEF n, init, last, u
<1>5. /\ front \in TermRecord /\ front.cur = top.cur + Len(init) /\ front.cur <= Len(front.rows)
      /\ front.total = top.total /\ front.at = top.at
      /\ WrittenAt(front, top, top.cur, init)
  BY <1>2, <1>3, WriteLinesStep
<1> HIDE DEF front
<1> DEFINE rows == [front.rows EXCEPT ![front.cur] = last]
<1>6. /\ rows \in Seq(Row) /\ Len(rows) = Len(front.rows)
      /\ \A i \in 1..Len(rows) : rows[i] = IF i = front.cur THEN last ELSE front.rows[i]
  <2>1. front.rows \in Seq(Row) /\ front.cur \in 1..Len(front.rows)
    BY <1>5 DEF TermRecord
  <2> QED
    BY <1>2, <2>1
<1>7. u = [front EXCEPT !.rows = rows]
  BY <1>4 DEF Write
<1> HIDE DEF rows
<1>8. /\ u \in TermRecord /\ u.rows = rows /\ u.cur = front.cur /\ u.total = front.total
      /\ u.at = front.at
  BY <1>5, <1>6, <1>7 DEF TermRecord
<1>9. u.cur = Top(t) + n - 1
  BY <1>1, <1>2, <1>3, <1>5, <1>8
<1>10. WrittenAt(u, t, Top(t), lines)
  <2> SUFFICES ASSUME NEW i \in 1..Len(u.rows)
      PROVE u.rows[i] = IF i >= Top(t) /\ i < Top(t) + n THEN lines[i - Top(t) + 1]
                        ELSE IF i <= Len(t.rows) THEN t.rows[i] ELSE Blank
    BY <1>3, <1>5, <1>6, <1>8 DEF WrittenAt, n
  <2>1. i \in 1..Len(front.rows) /\ u.rows[i] = IF i = Top(t) + n - 1 THEN last ELSE front.rows[i]
    BY <1>6, <1>8, <1>9
  <2>2. front.rows[i] = IF i >= Top(t) /\ i < Top(t) + (n - 1) THEN init[i - Top(t) + 1]
                        ELSE IF i <= Len(t.rows) THEN t.rows[i] ELSE Blank
    BY <1>2, <1>3, <1>5, <2>1 DEF WrittenAt
  <2>3. i \in Nat /\ Top(t) \in Nat \ {0} /\ n \in Nat \ {0}
    BY <1>1, <1>2
  <2>4. CASE i = Top(t) + n - 1
    <3>1. i - Top(t) + 1 = n /\ i >= Top(t) /\ i < Top(t) + n
      <4> DEFINE first == Top(t)
      <4>1. i = first + n - 1 /\ first \in Nat \ {0} /\ n \in Nat \ {0}
        BY <2>3, <2>4
      <4> HIDE DEF first
      <4>2. i - first + 1 = n /\ i >= first /\ i < first + n
        BY <4>1
      <4> QED
        BY <4>2 DEF first
    <3> QED
      BY <1>2, <2>1, <2>4, <3>1
  <2>5. CASE i >= Top(t) /\ i < Top(t) + (n - 1)
    <3>1. i - Top(t) + 1 \in 1..(n - 1) /\ i < Top(t) + n /\ i # Top(t) + n - 1
      <4> DEFINE first == Top(t)
      <4>1. i >= first /\ i < first + (n - 1) /\ i \in Nat /\ first \in Nat \ {0} /\ n \in Nat \ {0}
        BY <2>3, <2>5
      <4> HIDE DEF first
      <4>2. i - first + 1 \in 1..(n - 1) /\ i < first + n /\ i # first + n - 1
        BY <4>1
      <4> QED
        BY <4>2 DEF first
    <3>2. init[i - Top(t) + 1] = lines[i - Top(t) + 1]
      BY <1>2, <3>1
    <3> QED
      BY <2>1, <2>2, <2>5, <3>1, <3>2
  <2>6. CASE i < Top(t) \/ i > Top(t) + n - 1
    <3>1. /\ ~(i >= Top(t) /\ i < Top(t) + n) /\ ~(i >= Top(t) /\ i < Top(t) + (n - 1))
          /\ i # Top(t) + n - 1
      <4> DEFINE first == Top(t)
      <4>1. (i < first \/ i > first + n - 1) /\ i \in Nat /\ first \in Nat \ {0} /\ n \in Nat \ {0}
        BY <2>3, <2>6
      <4> HIDE DEF first
      <4>2. /\ ~(i >= first /\ i < first + n) /\ ~(i >= first /\ i < first + (n - 1))
            /\ i # first + n - 1
        BY <4>1
      <4> QED
        BY <4>2 DEF first
    <3> QED
      BY <2>1, <2>2, <3>1
  <2> QED
    BY <2>3, <2>4, <2>5, <2>6
<1> QED
  BY <1>3, <1>5, <1>6, <1>8, <1>9, <1>10 DEF u, n

\* The rows a taller frame left below are erased, and the cursor is back.
LEMMA EraseRestStep ==
    ASSUME NEW t \in TermRecord, NEW n \in Nat, t.cur <= Len(t.rows)
    PROVE  LET u == EraseRest(t, n)
           IN  /\ u \in TermRecord /\ u.cur = t.cur /\ u.total = t.total /\ u.at = t.at
               /\ Len(u.rows) >= Len(t.rows)
               /\ \A i \in 1..Len(u.rows) :
                      u.rows[i] = IF i > t.cur /\ i <= t.cur + (t.total - n) THEN Blank
                                  ELSE IF i <= Len(t.rows) THEN t.rows[i] ELSE Blank
<1> DEFINE extra == t.total - n
           u == EraseRest(t, n)
<1>1. t.cur \in Nat \ {0} /\ t.total \in Nat /\ Len(t.rows) \in Nat
  BY DEF TermRecord
<1>2. CASE extra <= 0
  <2>1. u = t
    BY <1>2 DEF EraseRest
  <2> QED
    BY <1>1, <1>2, <2>1
<1>3. CASE ~(extra <= 0)
  <2> DEFINE v == NewLines(t, extra)
             e == Erased(v.rows, t.cur + 1, t.cur + extra)
             w == [v EXCEPT !.rows = e]
  <2>1. extra \in Nat /\ u = Up(w, extra)
    BY <1>1, <1>3 DEF EraseRest
  <2> HIDE DEF extra, u
  <2>2. /\ v \in TermRecord /\ v.cur = t.cur + extra /\ v.total = t.total /\ v.at = t.at
        /\ v.cur <= Len(v.rows) /\ Len(v.rows) >= Len(t.rows)
        /\ \A i \in 1..Len(v.rows) : v.rows[i] = IF i <= Len(t.rows) THEN t.rows[i] ELSE Blank
    BY <2>1, NewLinesStep
  <2> HIDE DEF v
  <2>3. v.rows \in Seq(Row) /\ t.cur + 1 \in Nat /\ t.cur + extra \in Nat
    BY <1>1, <2>1, <2>2 DEF TermRecord
  <2>4. /\ e \in Seq(Row) /\ Len(e) = Len(v.rows)
        /\ \A i \in 1..Len(e) : e[i] = IF i >= t.cur + 1 /\ i <= t.cur + extra THEN Blank ELSE v.rows[i]
    BY <2>3, ErasedRows
  <2> HIDE DEF e
  <2>5. /\ w \in TermRecord /\ w.rows = e /\ w.cur = v.cur /\ w.total = v.total /\ w.at = v.at
    BY <2>2, <2>4 DEF TermRecord
  <2> HIDE DEF w
  <2>6. /\ u \in TermRecord /\ u.rows = w.rows /\ u.total = w.total /\ u.at = w.at
        /\ u.cur = IF w.cur - extra >= 1 THEN w.cur - extra ELSE 1
    BY <2>1, <2>5, UpStep
  <2>7. \A i \in 1..Len(u.rows) :
            u.rows[i] = IF i > t.cur /\ i <= t.cur + extra THEN Blank
                        ELSE IF i <= Len(t.rows) THEN t.rows[i] ELSE Blank
    BY <1>1, <2>1, <2>2, <2>4, <2>5, <2>6
  <2>8. u \in TermRecord /\ u.cur = t.cur /\ u.total = t.total /\ u.at = t.at
    BY <1>1, <2>1, <2>2, <2>5, <2>6
  <2>9. Len(u.rows) >= Len(t.rows)
    BY <2>2, <2>4, <2>5, <2>6
  <2> QED
    BY <2>7, <2>8, <2>9 DEF extra, u
<1> QED
  BY <1>2, <1>3

\* Wherever the renderer is sound it draws the frame at the place of the last one, changes
\* nothing above, and leaves nothing of the last one below.
LEMMA RenderStep ==
    ASSUME NEW t, Sound(t), NEW lines \in Seq(Row), lines # <<>>, NEW at \in 0..(Len(lines) - 1)
    PROVE  LET u == Render(t, lines, at)
           IN  /\ Sound(u) /\ Top(u) = Top(t) /\ u.total = Len(lines) /\ u.at = at
               /\ Shows(u, lines)
               /\ \A i \in 1..Len(u.rows) :
                      /\ i < Top(t) => i <= Len(t.rows) /\ u.rows[i] = t.rows[i]
                      /\ i >= Top(t) + Len(lines) =>
                             u.rows[i] = IF i < Top(t) + t.total \/ i > Len(t.rows) THEN Blank
                                         ELSE t.rows[i]
<1> DEFINE n == Len(lines)
           top == Top(t)
           a == Reserve(t, n)
           b == Draw(a, lines)
           c == EraseRest(b, n)
           d == Up(c, n - 1 - at)
           u == Render(t, lines, at)
<1>1. /\ n \in Nat \ {0} /\ at \in Nat /\ at < n /\ n - 1 - at \in Nat
      /\ \A i \in 1..n : lines[i] \in Row
  BY FrontLast
<1>2. /\ t.cur \in Nat \ {0} /\ t.at \in Nat /\ t.total \in Nat /\ Len(t.rows) \in Nat
      /\ top = t.cur - t.at /\ top \in Nat \ {0} /\ t.cur <= Len(t.rows)
  BY DEF Sound, TermRecord, Top
<1>3. u = [d EXCEPT !.total = n, !.at = at]
  BY DEF Render
<1> HIDE DEF n, u
<1>4. /\ a \in TermRecord /\ a.cur = t.cur /\ a.total = t.total /\ a.at = t.at
      /\ Len(a.rows) >= Len(t.rows) /\ top + n - 1 <= Len(a.rows)
      /\ \A i \in 1..Len(a.rows) : a.rows[i] = IF i <= Len(t.rows) THEN t.rows[i] ELSE Blank
  BY <1>1, ReserveStep
<1> HIDE DEF a
<1>5. Top(a) = top /\ a.at < a.cur
  BY <1>2, <1>4 DEF Top
<1> HIDE DEF top
<1>6. /\ b \in TermRecord /\ b.cur = top + n - 1 /\ b.cur <= Len(b.rows)
      /\ b.total = t.total /\ b.at = t.at
      /\ WrittenAt(b, a, top, lines)
  BY <1>4, <1>5, DrawStep DEF n
<1> HIDE DEF b
<1>7. /\ c \in TermRecord /\ c.cur = b.cur /\ c.total = b.total /\ c.at = b.at
      /\ Len(c.rows) >= Len(b.rows)
      /\ \A i \in 1..Len(c.rows) :
             c.rows[i] = IF i > b.cur /\ i <= b.cur + (b.total - n) THEN Blank
                         ELSE IF i <= Len(b.rows) THEN b.rows[i] ELSE Blank
  BY <1>1, <1>6, EraseRestStep
<1> HIDE DEF c
<1>8. /\ d \in TermRecord /\ d.rows = c.rows
      /\ d.cur = IF c.cur - (n - 1 - at) >= 1 THEN c.cur - (n - 1 - at) ELSE 1
  BY <1>1, <1>7, UpStep
<1>9. d.cur = top + at
  BY <1>1, <1>2, <1>6, <1>7, <1>8
<1> HIDE DEF d
<1>10. /\ u \in TermRecord /\ u.rows = c.rows /\ u.cur = top + at /\ u.total = n /\ u.at = at
  BY <1>1, <1>3, <1>8, <1>9 DEF TermRecord
<1>11. Top(u) = top
  BY <1>1, <1>2, <1>10 DEF Top
<1>12. Len(b.rows) \in Nat /\ Len(c.rows) \in Nat /\ Len(a.rows) \in Nat
  BY <1>4, <1>6, <1>7 DEF TermRecord
<1> DEFINE Numbers == /\ n \in Nat \ {0} /\ at \in Nat /\ at < n /\ top \in Nat \ {0} /\ t.total \in Nat
                      /\ Len(t.rows) \in Nat /\ Len(a.rows) \in Nat /\ Len(b.rows) \in Nat
                      /\ Len(u.rows) \in Nat /\ top <= Len(t.rows)
           Bounds == /\ top + n - 1 <= Len(b.rows) /\ Len(b.rows) <= Len(u.rows)
                     /\ b.cur = top + n - 1 /\ b.total = t.total
<1>17. Numbers
  <2>1. top <= Len(t.rows)
    <3>1. t.cur \in Nat /\ t.at \in Nat /\ top = t.cur - t.at /\ t.cur <= Len(t.rows) /\ Len(t.rows) \in Nat
      BY <1>2
    <3> QED
      BY <3>1
  <2>2. n \in Nat \ {0} /\ at \in Nat /\ at < n /\ top \in Nat \ {0} /\ t.total \in Nat
    BY <1>1, <1>2
  <2>3. Len(t.rows) \in Nat /\ Len(u.rows) \in Nat
    BY <1>2, <1>10, <1>12
  <2> QED
    BY <1>12, <2>1, <2>2, <2>3
<1>18. Bounds
  <2>1. b.cur = top + n - 1 /\ b.cur <= Len(b.rows) /\ b.total = t.total
    BY <1>6
  <2>2. Len(b.rows) <= Len(u.rows)
    BY <1>7, <1>10
  <2> QED
    BY <2>1, <2>2
<1>13. Sound(u)
  <2>1. u.cur <= Len(u.rows) /\ top + n - 1 <= Len(u.rows)
    <3>1. top + at <= top + n - 1 /\ top + n - 1 <= Len(u.rows)
      BY <1>17, <1>18
    <3> QED
      BY <1>10, <1>17, <3>1
  <2>2. u.at < u.total /\ u.at < u.cur /\ u.total # 0
    BY <1>10, <1>17
  <2> QED
    BY <1>10, <1>11, <2>1, <2>2 DEF Sound
<1>14. \A i \in 1..Len(u.rows) :
           u.rows[i] = IF i >= top /\ i < top + n THEN lines[i - top + 1]
                       ELSE IF i >= top + n /\ i < top + t.total THEN Blank
                       ELSE IF i <= Len(t.rows) THEN t.rows[i] ELSE Blank
  <2> SUFFICES ASSUME NEW i \in 1..Len(u.rows)
      PROVE u.rows[i] = IF i >= top /\ i < top + n THEN lines[i - top + 1]
                        ELSE IF i >= top + n /\ i < top + t.total THEN Blank
                        ELSE IF i <= Len(t.rows) THEN t.rows[i] ELSE Blank
    OBVIOUS
  <2>1. i \in Nat \ {0} /\ i \in 1..Len(c.rows) /\ u.rows[i] = c.rows[i]
    BY <1>10, <1>12
  <2>2. c.rows[i] = IF i >= top + n /\ i < top + t.total THEN Blank
                    ELSE IF i <= Len(b.rows) THEN b.rows[i] ELSE Blank
    <3>1. (i > b.cur /\ i <= b.cur + (b.total - n)) <=> (i >= top + n /\ i < top + t.total)
      <4>1. \A m, first, total \in Nat :
                (i > first + m - 1 /\ i <= first + m - 1 + (total - m))
                    <=> (i >= first + m /\ i < first + total)
        BY <2>1
      <4>2. n \in Nat /\ top \in Nat /\ t.total \in Nat
        BY <1>17
      <4>3. b.cur = top + n - 1 /\ b.total = t.total
        BY <1>18
      <4> QED
        BY <4>1, <4>2, <4>3
    <3> QED
      BY <1>7, <2>1, <3>1, Zenon
  <2>3. ASSUME i <= Len(b.rows)
        PROVE  b.rows[i] = IF i >= top /\ i < top + n THEN lines[i - top + 1]
                           ELSE IF i <= Len(a.rows) THEN a.rows[i] ELSE Blank
    <3>1. i \in 1..Len(b.rows)
      BY <1>12, <2>1, <2>3
    <3> QED
      BY <1>6, <3>1 DEF WrittenAt, n
  <2>4. ASSUME i <= Len(a.rows)
        PROVE  a.rows[i] = IF i <= Len(t.rows) THEN t.rows[i] ELSE Blank
    BY <1>4, <1>12, <2>1, <2>4
  <2>5. Len(b.rows) >= Len(a.rows)
    BY <1>6 DEF WrittenAt
  <2>6. CASE i >= top /\ i < top + n
    <3>1. i <= Len(b.rows) /\ ~(i >= top + n /\ i < top + t.total)
      <4>1. n \in Nat /\ top \in Nat /\ i \in Nat
        BY <1>17, <2>1
      <4>2. i <= top + n - 1 /\ ~(i >= top + n)
        BY <2>6, <4>1
      <4>3. top + n - 1 <= Len(b.rows) /\ Len(b.rows) \in Nat
        BY <1>12, <1>18
      <4>4. i <= Len(b.rows)
        BY <4>1, <4>2, <4>3
      <4> QED
        BY <4>2, <4>4
    <3> QED
      BY <2>1, <2>2, <2>3, <2>6, <3>1
  <2>7. CASE i >= top + n /\ i < top + t.total
    BY <1>1, <1>2, <2>1, <2>2, <2>7
  <2>8. CASE ~(i >= top /\ i < top + n) /\ ~(i >= top + n /\ i < top + t.total)
    <3>1. u.rows[i] = IF i <= Len(b.rows) THEN b.rows[i] ELSE Blank
      BY <2>1, <2>2, <2>8
    <3>2. i <= Len(b.rows) => b.rows[i] = IF i <= Len(a.rows) THEN a.rows[i] ELSE Blank
      BY <2>3, <2>8
    <3>3. i <= Len(t.rows) => i <= Len(a.rows) /\ i <= Len(b.rows)
      <4>1. Len(a.rows) >= Len(t.rows)
        BY <1>4
      <4>2. Len(t.rows) \in Nat /\ Len(a.rows) \in Nat /\ Len(b.rows) \in Nat /\ i \in Nat
        BY <1>2, <1>12, <2>1
      <4> QED
        BY <2>5, <4>1, <4>2
    <3>4. u.rows[i] = IF i <= Len(t.rows) THEN t.rows[i] ELSE Blank
      BY <2>4, <3>1, <3>2, <3>3
    <3> QED
      BY <2>8, <3>4
  <2> QED
    BY <2>6, <2>7, <2>8
<1>15. Shows(u, lines)
  <2> SUFFICES ASSUME NEW i \in 1..n PROVE u.rows[top + i - 1] = lines[i]
    BY <1>11 DEF Shows, n
  <2>1. /\ top + i - 1 \in 1..Len(u.rows) /\ top + i - 1 >= top /\ top + i - 1 < top + n
        /\ (top + i - 1) - top + 1 = i
    <3>1. top + i - 1 \in Nat \ {0} /\ top + i - 1 <= top + n - 1
      BY <1>17
    <3> QED
      BY <1>17, <1>18, <3>1
  <2> QED
    BY <1>14, <2>1
<1>16. \A i \in 1..Len(u.rows) :
           /\ i < top => i <= Len(t.rows) /\ u.rows[i] = t.rows[i]
           /\ i >= top + n => u.rows[i] = IF i < top + t.total \/ i > Len(t.rows) THEN Blank
                                          ELSE t.rows[i]
  <2> SUFFICES ASSUME NEW i \in 1..Len(u.rows)
      PROVE  /\ i < top => i <= Len(t.rows) /\ u.rows[i] = t.rows[i]
             /\ i >= top + n => u.rows[i] = IF i < top + t.total \/ i > Len(t.rows) THEN Blank
                                            ELSE t.rows[i]
    OBVIOUS
  <2>1. i \in Nat
    OBVIOUS
  <2>2. ASSUME i < top PROVE i <= Len(t.rows) /\ u.rows[i] = t.rows[i]
    <3>1. i <= Len(t.rows) /\ ~(i >= top /\ i < top + n) /\ ~(i >= top + n /\ i < top + t.total)
      <4>1. n \in Nat /\ top \in Nat /\ Len(t.rows) \in Nat /\ top <= Len(t.rows)
        BY <1>17
      <4>2. i <= Len(t.rows)
        BY <2>1, <2>2, <4>1
      <4>3. ~(i >= top) /\ ~(i >= top + n)
        BY <2>1, <2>2, <4>1
      <4> QED
        BY <4>2, <4>3
    <3> QED
      BY <1>14, <3>1
  <2>3. ASSUME i >= top + n
        PROVE  u.rows[i] = IF i < top + t.total \/ i > Len(t.rows) THEN Blank ELSE t.rows[i]
    <3>1. ~(i >= top /\ i < top + n) /\ (i > Len(t.rows) <=> ~(i <= Len(t.rows)))
      BY <1>1, <1>2, <2>1, <2>3
    <3> QED
      BY <1>14, <2>3, <3>1
  <2> QED
    BY <2>2, <2>3
<1> QED
  BY <1>10, <1>11, <1>13, <1>15, <1>16 DEF top, n, u

\* clearFrame leaves the lines of the input, or the one line there was, and below it nothing
\* of the frame; the cursor is below, and the renderer starts anew there.
LEMMA ClearFrameStep ==
    ASSUME NEW t, Sound(t), NEW content \in Seq(InputRow)
    PROVE  LET u == ClearFrame(t, content)
           IN  /\ Sound(u) /\ u.total = 0 /\ u.at = 0 /\ u.cur >= Top(t)
               /\ \A i \in 1..Len(u.rows) :
                      /\ i < Top(t) => i <= Len(t.rows) /\ u.rows[i] = t.rows[i]
                      /\ i >= Top(t) =>
                             \/ u.rows[i] = Blank
                             \/ u.rows[i] \in InputRow /\ i < u.cur
                             \/ /\ t.total <= 1 /\ i <= Len(t.rows) /\ u.rows[i] = t.rows[i]
                                /\ i >= u.cur <=> i # Top(t)
<1> DEFINE u == ClearFrame(t, content)
           n == Len(content)
           top == Top(t)
<1>1. /\ t \in TermRecord /\ t.cur \in Nat \ {0} /\ t.at \in Nat /\ t.total \in Nat
      /\ t.rows \in Seq(Row) /\ Len(t.rows) \in Nat
      /\ top = t.cur - t.at /\ top \in Nat \ {0} /\ t.cur <= Len(t.rows)
  BY DEF Sound, TermRecord, Top
<1>2. /\ n \in Nat /\ content \in Seq(Row) /\ \A i \in 1..n : content[i] \in InputRow
  <2>1. n \in Nat /\ \A i \in 1..n : content[i] \in InputRow
    OBVIOUS
  <2>2. \A i \in 1..n : content[i] \in Row
    BY <2>1, RowKinds
  <2>3. content = [i \in 1..n |-> content[i]]
    OBVIOUS
  <2> HIDE DEF n
  <2> QED
    BY <2>1, <2>2, <2>3, IsASeq
<1>3. CASE t.total > 1 \/ n > 1
  <2> DEFINE a == Up(t, t.at)
             b == EraseBelow(a)
             c == WriteLines(b, content)
  <2>1. u = [c EXCEPT !.total = 0, !.at = 0]
    BY <1>3 DEF ClearFrame, Reset
  <2> HIDE DEF u, n, top
  <2>2. /\ a \in TermRecord /\ a.rows = t.rows /\ a.total = t.total /\ a.at = t.at
        /\ a.cur = IF t.cur - t.at >= 1 THEN t.cur - t.at ELSE 1
    BY <1>1, UpStep
  <2>3. a.cur = top
    BY <1>1, <2>2
  <2> DEFINE e == Erased(a.rows, a.cur, Len(a.rows))
  <2>4. b = [a EXCEPT !.rows = e]
    BY DEF EraseBelow
  <2> HIDE DEF a, b, c
  <2>5. /\ e \in Seq(Row) /\ Len(e) = Len(a.rows)
        /\ \A i \in 1..Len(e) : e[i] = IF i >= a.cur /\ i <= Len(a.rows) THEN Blank ELSE a.rows[i]
    BY <1>1, <2>2, <2>3, ErasedRows
  <2> HIDE DEF e
  <2>6. /\ b \in TermRecord /\ b.rows = e /\ b.cur = top
    BY <1>1, <2>2, <2>3, <2>4, <2>5 DEF TermRecord
  <2>7. /\ c \in TermRecord /\ c.cur = top + n /\ c.cur <= Len(c.rows)
        /\ WrittenAt(c, b, top, content)
    BY <1>2, <2>6, WriteLinesStep DEF c, n
  <2>8. /\ u \in TermRecord /\ u.rows = c.rows /\ u.cur = top + n /\ u.total = 0 /\ u.at = 0
    BY <2>1, <2>7 DEF TermRecord
  <2>9. Sound(u) /\ u.cur >= top
    BY <1>1, <1>2, <2>7, <2>8 DEF Sound
  <2>10. \A i \in 1..Len(u.rows) :
             u.rows[i] = IF i >= top /\ i < top + n THEN content[i - top + 1]
                         ELSE IF i <= Len(t.rows) THEN e[i] ELSE Blank
    BY <2>2, <2>5, <2>6, <2>7, <2>8 DEF WrittenAt, n
  <2> SUFFICES ASSUME NEW i \in 1..Len(u.rows)
      PROVE  /\ i < top => i <= Len(t.rows) /\ u.rows[i] = t.rows[i]
             /\ i >= top => u.rows[i] = Blank \/ (u.rows[i] \in InputRow /\ i < u.cur)
    BY <2>8, <2>9 DEF u, top
  <2>11. i \in Nat \ {0}
    OBVIOUS
  <2>12. ASSUME i < top PROVE i <= Len(t.rows) /\ u.rows[i] = t.rows[i]
    <3>1. i \in 1..Len(t.rows) /\ i <= Len(t.rows) /\ ~(i >= top)
      BY <1>1, <2>11, <2>12
    <3>2. u.rows[i] = e[i]
      BY <2>10, <3>1
    <3> QED
      BY <2>2, <2>3, <2>5, <3>1, <3>2
  <2>13. ASSUME i >= top, i < top + n PROVE u.rows[i] \in InputRow /\ i < u.cur
    <3>1. i - top + 1 \in 1..n
      <4>1. top \in Nat /\ n \in Nat
        BY <1>1, <1>2
      <4> QED
        BY <2>11, <2>13, <4>1
    <3> QED
      BY <1>2, <2>8, <2>10, <2>13, <3>1
  <2>14. ASSUME i >= top, ~(i < top + n) PROVE u.rows[i] = Blank
    <3>1. i <= Len(t.rows) => e[i] = Blank
      BY <1>1, <2>2, <2>3, <2>5, <2>11, <2>14
    <3> QED
      BY <2>10, <2>14, <3>1
  <2> QED
    BY <2>12, <2>13, <2>14
<1>4. CASE ~(t.total > 1 \/ n > 1)
  <2> DEFINE c == NewLines(t, 1)
  <2>1. u = [c EXCEPT !.total = 0, !.at = 0]
    BY <1>4 DEF ClearFrame, Reset, NewLine
  <2>2. t.at = 0 /\ top = t.cur /\ t.total <= 1
    BY <1>1, <1>4 DEF Sound
  <2> HIDE DEF u, n, top
  <2>3. /\ c \in TermRecord /\ c.cur = t.cur + 1
        /\ c.cur <= Len(c.rows) /\ Len(c.rows) >= Len(t.rows)
        /\ \A i \in 1..Len(c.rows) : c.rows[i] = IF i <= Len(t.rows) THEN t.rows[i] ELSE Blank
    BY <1>1, NewLinesStep
  <2> HIDE DEF c
  <2>4. /\ u \in TermRecord /\ u.rows = c.rows /\ u.cur = t.cur + 1 /\ u.total = 0 /\ u.at = 0
    BY <2>1, <2>3 DEF TermRecord
  <2>5. Sound(u) /\ u.cur >= top
    BY <1>1, <2>2, <2>3, <2>4 DEF Sound
  <2> SUFFICES ASSUME NEW i \in 1..Len(u.rows)
      PROVE  /\ i < top => i <= Len(t.rows) /\ u.rows[i] = t.rows[i]
             /\ i >= top => \/ u.rows[i] = Blank
                            \/ /\ i <= Len(t.rows) /\ u.rows[i] = t.rows[i]
                               /\ i >= u.cur <=> i # top
    BY <2>2, <2>4, <2>5 DEF u, top
  <2>6. i \in Nat \ {0} /\ u.rows[i] = IF i <= Len(t.rows) THEN t.rows[i] ELSE Blank
    BY <2>3, <2>4
  <2> QED
    BY <1>1, <2>2, <2>4, <2>6
<1> QED
  BY <1>1, <1>3, <1>4

-----------------------------------------------------------------------------
(* Frames.                                                                 *)

\* Rows of one kind are rows of the kinds that include it.
LEMMA SeqWider ==
    ASSUME NEW S, NEW T, \A x \in S : x \in T, NEW s \in Seq(S)
    PROVE  s \in Seq(T)
<1>1. Len(s) \in Nat /\ s = [i \in 1..Len(s) |-> s[i]] /\ \A i \in 1..Len(s) : s[i] \in S
  OBVIOUS
<1>2. \A i \in 1..Len(s) : s[i] \in T
  BY <1>1
<1> QED
  BY <1>1, <1>2, IsASeq

\* The same row n times.
LEMMA Repeated ==
    ASSUME NEW T, NEW n \in Nat, NEW e \in T
    PROVE  [i \in 1..n |-> e] \in Seq(T) /\ Len([i \in 1..n |-> e]) = n
BY IsASeq

\* One sequence of rows below another.
LEMMA Below ==
    ASSUME NEW T, NEW s \in Seq(T), NEW t \in Seq(T)
    PROVE  /\ s \o t \in Seq(T) /\ Len(s \o t) = Len(s) + Len(t)
           /\ Len(s) \in Nat /\ Len(t) \in Nat
           /\ \A i \in 1..Len(s) : (s \o t)[i] = s[i]
           /\ \A i \in 1..Len(t) : (s \o t)[Len(s) + i] = t[i]
OBVIOUS

\* The lines of the buffer with the prompt above them.
LEMMA InputLinesType ==
    ASSUME NEW s \in StateRecord, NEW c \in Caches, NEW cont \in BOOLEAN
    PROVE  /\ PromptRows(c, cont) \in Seq(InputRow) /\ Len(PromptRows(c, cont)) \in Nat
           /\ InputLines(s, c, cont) \in Seq(InputRow)
           /\ Len(InputLines(s, c, cont)) = Len(PromptRows(c, cont)) + s.lines
<1>1. c["prompt"] \in Nat \ {0} /\ s.lines \in Nat /\ s.from \in Nat
  BY DEF Caches, Widget, StateRecord
<1> DEFINE p == PromptRows(c, cont)
           b == [i \in 1..s.lines |-> <<"input", s.from, i>>]
<1>2. p \in Seq(InputRow)
  <2>1. CASE cont
    BY <2>1 DEF PromptRows
  <2>2. CASE ~cont
    <3>1. p = [i \in 1..(c["prompt"] - 1) |-> <<"prompt", c["prompt"]>>]
      BY <2>2 DEF PromptRows
    <3>2. c["prompt"] - 1 \in Nat /\ <<"prompt", c["prompt"]>> \in InputRow
      BY <1>1 DEF InputRow
    <3> DEFINE r == <<"prompt", c["prompt"]>>
               k == c["prompt"] - 1
    <3>3. p = [i \in 1..k |-> r]
      BY <3>1
    <3> HIDE DEF p, r, k
    <3>4. k \in Nat /\ r \in InputRow
      BY <3>2 DEF r, k
    <3> QED
      BY <3>3, <3>4, Repeated
  <2> QED
    BY <2>1, <2>2
<1>3. b \in Seq(InputRow) /\ Len(b) = s.lines
  <2>1. \A i \in 1..s.lines : <<"input", s.from, i>> \in InputRow
    BY <1>1 DEF InputRow
  <2> QED
    BY <1>1, <2>1, IsASeq
<1>4. InputLines(s, c, cont) = p \o b
  BY DEF InputLines
<1> HIDE DEF p, b
<1>5. p \o b \in Seq(InputRow) /\ Len(p \o b) = Len(p) + Len(b)
  BY <1>2, <1>3, ConcatProperties
<1>6. Len(p) \in Nat
  BY <1>2, LenProperties
<1> QED
  BY <1>2, <1>3, <1>4, <1>5, <1>6 DEF p

\* A frame has a row for the cursor, and that is a row of the input.
LEMMA FrameType ==
    ASSUME NEW s \in StateRecord, s.at <= s.lines, NEW c \in Caches, NEW cont \in BOOLEAN,
           NEW old \in Seq(InputRow)
    PROVE  LET f == Frame(s, c, cont, old)
               row == CursorRow(s, c, cont, old)
           IN  /\ f \in Seq(FrameRow) /\ f \in Seq(Row) /\ f # <<>> /\ Len(f) \in Nat \ {0}
               /\ row \in 0..(Len(f) - 1) /\ f[row + 1] \in InputRow
<1> DEFINE h == Zone(c, "header")
           l == InputLines(s, c, cont)
           m == [i \in 1..s.menu |-> <<"menu">>]
           e == Zone(c, "footer")
           f == Frame(s, c, cont, old)
           row == CursorRow(s, c, cont, old)
           p == Len(PromptRows(c, cont))
<1>1. /\ s.lines \in Nat \ {0} /\ s.at \in Nat \ {0} /\ s.menu \in Nat /\ p \in Nat
      /\ l \in Seq(InputRow) /\ Len(l) = p + s.lines
  BY InputLinesType DEF StateRecord
<1>2. ASSUME NEW w \in {"header", "footer"}
      PROVE  c[w] \in Nat /\ Zone(c, w) \in Seq(FrameRow) /\ Len(Zone(c, w)) = c[w]
  <2>1. c[w] \in Nat /\ <<w, c[w]>> \in FrameRow
    BY DEF Caches, Widget, FrameRow
  <2>2. Zone(c, w) = [i \in 1..c[w] |-> <<w, c[w]>>]
    BY DEF Zone
  <2> DEFINE r == <<w, c[w]>>
             k == c[w]
  <2>3. Zone(c, w) = [i \in 1..k |-> r]
    BY <2>2
  <2>4. k \in Nat /\ r \in FrameRow
    BY <2>1
  <2> HIDE DEF r, k
  <2>5. Zone(c, w) \in Seq(FrameRow) /\ Len(Zone(c, w)) = k
    BY <2>3, <2>4, Repeated
  <2> QED
    BY <2>4, <2>5 DEF k
<1>3. m \in Seq(FrameRow)
  <2>1. <<"menu">> \in FrameRow
    BY DEF FrameRow
  <2> DEFINE r == <<"menu">>
  <2>2. m = [i \in 1..s.menu |-> r]
    OBVIOUS
  <2> HIDE DEF r, m
  <2>3. r \in FrameRow /\ s.menu \in Nat
    BY <1>1, <2>1 DEF r
  <2> QED
    BY <2>2, <2>3, Repeated
<1>4. h \in Seq(FrameRow) /\ Len(h) = c["header"] /\ e \in Seq(FrameRow) /\ c["header"] \in Nat
  BY <1>2
<1>5. old \in Seq(FrameRow) /\ l \in Seq(FrameRow) /\ Len(old) \in Nat
  <2>1. \A x \in InputRow : x \in FrameRow
    BY RowKinds
  <2>2. old \in Seq(FrameRow) /\ l \in Seq(FrameRow)
    BY <1>1, <2>1, SeqWider
  <2> QED
    BY <2>2, LenProperties
<1>6. f = (((h \o old) \o l) \o m) \o e /\ row = c["header"] + Len(old) + p + s.at - 1
  BY DEF Frame, CursorRow
<1> HIDE DEF h, l, m, e, f, row, p
<1> DEFINE a == h \o old
           b == a \o l
           d == b \o m
<1>7. f = d \o e
  BY <1>6
<1>8. /\ a \in Seq(FrameRow) /\ Len(a) = Len(h) + Len(old)
  BY <1>4, <1>5, Below
<1> HIDE DEF a
<1>9. b \in Seq(FrameRow) /\ Len(b) = Len(a) + Len(l)
  BY <1>5, <1>8, Below
<1>10. \A i \in 1..Len(l) : b[Len(a) + i] = l[i]
  BY <1>5, <1>8, Below
<1> HIDE DEF b
<1>11. d \in Seq(FrameRow) /\ Len(d) = Len(b) + Len(m)
  BY <1>3, <1>9, Below
<1>12. \A i \in 1..Len(b) : d[i] = b[i]
  BY <1>3, <1>9, Below
<1> HIDE DEF d
<1>13. f \in Seq(FrameRow) /\ Len(f) = Len(d) + Len(e)
  BY <1>4, <1>7, <1>11, Below
<1>14. \A i \in 1..Len(d) : f[i] = d[i]
  BY <1>4, <1>7, <1>11, Below
<1>15. /\ Len(a) \in Nat /\ Len(b) \in Nat /\ Len(d) \in Nat /\ Len(m) \in Nat /\ Len(e) \in Nat
       /\ Len(old) \in Nat
  BY <1>3, <1>4, <1>5, <1>8, <1>9, <1>11, LenProperties
<1> DEFINE k == p + s.at
<1>16. /\ k \in 1..Len(l) /\ k \in Nat \ {0} /\ k <= Len(l) /\ Len(l) \in Nat
       /\ row + 1 = Len(a) + k /\ row = Len(a) + k - 1
  <2>1. p \in Nat /\ s.at \in Nat \ {0} /\ s.lines \in Nat /\ Len(l) = p + s.lines
    BY <1>1
  <2>2. k \in 1..Len(l)
    BY <2>1
  <2>3. row = c["header"] + Len(old) + p + s.at - 1
    BY <1>6
  <2>4. Len(a) = c["header"] + Len(old) /\ c["header"] \in Nat /\ Len(old) \in Nat
    BY <1>4, <1>8, <1>15
  <2>5. row = Len(a) + k - 1
    <3>1. \A x, y, z, v \in Nat : x + y + z + v - 1 = (x + y) + (z + v) - 1
      OBVIOUS
    <3>2. c["header"] + Len(old) + p + s.at - 1 = (c["header"] + Len(old)) + (p + s.at) - 1
      BY <2>1, <2>4, <3>1
    <3> QED
      BY <2>3, <2>4, <3>2
  <2>6. k \in Nat \ {0} /\ k <= Len(l) /\ Len(l) \in Nat
    <3>1. k \in Nat \ {0}
      BY <2>1
    <3>2. Len(l) \in Nat
      BY <2>1
    <3>3. k <= Len(l)
      BY <2>1
    <3> QED
      BY <3>1, <3>2, <3>3
  <2> HIDE DEF k
  <2>7. row + 1 = Len(a) + k
    <3>1. Len(a) \in Nat
      BY <1>15
    <3> QED
      BY <2>5, <2>6, <3>1
  <2> QED
    BY <2>2, <2>5, <2>6, <2>7
<1>17. k \in Nat \ {0} /\ k <= Len(l) /\ Len(l) \in Nat
  BY <1>16
<1> HIDE DEF k
<1>18. Len(a) + k \in 1..Len(b) /\ Len(a) + k \in 1..Len(d)
  BY <1>9, <1>11, <1>15, <1>17
<1>19. f[row + 1] \in InputRow
  <2>1. f[Len(a) + k] = l[k]
    BY <1>10, <1>12, <1>14, <1>16, <1>18
  <2> QED
    BY <1>1, <1>16, <2>1, ElementOfSeq
<1>20. Len(f) \in Nat \ {0} /\ row \in 0..(Len(f) - 1) /\ f # <<>>
  <2>1. row = Len(a) + k - 1
    BY <1>16
  <2>2. Len(f) \in Nat /\ Len(f) >= Len(d)
    BY <1>13, <1>15
  <2>3. Len(f) >= 1 /\ row >= 0 /\ row <= Len(f) - 1 /\ row \in Int
    BY <1>15, <1>17, <1>18, <2>1, <2>2
  <2>4. f # <<>>
    BY <2>3
  <2> QED
    BY <2>2, <2>3, <2>4
<1>21. f \in Seq(Row)
  <2>1. \A x \in FrameRow : x \in Row
    BY RowKinds
  <2> QED
    BY <1>13, <2>1, SeqWider
<1> QED
  BY <1>13, <1>19, <1>20, <1>21 DEF f, row

-----------------------------------------------------------------------------
(* What is kept when a frame is drawn or cleared.                          *)

\* OutputKept of given rows.
Kept(rows, n) ==
    LET kept == {i \in DOMAIN rows : Output(rows[i])}
    IN  /\ \A i \in kept : \E k \in 1..n : rows[i] = <<"output", k>>
        /\ \A k \in 1..n : \E i \in kept : rows[i] = <<"output", k>>
        /\ \A i, j \in kept : i < j => rows[i][2] < rows[j][2]

\* Output is kept by what changes only rows from top on, where there is none.
LEMMA OutputStays ==
    ASSUME NEW old \in Seq(Row), NEW new \in Seq(Row), NEW top \in Nat, NEW n \in Nat,
           top <= Len(old), top <= Len(new),
           \A i \in 1..Len(new) : i < top => new[i] = old[i],
           OutputAbove(old, top), OutputAbove(new, top), Kept(old, n)
    PROVE  Kept(new, n)
<1> DEFINE A == {i \in DOMAIN old : Output(old[i])}
           B == {i \in DOMAIN new : Output(new[i])}
<1>1. /\ Len(old) \in Nat /\ Len(new) \in Nat /\ DOMAIN old = 1..Len(old) /\ DOMAIN new = 1..Len(new)
  BY LenProperties
<1>2. /\ \A i \in B : i \in A /\ new[i] = old[i]
      /\ \A i \in A : i \in B
  <2>1. ASSUME NEW i \in B PROVE i \in A /\ new[i] = old[i]
    <3>1. i \in 1..Len(new) /\ i < top
      BY <1>1 DEF OutputAbove
    <3>2. i \in 1..Len(old) /\ new[i] = old[i]
      BY <1>1, <3>1
    <3> QED
      BY <1>1, <3>2
  <2>2. ASSUME NEW i \in A PROVE i \in B
    <3>1. i \in 1..Len(old) /\ i < top
      BY <1>1 DEF OutputAbove
    <3>2. i \in 1..Len(new) /\ new[i] = old[i]
      BY <1>1, <3>1
    <3> QED
      BY <1>1, <3>2
  <2> QED
    BY <2>1, <2>2
<1>3. /\ \A i \in A : \E k \in 1..n : old[i] = <<"output", k>>
      /\ \A k \in 1..n : \E i \in A : old[i] = <<"output", k>>
      /\ \A i, j \in A : i < j => old[i][2] < old[j][2]
  BY DEF Kept
<1> SUFFICES /\ \A i \in B : \E k \in 1..n : new[i] = <<"output", k>>
             /\ \A k \in 1..n : \E i \in B : new[i] = <<"output", k>>
             /\ \A i, j \in B : i < j => new[i][2] < new[j][2]
  BY DEF Kept
<1> HIDE DEF A, B
<1>4. \A i \in B : \E k \in 1..n : new[i] = <<"output", k>>
  BY <1>2, <1>3
<1>5. ASSUME NEW k \in 1..n PROVE \E i \in B : new[i] = <<"output", k>>
  <2>1. PICK i \in A : old[i] = <<"output", k>>
    BY <1>3
  <2> QED
    BY <1>2, <2>1
<1>6. \A i, j \in B : i < j => new[i][2] < new[j][2]
  BY <1>2, <1>3
<1> QED
  BY <1>4, <1>5, <1>6

\* Rows that are in a frame or blank are not output.
LEMMA RenderFrameKeeps ==
    ASSUME EditorTypeOK, NEW t, Sound(t), NEW s \in StateRecord, s.at <= s.lines, NEW c \in Caches,
           OutputAbove(t.rows, Top(t)), Kept(t.rows, output), RenderFrame(t, s, c)
    PROVE  LET frame == Frame(s, c, continued, frozen)
           IN  /\ Sound(term') /\ OutputAbove(term'.rows, Top(term')) /\ Kept(term'.rows, output)
               /\ NothingLeft(t.rows, Top(t), Top(t) + t.total) =>
                      NothingLeft(term'.rows, Top(term'), Top(term') + term'.total)
               /\ term'.total = Len(frame) /\ Shows(term', frame)
               /\ term'.at = CursorRow(s, c, continued, frozen)
               /\ lastInput' \in Seq(InputRow)
<1> DEFINE f == Frame(s, c, continued, frozen)
           row == CursorRow(s, c, continued, frozen)
           n == Len(f)
           top == Top(t)
           u == Render(t, f, row)
<1>1. /\ f \in Seq(FrameRow) /\ f \in Seq(Row) /\ f # <<>> /\ n \in Nat \ {0} /\ row \in 0..(n - 1)
  BY FrameType DEF EditorTypeOK
<1>2. term' = u /\ lastInput' \in Seq(InputRow)
  BY InputLinesType DEF RenderFrame, EditorTypeOK
<1>3. /\ t \in TermRecord /\ t.rows \in Seq(Row) /\ Len(t.rows) \in Nat /\ t.total \in Nat
      /\ top \in Nat \ {0} /\ top <= Len(t.rows)
  <2>1. /\ t.cur \in Nat \ {0} /\ t.at \in Nat /\ t.total \in Nat /\ t.cur <= Len(t.rows)
        /\ top = t.cur - t.at /\ t.rows \in Seq(Row) /\ Len(t.rows) \in Nat /\ t \in TermRecord
    BY DEF Sound, TermRecord, Top
  <2>2. t.at < t.cur
    BY <2>1 DEF Sound
  <2> HIDE DEF top
  <2> QED
    BY <2>1, <2>2
<1> HIDE DEF f, row, u, n
<1>4. /\ Sound(u) /\ Top(u) = top /\ u.total = n /\ u.at = row /\ Shows(u, f)
      /\ \A i \in 1..Len(u.rows) :
             /\ i < top => i <= Len(t.rows) /\ u.rows[i] = t.rows[i]
             /\ i >= top + n => u.rows[i] = IF i < top + t.total \/ i > Len(t.rows) THEN Blank
                                            ELSE t.rows[i]
  BY <1>1, RenderStep DEF n, u
<1> HIDE DEF top
<1>5. /\ u.rows \in Seq(Row) /\ Len(u.rows) \in Nat /\ top <= Len(u.rows)
  <2>1. u.cur \in Nat \ {0} /\ u.at \in Nat /\ u.cur <= Len(u.rows) /\ top = u.cur - u.at
        /\ u.rows \in Seq(Row) /\ Len(u.rows) \in Nat
    BY <1>4 DEF Sound, TermRecord, Top
  <2> QED
    BY <1>3, <2>1
<1>6. \A i \in 1..Len(u.rows) : i >= top /\ i < top + n => ~Output(u.rows[i]) /\ u.rows[i] \in FrameRow
  <2> SUFFICES ASSUME NEW i \in 1..Len(u.rows), i >= top, i < top + n
      PROVE ~Output(u.rows[i]) /\ u.rows[i] \in FrameRow
    OBVIOUS
  <2>1. i - top + 1 \in 1..n /\ top + (i - top + 1) - 1 = i
    BY <1>1, <1>3
  <2>2. u.rows[i] = f[i - top + 1]
    BY <1>4, <2>1 DEF Shows, n
  <2>3. f[i - top + 1] \in FrameRow
    BY <1>1, <2>1, ElementOfSeq DEF n
  <2> QED
    BY <2>2, <2>3, RowKinds
<1>7. OutputAbove(u.rows, top)
  <2> SUFFICES ASSUME NEW i \in 1..Len(u.rows), i >= top PROVE ~Output(u.rows[i])
    BY <1>3, <1>5 DEF OutputAbove
  <2>1. CASE i < top + n
    BY <1>6, <2>1
  <2>2. CASE ~(i < top + n)
    <3>1. i >= top + n
      BY <1>1, <1>3, <2>2
    <3>2. u.rows[i] = Blank \/ (i <= Len(t.rows) /\ u.rows[i] = t.rows[i])
      BY <1>3, <1>4, <3>1
    <3>3. i <= Len(t.rows) => ~Output(t.rows[i])
      BY <1>3 DEF OutputAbove, top
    <3> QED
      BY <3>2, <3>3, RowKinds
  <2> QED
    BY <2>1, <2>2
<1>8. Kept(u.rows, output)
  <2>1. OutputAbove(t.rows, top) /\ output \in Nat
    BY DEF top, EditorTypeOK
  <2> QED
    BY <1>3, <1>4, <1>5, <1>7, <2>1, OutputStays
<1>9. ASSUME NothingLeft(t.rows, top, top + t.total) PROVE NothingLeft(u.rows, top, top + n)
  <2> SUFFICES ASSUME NEW i \in 1..Len(u.rows)
      PROVE  /\ i >= top + n => u.rows[i] = Blank
             /\ i < top => ~Leftover(u.rows[i])
    BY DEF NothingLeft
  <2>1. ASSUME i >= top + n PROVE u.rows[i] = Blank
    <3>1. CASE i < top + t.total \/ i > Len(t.rows)
      BY <1>4, <2>1, <3>1
    <3>2. CASE ~(i < top + t.total \/ i > Len(t.rows))
      <4>1. i \in 1..Len(t.rows) /\ i >= top + t.total /\ i # top
        BY <1>1, <1>3, <2>1, <3>2
      <4>2. t.rows[i] = Blank
        BY <1>9, <4>1 DEF NothingLeft
      <4> QED
        BY <1>4, <2>1, <3>2, <4>2
    <3> QED
      BY <3>1, <3>2
  <2>2. ASSUME i < top PROVE ~Leftover(u.rows[i])
    <3>1. i \in 1..Len(t.rows) /\ u.rows[i] = t.rows[i]
      BY <1>3, <1>4, <2>2
    <3> QED
      BY <1>9, <2>2, <3>1 DEF NothingLeft
  <2> QED
    BY <2>1, <2>2
<1> QED
  BY <1>2, <1>4, <1>7, <1>8, <1>9 DEF f, row, n, top

\* clearFrame leaves of the frame what is input, or nothing, and no output is lost.
LEMMA ClearFrameKeeps ==
    ASSUME EditorTypeOK, ScreenInv, OutputKept, phase \in {"on", "running"},
           NEW content \in Seq(InputRow)
    PROVE  LET u == ClearFrame(term, content)
           IN  /\ Sound(u) /\ u.total = 0 /\ u.at = 0
               /\ OutputAbove(u.rows, Top(u)) /\ Kept(u.rows, output)
               /\ ~resized => NothingLeft(u.rows, Top(u), Top(u) + u.total)
<1> DEFINE u == ClearFrame(term, content)
           rows == term.rows
           top == Top(term)
<1>1. /\ rows \in Seq(Row) /\ Len(rows) \in Nat /\ term.total \in Nat
      /\ top \in Nat \ {0} /\ top <= Len(rows) /\ Sound(term)
  <2>1. /\ term.cur \in Nat \ {0} /\ term.at \in Nat /\ term.total \in Nat /\ term.cur <= Len(rows)
        /\ top = term.cur - term.at /\ rows \in Seq(Row) /\ Len(rows) \in Nat /\ Sound(term)
    BY DEF EditorTypeOK, Sound, TermRecord, Top
  <2>2. term.at < term.cur
    BY <2>1 DEF Sound
  <2> HIDE DEF top, rows
  <2> QED
    BY <2>1, <2>2
<1>2. /\ Sound(u) /\ u.total = 0 /\ u.at = 0 /\ u.cur >= top
      /\ \A i \in 1..Len(u.rows) :
             /\ i < top => i <= Len(rows) /\ u.rows[i] = rows[i]
             /\ i >= top =>
                    \/ u.rows[i] = Blank
                    \/ u.rows[i] \in InputRow /\ i < u.cur
                    \/ /\ term.total <= 1 /\ i <= Len(rows) /\ u.rows[i] = rows[i]
                       /\ i >= u.cur <=> i # top
  BY <1>1, ClearFrameStep
<1>3. OutputAbove(rows, top) /\ Kept(rows, output) /\ output \in Nat
  BY DEF ScreenInv, EditorTypeOK, OutputKept, Kept
<1>4. ~resized => NothingLeft(rows, top, top + term.total)
  BY DEF ScreenInv
\* The row of a frame of one row is a line of the input.
<1>5. ASSUME term.total = 1 PROVE rows[top] \in InputRow
  <2> DEFINE f == Frame(state, cache, continued, frozen)
             row == CursorRow(state, cache, continued, frozen)
  <2>1. phase = "on"
    BY <1>5 DEF ScreenInv
  <2>2. term.total = Len(f) /\ Shows(term, f)
    BY <2>1 DEF ScreenInv
  <2>3. row \in 0..(Len(f) - 1) /\ f[row + 1] \in InputRow
    BY FrameType DEF EditorTypeOK
  <2> HIDE DEF f, row
  <2>4. row = 0 /\ 1 \in 1..Len(f)
    BY <1>5, <2>2, <2>3
  <2>5. rows[top + 1 - 1] = f[1]
    BY <2>2, <2>4 DEF Shows
  <2>6. top + 1 - 1 = top
    BY <1>1
  <2> QED
    BY <2>3, <2>4, <2>5, <2>6
<1> HIDE DEF u, rows, top
<1>6. u.rows \in Seq(Row) /\ Len(u.rows) \in Nat /\ u.cur \in Nat /\ u.cur <= Len(u.rows) /\ Top(u) = u.cur
  BY <1>2 DEF Sound, TermRecord, Top
<1>7. ASSUME NEW i \in 1..Len(u.rows), i >= top PROVE ~Output(u.rows[i])
  <2>1. CASE u.rows[i] = Blank
    BY <2>1, RowKinds
  <2>2. CASE u.rows[i] \in InputRow
    BY <2>2, RowKinds
  <2>3. CASE i <= Len(rows) /\ u.rows[i] = rows[i]
    <3>1. i \in 1..Len(rows) /\ ~(i < top)
      BY <1>1, <1>7, <2>3
    <3> QED
      BY <1>3, <2>3, <3>1 DEF OutputAbove
  <2> QED
    BY <1>2, <1>7, <2>1, <2>2, <2>3
<1>8. OutputAbove(u.rows, top) /\ OutputAbove(u.rows, u.cur)
  BY <1>1, <1>2, <1>6, <1>7 DEF OutputAbove
<1>9. Kept(u.rows, output)
  <2>1. top <= Len(u.rows) /\ top \in Nat /\ top <= Len(rows)
    BY <1>1, <1>2, <1>6
  <2>2. \A i \in 1..Len(u.rows) : i < top => u.rows[i] = rows[i]
    BY <1>2
  <2>3. u.rows \in Seq(Row) /\ rows \in Seq(Row) /\ output \in Nat
    BY <1>1, <1>3, <1>6
  <2> QED
    BY <1>3, <1>8, <2>1, <2>2, <2>3, OutputStays
<1>10. ASSUME ~resized PROVE NothingLeft(u.rows, u.cur, u.cur)
  <2> SUFFICES ASSUME NEW i \in 1..Len(u.rows)
      PROVE  /\ i >= u.cur => u.rows[i] = Blank
             /\ i < u.cur => ~Leftover(u.rows[i])
    BY DEF NothingLeft
  <2>1. NothingLeft(rows, top, top + term.total)
    BY <1>4, <1>10
  <2>2. CASE i < top
    <3>1. i \in 1..Len(rows) /\ u.rows[i] = rows[i] /\ i < u.cur
      BY <1>1, <1>2, <1>6, <2>2
    <3> QED
      BY <1>6, <2>1, <2>2, <3>1 DEF NothingLeft
  <2>3. CASE u.rows[i] = Blank
    BY <2>3, RowKinds
  <2>4. CASE u.rows[i] \in InputRow /\ i < u.cur
    BY <1>6, <2>4, RowKinds
  <2>5. CASE i >= top /\ term.total <= 1 /\ i <= Len(rows) /\ u.rows[i] = rows[i] /\ (i >= u.cur <=> i # top)
    <3>1. i \in 1..Len(rows)
      BY <2>5
    <3>2. i >= top + term.total => u.rows[i] = Blank \/ (i = top /\ u.rows[i] = Unfinished)
      BY <2>1, <2>5, <3>1 DEF NothingLeft
    <3>3. CASE i # top
      <4>1. i >= top + term.total
        BY <1>1, <2>5, <3>3
      <4> QED
        BY <3>2, <3>3, <4>1, RowKinds
    <3>4. CASE i = top
      <4>1. term.total = 0 => ~Leftover(u.rows[i])
        BY <1>1, <3>2, <3>4, RowKinds
      <4>2. term.total = 1 => ~Leftover(u.rows[i])
        BY <1>5, <2>5, <3>4, RowKinds
      <4>3. ~(i >= u.cur) /\ (term.total = 0 \/ term.total = 1)
        BY <1>1, <2>5, <3>4
      <4> QED
        BY <4>1, <4>2, <4>3
    <3> QED
      BY <3>3, <3>4
  <2> QED
    BY <1>1, <1>2, <2>2, <2>3, <2>4, <2>5
<1>11. Top(u) + u.total = u.cur
  BY <1>2, <1>6
<1> QED
  BY <1>2, <1>6, <1>8, <1>9, <1>10, <1>11 DEF u

-----------------------------------------------------------------------------
(* Every action keeps the invariant.                                       *)

\* The renderer starts anew where the cursor is.
LEMMA ResetStep ==
    ASSUME NEW t \in TermRecord
    PROVE  /\ Reset(t) \in TermRecord /\ Reset(t).rows = t.rows /\ Reset(t).cur = t.cur
           /\ Reset(t).total = 0 /\ Reset(t).at = 0
<1> DEFINE u == Reset(t)
<1>1. u = [t EXCEPT !.total = 0, !.at = 0]
  BY DEF Reset
<1> HIDE DEF u
<1>2. u \in TermRecord /\ u.rows = t.rows /\ u.cur = t.cur /\ u.total = 0 /\ u.at = 0
  BY <1>1 DEF TermRecord
<1> QED
  BY <1>2 DEF u

LEMMA SameTerm ==
    ASSUME NEW t \in TermRecord, NEW u \in TermRecord,
           t.rows = u.rows, t.cur = u.cur, t.total = u.total, t.at = u.at
    PROVE  t = u
BY DEF TermRecord

\* What a widget delivers is a number of rows it may have.
LEMMA Delivered ==
    ASSUME NEW c \in Caches, NEW w \in Widget, NEW v \in Rows[w]
    PROVE  [c EXCEPT ![w] = v] \in Caches
<1>1. Rows \in [Widget -> SUBSET Nat] /\ 0 \notin Rows["prompt"]
  BY EditorAssumption
<1>2. v \in Nat /\ (w = "prompt" => v # 0)
  BY <1>1
<1>3. c \in [Widget -> Nat] /\ c["prompt"] # 0 /\ "prompt" \in Widget
  BY DEF Caches, Widget
<1> QED
  BY <1>2, <1>3 DEF Caches

\* Before the first frame of a session is drawn what the widgets deliver only fills the cache.
LEMMA RefreshedKeeps == EditorInv /\ Refreshed => EditorInv'
<1> SUFFICES ASSUME EditorInv, Refreshed PROVE EditorInv'
  OBVIOUS
<1> USE DEF EditorInv
<1>1. PICK v \in Rows[Head(loading)] : cache' = [cache EXCEPT ![Head(loading)] = v]
  BY DEF Refreshed
<1>2. Head(loading) \in Widget /\ Tail(loading) \in Seq(Widget)
  BY HeadTailProperties DEF Refreshed, EditorTypeOK
<1>3. cache' \in Caches
  BY <1>1, <1>2, Delivered DEF EditorTypeOK
<1>4. EditorTypeOK'
  BY <1>2, <1>3 DEF Refreshed, EditorTypeOK, lineVars, Sound, Top
<1>5. ScreenInv' /\ OutputKept'
  BY DEF Refreshed, ScreenInv, OutputKept, Top
<1> QED
  BY <1>4, <1>5

\* A frame drawn from t, and the rest of the step, keep the invariant.
LEMMA DrawnKeeps ==
    ASSUME EditorInv, NEW t, Sound(t), OutputAbove(t.rows, Top(t)), Kept(t.rows, output),
           ~resized' => NothingLeft(t.rows, Top(t), Top(t) + t.total),
           RenderFrame(t, state', cache'), state' \in StateRecord, state'.at <= state'.lines,
           phase' = "on" => state'.from # 0, cache' \in Caches,
           pending' \in [Widget -> SUBSET Nat], \A w \in Widget : pending'[w] \subseteq Rows[w],
           phase' \in {"starting", "on"}, editing' = TRUE, resized' \in BOOLEAN,
           resized' => session = MaxSessions,
           UNCHANGED <<session, continued, loading, lineVars, output>>
    PROVE  EditorInv'
<1> DEFINE f == Frame(state', cache', continued, frozen)
<1>1. EditorTypeOK
  BY DEF EditorInv
<1>2. /\ Sound(term') /\ OutputAbove(term'.rows, Top(term')) /\ Kept(term'.rows, output)
      /\ NothingLeft(t.rows, Top(t), Top(t) + t.total) =>
             NothingLeft(term'.rows, Top(term'), Top(term') + term'.total)
      /\ term'.total = Len(f) /\ Shows(term', f)
      /\ term'.at = CursorRow(state', cache', continued, frozen)
      /\ lastInput' \in Seq(InputRow)
  BY <1>1, RenderFrameKeeps
<1>3. continued' = continued /\ frozen' = frozen /\ output' = output
  BY DEF lineVars
<1>4. EditorTypeOK'
  <2>1. Sound(term)'
    BY <1>2 DEF Sound, Top
  <2> QED
    BY <1>1, <1>2, <2>1 DEF EditorTypeOK, lineVars
<1>5. ScreenInv'
  <2>1. OutputAbove(term.rows, Top(term))'
    BY <1>2 DEF OutputAbove, Top, Output
  <2>2. (~resized => NothingLeft(term.rows, Top(term), Top(term) + term.total))'
    BY <1>2 DEF NothingLeft, Top, Leftover
  <2>3. (LET frame == Frame(state, cache, continued, frozen)
         IN  /\ term.total = Len(frame) /\ Shows(term, frame)
             /\ term.at = CursorRow(state, cache, continued, frozen))'
    BY <1>2, <1>3 DEF Shows, Top
  <2> QED
    BY <2>1, <2>2, <2>3 DEF ScreenInv
<1>6. OutputKept'
  BY <1>2, <1>3 DEF OutputKept, Kept
<1> QED
  BY <1>4, <1>5, <1>6 DEF EditorInv

\* The screen a frame is drawn over.
LEMMA Drawable ==
    EditorInv => /\ Sound(term) /\ OutputAbove(term.rows, Top(term)) /\ Kept(term.rows, output)
                 /\ ~resized => NothingLeft(term.rows, Top(term), Top(term) + term.total)
BY DEF EditorInv, EditorTypeOK, ScreenInv, OutputKept, Kept

LEMMA FirstRenderKeeps == EditorInv /\ FirstRender => EditorInv'
<1> SUFFICES ASSUME EditorInv, FirstRender PROVE EditorInv'
  OBVIOUS
<1>1. /\ phase = "starting" /\ phase' = "on" /\ state' = [NoState EXCEPT !.from = session]
      /\ RenderFrame(term, state', cache)
      /\ UNCHANGED <<session, editing, continued, loading, lineVars, widgetVars, output, resized>>
  BY DEF FirstRender
<1>2. EditorTypeOK /\ (resized => session = MaxSessions)
  BY DEF EditorInv, ScreenInv
<1>3. state' \in StateRecord /\ state'.at <= state'.lines /\ state'.from # 0
  <2>1. state' = [from |-> session, lines |-> 1, at |-> 1, menu |-> 0]
    BY <1>1 DEF NoState
  <2>2. session \in Nat \ {0}
    BY <1>2 DEF EditorTypeOK
  <2> QED
    BY <2>1, <2>2 DEF StateRecord
<1>4. /\ cache' = cache /\ cache' \in Caches
      /\ pending' \in [Widget -> SUBSET Nat] /\ \A w \in Widget : pending'[w] \subseteq Rows[w]
      /\ editing' = TRUE /\ phase' \in {"starting", "on"}
      /\ resized' = resized /\ resized' \in BOOLEAN /\ (resized' => session = MaxSessions)
  BY <1>1, <1>2 DEF EditorTypeOK, widgetVars
<1>5. RenderFrame(term, state', cache')
  BY <1>1, <1>4
<1> QED
  BY <1>1, <1>3, <1>4, <1>5, Drawable, DrawnKeeps

LEMMA KeyRenderKeeps == EditorInv /\ KeyRender => EditorInv'
<1> SUFFICES ASSUME EditorInv, KeyRender PROVE EditorInv'
  OBVIOUS
<1>1. /\ phase = "on" /\ state' \in States
      /\ RenderFrame(term, state', cache)
      /\ UNCHANGED <<phase, session, editing, continued, loading, lineVars, widgetVars, output, resized>>
  BY DEF KeyRender
<1>2. EditorTypeOK /\ (resized => session = MaxSessions)
  BY DEF EditorInv, ScreenInv
<1>3. state' \in StateRecord /\ state'.at <= state'.lines /\ state'.from # 0
  <2>1. MaxBuf \in Nat /\ session \in Nat \ {0}
    BY <1>2, EditorAssumption DEF EditorTypeOK
  <2>2. state' \in [from : {session}, lines : 1..MaxBuf, at : 1..MaxBuf, menu : 0..1]
    BY <1>1 DEF States
  <2>3. state'.at <= state'.lines
    BY <1>1 DEF States
  <2> QED
    BY <2>1, <2>2, <2>3 DEF StateRecord
<1>4. /\ cache' = cache /\ cache' \in Caches
      /\ pending' \in [Widget -> SUBSET Nat] /\ \A w \in Widget : pending'[w] \subseteq Rows[w]
      /\ editing' = TRUE /\ phase' \in {"starting", "on"}
      /\ resized' = resized /\ resized' \in BOOLEAN /\ (resized' => session = MaxSessions)
  BY <1>1, <1>2 DEF EditorTypeOK, widgetVars
<1>5. RenderFrame(term, state', cache')
  BY <1>1, <1>4
<1> QED
  BY <1>1, <1>3, <1>4, <1>5, Drawable, DrawnKeeps

LEMMA UpdateWidgetKeeps ==
    ASSUME NEW w \in Widget, EditorInv, UpdateWidget(w) PROVE EditorInv'
<1>1. PICK v \in Rows[w] : pending' = [pending EXCEPT ![w] = pending[w] \cup {v}]
  BY DEF UpdateWidget
<1>2. pending' \in [Widget -> SUBSET Nat] /\ \A x \in Widget : pending'[x] \subseteq Rows[x]
  <2>1. pending \in [Widget -> SUBSET Nat] /\ \A x \in Widget : pending[x] \subseteq Rows[x]
    BY DEF EditorInv, EditorTypeOK
  <2>2. v \in Nat /\ v \in Rows[w]
    BY EditorAssumption
  <2> QED
    BY <1>1, <2>1, <2>2
<1>3. EditorTypeOK'
  BY <1>2 DEF UpdateWidget, EditorInv, EditorTypeOK, lineVars, Sound, Top
<1>4. ScreenInv' /\ OutputKept'
  BY DEF UpdateWidget, lineVars, EditorInv, ScreenInv, OutputKept, Top
<1> QED
  BY <1>3, <1>4 DEF EditorInv

\* The window has another size: the frame is drawn anew where the cursor is.
LEMMA ResizeKeeps == EditorInv /\ Resize => EditorInv'
<1> SUFFICES ASSUME EditorInv, Resize PROVE EditorInv'
  OBVIOUS
<1> DEFINE t == Reset(term)
<1>1. /\ editing /\ state # NoState /\ session = MaxSessions /\ resized' = TRUE
      /\ RenderFrame(t, state, cache)
      /\ UNCHANGED <<phase, session, editing, continued, loading, state, lineVars, widgetVars, output>>
  BY DEF Resize
<1>2. EditorTypeOK
  BY DEF EditorInv
<1>3. /\ t.rows = term.rows /\ t.cur = term.cur /\ t.total = 0 /\ t.at = 0 /\ t \in TermRecord
      /\ Top(t) = t.cur
  <2>1. term \in TermRecord
    BY <1>2 DEF EditorTypeOK, Sound
  <2>2. /\ t.rows = term.rows /\ t.cur = term.cur /\ t.total = 0 /\ t.at = 0 /\ t \in TermRecord
    BY <2>1, ResetStep
  <2> HIDE DEF t
  <2>3. t.cur - 0 = t.cur
    BY <2>2 DEF TermRecord
  <2> QED
    BY <2>2, <2>3 DEF Top
<1>4. Sound(t)
  BY <1>2, <1>3 DEF EditorTypeOK, Sound
<1> HIDE DEF t
<1>5. OutputAbove(t.rows, Top(t))
  <2>1. Top(term) <= term.cur /\ Top(term) \in Int /\ term.cur \in Int
    BY <1>2 DEF Top, EditorTypeOK, Sound, TermRecord
  <2> QED
    BY <1>3, <2>1, Drawable DEF OutputAbove
<1>6. Kept(t.rows, output)
  BY <1>3, Drawable
<1>7. /\ state' = state /\ cache' = cache /\ pending' = pending
      /\ state' \in StateRecord /\ state'.at <= state'.lines /\ (phase' = "on" => state'.from # 0)
      /\ cache' \in Caches
      /\ pending' \in [Widget -> SUBSET Nat] /\ \A w \in Widget : pending'[w] \subseteq Rows[w]
      /\ editing' = TRUE /\ phase' \in {"starting", "on"} /\ resized' = TRUE
  BY <1>1, <1>2 DEF EditorTypeOK, widgetVars
<1>8. RenderFrame(t, state', cache')
  BY <1>1, <1>7
<1> QED
  BY <1>1, <1>4, <1>5, <1>6, <1>7, <1>8, DrawnKeeps

\* What is delivered while a line is edited is drawn at once, if it is something else.
LEMMA UpdateArrivesKeeps ==
    ASSUME NEW w \in Widget, EditorInv, UpdateArrives(w) PROVE EditorInv'
<1>1. PICK v \in pending[w] : /\ pending' = [pending EXCEPT ![w] = pending[w] \ {v}]
                             /\ cache' = [cache EXCEPT ![w] = v]
  BY DEF UpdateArrives
<1>2. EditorTypeOK /\ (resized => session = MaxSessions)
  BY DEF EditorInv, ScreenInv
<1>3. cache' \in Caches
  <2>1. v \in Rows[w] /\ cache \in Caches
    BY <1>2 DEF EditorTypeOK
  <2> QED
    BY <1>1, <2>1, Delivered
<1>4. pending' \in [Widget -> SUBSET Nat] /\ \A x \in Widget : pending'[x] \subseteq Rows[x]
  BY <1>1, <1>2 DEF EditorTypeOK
<1>5. UNCHANGED <<phase, session, editing, continued, loading, state, lineVars, output, resized>>
  BY DEF UpdateArrives
<1>6. CASE cache' # cache /\ editing /\ state # NoState
  <2>1. RenderFrame(term, state, cache')
    BY <1>6 DEF UpdateArrives
  <2>2. /\ state' = state /\ state' \in StateRecord /\ state'.at <= state'.lines
        /\ (phase' = "on" => state'.from # 0)
        /\ editing' = TRUE /\ phase' \in {"starting", "on"}
        /\ resized' = resized /\ resized' \in BOOLEAN /\ (resized' => session = MaxSessions)
    BY <1>2, <1>5, <1>6 DEF EditorTypeOK
  <2>3. RenderFrame(term, state', cache')
    BY <2>1, <2>2
  <2> QED
    BY <1>3, <1>4, <1>5, <2>2, <2>3, Drawable, DrawnKeeps
<1>7. CASE ~(cache' # cache /\ editing /\ state # NoState)
  <2>1. UNCHANGED <<term, lastInput>>
    BY <1>7 DEF UpdateArrives
  <2>2. phase = "on" => cache' = cache
    <3>1. phase = "on" => editing /\ state.from # 0
      BY <1>2 DEF EditorTypeOK
    <3>2. NoState.from = 0
      BY DEF NoState
    <3> QED
      BY <1>7, <3>1, <3>2
  <2>3. EditorTypeOK'
    BY <1>2, <1>3, <1>4, <1>5, <2>1 DEF EditorTypeOK, lineVars, Sound, Top
  <2>4. ScreenInv' /\ OutputKept'
    BY <1>5, <2>1, <2>2 DEF lineVars, EditorInv, ScreenInv, OutputKept, Top
  <2> QED
    BY <2>3, <2>4 DEF EditorInv
<1> QED
  BY <1>6, <1>7

\* A new session begins on a screen that is in order: a first one with the renderer starting
\* anew, a continuation over the frame before it.
LEMMA BegunKeeps ==
    ASSUME EditorInv, NEW cont \in BOOLEAN, NEW t, Sound(t),
           OutputAbove(t.rows, Top(t)), Kept(t.rows, output),
           ~resized => NothingLeft(t.rows, Top(t), Top(t) + t.total),
           ~cont => t.total = 0 /\ t.at = 0,
           NEW freeze \in Seq(InputRow), Begin(cont, t, freeze), session < MaxSessions,
           UNCHANGED <<state, lastInput, widgetVars, output, resized>>
    PROVE  EditorInv'
<1>1. EditorTypeOK /\ ~resized
  <2>1. session \in Nat /\ MaxSessions \in Nat /\ (resized => session = MaxSessions) /\ EditorTypeOK
    BY EditorAssumption DEF EditorInv, EditorTypeOK, ScreenInv
  <2> QED
    BY <2>1
<1>2. /\ phase' = "starting" /\ session' = session + 1 /\ editing' = TRUE /\ continued' = cont
      /\ frozen' = (IF cont THEN frozen \o freeze ELSE <<>>) /\ pendingFreeze' = <<>>
      /\ loading' = IF cont THEN <<"header", "footer">> ELSE <<"prompt", "header", "footer">>
      /\ state' = state /\ lastInput' = lastInput /\ cache' = cache /\ pending' = pending
      /\ output' = output /\ resized' = resized
  BY DEF Begin, widgetVars
<1>3. term' = t
  <2>1. t \in TermRecord
    BY DEF Sound
  <2>2. CASE cont
    BY <2>2 DEF Begin
  <2>3. CASE ~cont
    <3>1. Reset(t) = t
      BY <2>1, <2>3, ResetStep, SameTerm
    <3> QED
      BY <2>3, <3>1 DEF Begin
  <2> QED
    BY <2>2, <2>3
<1>4. frozen' \in Seq(InputRow) /\ pendingFreeze' \in Seq(InputRow)
  <2>1. frozen \in Seq(InputRow) /\ frozen \o freeze \in Seq(InputRow) /\ <<>> \in Seq(InputRow)
    BY <1>1, Below, EmptySeq DEF EditorTypeOK
  <2> QED
    BY <1>2, <2>1
<1>5. loading' \in Seq(Widget)
  <2>1. <<"header", "footer">> \in Seq(Widget) /\ <<"prompt", "header", "footer">> \in Seq(Widget)
    BY DEF Widget
  <2> QED
    BY <1>2, <2>1
<1>6. EditorTypeOK'
  <2>1. Sound(term)'
    BY <1>3 DEF Sound, Top
  <2>2. session' \in Nat \ {0}
    BY <1>1, <1>2 DEF EditorTypeOK
  <2> QED
    BY <1>1, <1>2, <1>4, <1>5, <2>1, <2>2 DEF EditorTypeOK
<1>7. ScreenInv'
  BY <1>1, <1>2, <1>3 DEF ScreenInv, OutputAbove, NothingLeft, Top, Output, Leftover
<1>8. OutputKept'
  BY <1>2, <1>3 DEF OutputKept, Kept
<1> QED
  BY <1>6, <1>7, <1>8 DEF EditorInv

\* The lines that are kept are lines of the input.
LEMMA ContentType == EditorInv => Content \in Seq(InputRow) /\ frozen \o pendingFreeze \in Seq(InputRow)
BY Below DEF EditorInv, EditorTypeOK, Content

LEMMA LineOverKeeps == EditorInv /\ LineOver => EditorInv'
<1> SUFFICES ASSUME EditorInv, LineOver PROVE EditorInv'
  OBVIOUS
<1> DEFINE t == ClearFrame(term, Content)
<1>1. /\ phase \in {"on", "running"} /\ session < MaxSessions /\ Begin(FALSE, t, <<>>)
      /\ UNCHANGED <<state, lastInput, widgetVars, output, resized>>
  BY DEF LineOver
<1>2. /\ Sound(t) /\ t.total = 0 /\ t.at = 0
      /\ OutputAbove(t.rows, Top(t)) /\ Kept(t.rows, output)
      /\ ~resized => NothingLeft(t.rows, Top(t), Top(t) + t.total)
  BY <1>1, ContentType, ClearFrameKeeps DEF EditorInv
<1> HIDE DEF t
<1>3. <<>> \in Seq(InputRow)
  BY EmptySeq
<1> QED
  BY <1>1, <1>2, <1>3, BegunKeeps

LEMMA LineIncompleteKeeps == EditorInv /\ LineIncomplete => EditorInv'
<1> SUFFICES ASSUME EditorInv, LineIncomplete PROVE EditorInv'
  OBVIOUS
<1>1. /\ session < MaxSessions /\ Begin(TRUE, term, lastInput)
      /\ UNCHANGED <<state, lastInput, widgetVars, output, resized>>
  BY DEF LineIncomplete
<1>2. lastInput \in Seq(InputRow)
  BY DEF EditorInv, EditorTypeOK
<1> QED
  BY <1>1, <1>2, Drawable, BegunKeeps

\* A command is run: the frame is cleared.
LEMMA LineRunsKeeps == EditorInv /\ LineRuns => EditorInv'
<1> SUFFICES ASSUME EditorInv, LineRuns PROVE EditorInv'
  OBVIOUS
<1> DEFINE t == ClearFrame(term, Content)
<1>1. /\ phase = "on" /\ phase' = "running" /\ editing' = FALSE
      /\ pendingFreeze' = lastInput /\ term' = t
      /\ UNCHANGED <<session, continued, loading, state, frozen, lastInput, widgetVars, output, resized>>
  BY DEF LineRuns
<1>2. /\ Sound(t) /\ t.total = 0 /\ t.at = 0
      /\ OutputAbove(t.rows, Top(t)) /\ Kept(t.rows, output)
      /\ ~resized => NothingLeft(t.rows, Top(t), Top(t) + t.total)
  BY <1>1, ContentType, ClearFrameKeeps DEF EditorInv
<1> HIDE DEF t
<1>3. EditorTypeOK'
  <2>1. Sound(term)'
    BY <1>1, <1>2 DEF Sound, Top
  <2> QED
    BY <1>1, <2>1 DEF EditorInv, EditorTypeOK, widgetVars
<1>4. ScreenInv'
  BY <1>1, <1>2 DEF EditorInv, ScreenInv, OutputAbove, NothingLeft, Top, Output, Leftover
<1>5. OutputKept'
  BY <1>1, <1>2 DEF OutputKept, Kept
<1> QED
  BY <1>3, <1>4, <1>5 DEF EditorInv

\* A command is over: the next prompt, an error, or a line that goes on.
LEMMA CommandEndsKeeps == EditorInv /\ CommandEnds => EditorInv'
<1> SUFFICES ASSUME EditorInv, CommandEnds PROVE EditorInv'
  OBVIOUS
<1> DEFINE t == ClearFrame(term, frozen \o pendingFreeze)
<1>1. /\ phase \in {"on", "running"} /\ phase = "running" /\ session < MaxSessions
      /\ UNCHANGED <<state, lastInput, widgetVars, output, resized>>
  BY DEF CommandEnds
<1>2. <<>> \in Seq(InputRow) /\ pendingFreeze \in Seq(InputRow)
  BY EmptySeq DEF EditorInv, EditorTypeOK
<1>3. CASE Begin(FALSE, term, <<>>)
  <2>1. term.total = 0 /\ term.at = 0
    BY <1>1 DEF EditorInv, ScreenInv, EditorTypeOK, Sound
  <2> QED
    BY <1>1, <1>2, <1>3, <2>1, Drawable, BegunKeeps
<1>4. CASE Begin(FALSE, t, <<>>)
  <2>1. /\ Sound(t) /\ t.total = 0 /\ t.at = 0
        /\ OutputAbove(t.rows, Top(t)) /\ Kept(t.rows, output)
        /\ ~resized => NothingLeft(t.rows, Top(t), Top(t) + t.total)
    BY <1>1, ContentType, ClearFrameKeeps DEF EditorInv
  <2> HIDE DEF t
  <2> QED
    BY <1>1, <1>2, <1>4, <2>1, BegunKeeps
<1>5. CASE Begin(TRUE, term, pendingFreeze)
  BY <1>1, <1>2, <1>5, Drawable, BegunKeeps
<1> QED
  BY <1>3, <1>4, <1>5 DEF CommandEnds

\* The next row of output below the others.
LEMMA OutputAdded ==
    ASSUME NEW old \in Seq(Row), NEW new \in Seq(Row), NEW at \in Nat \ {0}, NEW n \in Nat,
           at <= Len(new), OutputAbove(old, at), OutputAbove(new, at + 1), Kept(old, n),
           at <= Len(old),
           \A i \in 1..Len(new) : i < at => new[i] = old[i], new[at] = <<"output", n + 1>>
    PROVE  Kept(new, n + 1)
<1> DEFINE A == {i \in DOMAIN old : Output(old[i])}
           B == {i \in DOMAIN new : Output(new[i])}
           row == <<"output", n + 1>>
<1>1. /\ Len(old) \in Nat /\ Len(new) \in Nat /\ DOMAIN old = 1..Len(old) /\ DOMAIN new = 1..Len(new)
  BY LenProperties
<1>2. /\ \A i \in B : i = at \/ (i \in A /\ new[i] = old[i])
      /\ \A i \in A : i \in B /\ new[i] = old[i]
      /\ at \in B
      /\ \A i \in A : i \in Nat /\ i < at
  <2>1. ASSUME NEW i \in B, i # at PROVE i \in A /\ new[i] = old[i]
    <3>1. i \in 1..Len(new) /\ i < at + 1
      BY <1>1 DEF OutputAbove
    <3>2. i < at
      BY <2>1, <3>1
    <3>3. i \in 1..Len(old) /\ new[i] = old[i]
      BY <1>1, <3>1, <3>2
    <3> QED
      BY <1>1, <3>3
  <2>2. ASSUME NEW i \in A PROVE i \in B /\ new[i] = old[i] /\ i \in Nat /\ i < at
    <3>1. i \in 1..Len(old) /\ i < at
      BY <1>1 DEF OutputAbove
    <3>2. i \in 1..Len(new) /\ new[i] = old[i]
      BY <1>1, <3>1
    <3> QED
      BY <1>1, <3>1, <3>2
  <2>3. at \in B
    <3>1. at \in 1..Len(new) /\ Output(new[at])
      BY <1>1, RowKinds
    <3> QED
      BY <1>1, <3>1
  <2> QED
    BY <2>1, <2>2, <2>3
<1>3. /\ \A i \in A : \E k \in 1..n : old[i] = <<"output", k>>
      /\ \A k \in 1..n : \E i \in A : old[i] = <<"output", k>>
      /\ \A i, j \in A : i < j => old[i][2] < old[j][2]
  BY DEF Kept
<1> SUFFICES /\ \A i \in B : \E k \in 1..(n + 1) : new[i] = <<"output", k>>
             /\ \A k \in 1..(n + 1) : \E i \in B : new[i] = <<"output", k>>
             /\ \A i, j \in B : i < j => new[i][2] < new[j][2]
  BY DEF Kept
<1> HIDE DEF A, B
<1>4. n + 1 \in 1..(n + 1) /\ \A k \in 1..n : k \in 1..(n + 1)
  OBVIOUS
<1>5. ASSUME NEW i \in B PROVE \E k \in 1..(n + 1) : new[i] = <<"output", k>>
  <2>1. CASE i = at
    BY <1>4, <2>1
  <2>2. CASE i \in A /\ new[i] = old[i]
    <3>1. PICK k \in 1..n : old[i] = <<"output", k>>
      BY <1>3, <2>2
    <3> QED
      BY <1>4, <2>2, <3>1
  <2> QED
    BY <1>2, <2>1, <2>2
<1>6. ASSUME NEW k \in 1..(n + 1) PROVE \E i \in B : new[i] = <<"output", k>>
  <2>1. CASE k = n + 1
    BY <1>2, <2>1
  <2>2. CASE k \in 1..n
    <3>1. PICK i \in A : old[i] = <<"output", k>>
      BY <1>3, <2>2
    <3> QED
      BY <1>2, <3>1
  <2>3. k = n + 1 \/ k \in 1..n
    OBVIOUS
  <2> QED
    BY <2>1, <2>2, <2>3
<1>7. ASSUME NEW i \in B, NEW j \in B, i < j PROVE new[i][2] < new[j][2]
  <2>1. CASE i \in A /\ j \in A
    BY <1>2, <1>3, <1>7, <2>1
  <2>2. CASE i \in A /\ j = at
    <3>1. PICK k \in 1..n : old[i] = <<"output", k>>
      BY <1>3, <2>2
    <3>2. new[i][2] = k /\ new[j][2] = n + 1
      BY <1>2, <2>2, <3>1
    <3>3. k < n + 1
      OBVIOUS
    <3> QED
      BY <3>2, <3>3
  <2>3. CASE i = at
    <3>1. j \in Nat /\ ~(at < at)
      BY <1>2
    <3>2. j # at => j < at
      BY <1>2
    <3> QED
      BY <1>7, <2>3, <3>1, <3>2
  <2> QED
    BY <1>2, <2>1, <2>2, <2>3
<1> QED
  BY <1>5, <1>6, <1>7

\* A command writes where the cursor is; the renderer counts no frame then.
LEMMA RowWrittenKeeps ==
    ASSUME EditorInv, CommandWrites, output' = output + 1,
           term' = WriteLines(term, << <<"output", output'>> >>)
    PROVE  EditorInv'
<1> DEFINE row == <<"output", output + 1>>
           lines == <<row>>
           rows == term.rows
           cur == term.cur
           u == WriteLines(term, lines)
<1>1. /\ phase = "running" /\ output' = output + 1 /\ term' = u
      /\ UNCHANGED <<phase, session, editing, continued, loading, state, lineVars, lastInput,
                     widgetVars, resized>>
  BY DEF CommandWrites
<1>2. EditorTypeOK /\ term.total = 0 /\ term.at = 0 /\ term \in TermRecord /\ cur <= Len(rows)
  BY <1>1 DEF EditorInv, ScreenInv, EditorTypeOK, Sound
<1>3. output \in Nat /\ cur \in Nat \ {0} /\ rows \in Seq(Row) /\ Len(rows) \in Nat /\ Top(term) = cur
  <2>1. output \in Nat /\ cur \in Nat \ {0} /\ rows \in Seq(Row) /\ Len(rows) \in Nat
    BY <1>2 DEF EditorTypeOK, TermRecord
  <2>2. cur - 0 = cur
    BY <2>1
  <2> QED
    BY <1>2, <2>1, <2>2 DEF Top
<1>4. row \in Row /\ Output(row) /\ ~Leftover(row) /\ lines \in Seq(Row) /\ Len(lines) = 1 /\ lines[1] = row
  <2>1. row \in Row /\ Output(row) /\ ~Leftover(row)
    BY <1>3, RowKinds
  <2> HIDE DEF row
  <2> QED
    BY <2>1
<1> HIDE DEF lines
<1>5. /\ u \in TermRecord /\ u.cur = cur + Len(lines) /\ u.cur <= Len(u.rows)
      /\ u.total = term.total /\ u.at = term.at /\ WrittenAt(u, term, cur, lines)
  BY <1>2, <1>4, WriteLinesStep
<1> HIDE DEF u, row
<1>6. /\ u.cur = cur + 1 /\ u.total = 0 /\ u.at = 0 /\ u.rows \in Seq(Row) /\ Len(u.rows) \in Nat
      /\ cur + 1 <= Len(u.rows) /\ Len(u.rows) >= Len(rows)
  BY <1>2, <1>4, <1>5 DEF TermRecord, WrittenAt
<1>7. ASSUME NEW i \in 1..Len(u.rows)
      PROVE  /\ i < cur => i <= Len(rows) /\ u.rows[i] = rows[i]
             /\ i = cur => u.rows[i] = row
             /\ i > cur => u.rows[i] = Blank \/ (i <= Len(rows) /\ u.rows[i] = rows[i])
  <2>1. u.rows[i] = IF i >= cur /\ i < cur + 1 THEN lines[i - cur + 1]
                    ELSE IF i <= Len(rows) THEN rows[i] ELSE Blank
    BY <1>4, <1>5 DEF WrittenAt
  <2>2. i < cur => ~(i >= cur) /\ i <= Len(rows)
    BY <1>2, <1>3
  <2>3. i = cur => i >= cur /\ i < cur + 1 /\ i - cur + 1 = 1
    BY <1>3
  <2>4. i > cur => ~(i < cur + 1)
    BY <1>3
  <2> QED
    BY <1>4, <2>1, <2>2, <2>3, <2>4
<1>8. OutputAbove(rows, cur) /\ Kept(rows, output)
  BY <1>3, Drawable
<1>9. OutputAbove(u.rows, cur + 1)
  <2> SUFFICES ASSUME NEW i \in 1..Len(u.rows), Output(u.rows[i]) PROVE i < cur + 1
    BY DEF OutputAbove
  <2>1. ~(i > cur)
    <3> SUFFICES ASSUME i > cur PROVE FALSE
      OBVIOUS
    <3>1. i <= Len(rows) /\ u.rows[i] = rows[i]
      BY <1>7, RowKinds
    <3>2. i \in 1..Len(rows) /\ ~(i < cur)
      BY <1>3, <3>1
    <3> QED
      BY <1>8, <3>1, <3>2 DEF OutputAbove
  <2> QED
    BY <1>3, <2>1
<1>10. Kept(u.rows, output + 1)
  <2>1. cur <= Len(u.rows) /\ cur \in 1..Len(u.rows)
    BY <1>3, <1>6
  <2>2. u.rows[cur] = <<"output", output + 1>>
    BY <1>7, <2>1 DEF row
  <2>3. \A i \in 1..Len(u.rows) : i < cur => u.rows[i] = rows[i]
    BY <1>7
  <2> QED
    BY <1>2, <1>3, <1>6, <1>8, <1>9, <2>1, <2>2, <2>3, OutputAdded
<1>11. ASSUME ~resized PROVE NothingLeft(u.rows, cur + 1, cur + 1)
  <2>1. NothingLeft(rows, cur, cur + term.total) /\ cur + term.total = cur
    BY <1>2, <1>3, <1>11, Drawable
  <2> SUFFICES ASSUME NEW i \in 1..Len(u.rows)
      PROVE  /\ i >= cur + 1 => u.rows[i] = Blank
             /\ i < cur + 1 => ~Leftover(u.rows[i])
    BY DEF NothingLeft
  <2>2. ASSUME i < cur PROVE ~Leftover(u.rows[i])
    <3>1. i \in 1..Len(rows) /\ u.rows[i] = rows[i]
      BY <1>3, <1>7, <2>2
    <3> QED
      BY <2>1, <2>2, <3>1 DEF NothingLeft
  <2>3. ASSUME i > cur PROVE u.rows[i] = Blank
    <3>1. i <= Len(rows) => i \in 1..Len(rows) /\ i >= cur /\ i # cur
      BY <1>3, <2>3
    <3> QED
      BY <1>7, <2>1, <2>3, <3>1 DEF NothingLeft
  <2>4. i = cur => ~Leftover(u.rows[i])
    BY <1>4, <1>7
  <2>5. /\ i >= cur + 1 => i > cur
        /\ i < cur + 1 => i < cur \/ i = cur
    BY <1>3
  <2> QED
    BY <2>2, <2>3, <2>4, <2>5
<1>12. Sound(u) /\ Top(u) = cur + 1 /\ cur + 1 + 0 = cur + 1
  <2>1. u.cur - 0 = u.cur /\ cur + 1 + 0 = cur + 1
    BY <1>3, <1>6
  <2> QED
    BY <1>5, <1>6, <2>1 DEF Sound, Top
<1>13. EditorTypeOK'
  <2>1. Sound(term)'
    BY <1>1, <1>12 DEF Sound, Top
  <2>2. output' \in Nat
    BY <1>1, <1>3
  <2> QED
    BY <1>1, <1>2, <2>1, <2>2 DEF EditorTypeOK, lineVars, widgetVars
<1>14. ScreenInv'
  <2>1. term' = u /\ phase' = "running" /\ session' = session /\ resized' = resized
    BY <1>1
  <2>2. resized => session = MaxSessions
    BY DEF EditorInv, ScreenInv
  <2>3. OutputAbove(term.rows, Top(term))'
    BY <1>9, <1>12, <2>1 DEF OutputAbove, Output, Top
  <2>4. (~resized => NothingLeft(term.rows, Top(term), Top(term) + term.total))'
    BY <1>6, <1>11, <1>12, <2>1 DEF NothingLeft, Leftover, Top
  <2> QED
    BY <1>6, <2>1, <2>2, <2>3, <2>4 DEF ScreenInv
<1>15. OutputKept'
  BY <1>1, <1>10 DEF OutputKept, Kept
<1> QED
  BY <1>13, <1>14, <1>15 DEF EditorInv

\* A row without its newline is written where the next frame will begin.
LEMMA UnfinishedKeeps ==
    ASSUME EditorInv, CommandWrites, output' = output, term' = Write(term, Unfinished)
    PROVE  EditorInv'
<1> DEFINE rows == term.rows
           cur == term.cur
           new == [rows EXCEPT ![cur] = Unfinished]
           u == Write(term, Unfinished)
<1>1. /\ phase = "running" /\ output' = output /\ term' = u
      /\ UNCHANGED <<phase, session, editing, continued, loading, state, lineVars, lastInput,
                     widgetVars, resized>>
  BY DEF CommandWrites
<1>2. EditorTypeOK /\ term.total = 0 /\ term.at = 0 /\ term \in TermRecord /\ cur <= Len(rows)
  BY <1>1 DEF EditorInv, ScreenInv, EditorTypeOK, Sound
<1>3. output \in Nat /\ cur \in Nat \ {0} /\ rows \in Seq(Row) /\ Len(rows) \in Nat
  BY <1>2 DEF EditorTypeOK, TermRecord
<1>4. u = [term EXCEPT !.rows = new]
  BY DEF Write
<1>5. new \in Seq(Row) /\ Len(new) = Len(rows) /\ \A i \in 1..Len(new) : new[i] = IF i = cur THEN Unfinished ELSE rows[i]
  <2> DEFINE v == Unfinished
  <2>1. v \in Row /\ cur \in 1..Len(rows)
    BY <1>2, <1>3, RowKinds
  <2> HIDE DEF v, rows, cur
  <2>2. LET w == [rows EXCEPT ![cur] = v]
        IN  w \in Seq(Row) /\ Len(w) = Len(rows) /\ \A i \in 1..Len(w) : w[i] = IF i = cur THEN v ELSE rows[i]
    BY <1>3, <2>1
  <2> QED
    BY <2>2 DEF v, rows, cur
<1> HIDE DEF new
<1>6. /\ u \in TermRecord /\ u.rows = new /\ u.cur = cur /\ u.total = 0 /\ u.at = 0
      /\ Top(u) = cur /\ Top(term) = cur /\ cur + 0 = cur
  <2>1. u \in TermRecord /\ u.rows = new /\ u.cur = cur /\ u.total = 0 /\ u.at = 0
    BY <1>2, <1>4, <1>5 DEF TermRecord
  <2> HIDE DEF u
  <2>2. cur - 0 = cur /\ cur + 0 = cur
    BY <1>3
  <2> QED
    BY <1>2, <2>1, <2>2 DEF Top
<1> HIDE DEF u, rows, cur
<1>7. OutputAbove(rows, cur) /\ Kept(rows, output) /\ (~resized => NothingLeft(rows, cur, cur))
  BY <1>2, <1>6, Drawable DEF rows
<1>8. OutputAbove(new, cur)
  <2> SUFFICES ASSUME NEW i \in 1..Len(new), Output(new[i]) PROVE i < cur
    BY DEF OutputAbove
  <2>1. i # cur
    BY <1>5, RowKinds
  <2>2. i \in 1..Len(rows) /\ Output(rows[i])
    BY <1>5, <2>1
  <2> QED
    BY <1>7, <2>2 DEF OutputAbove
<1>9. Kept(new, output)
  <2>1. cur \in Nat /\ cur <= Len(new) /\ cur <= Len(rows)
    BY <1>2, <1>3, <1>5 DEF rows, cur
  <2>2. \A i \in 1..Len(new) : i < cur => new[i] = rows[i]
    BY <1>5, <2>1
  <2> QED
    BY <1>3, <1>5, <1>7, <1>8, <2>1, <2>2, OutputStays
<1>10. ASSUME ~resized PROVE NothingLeft(new, cur, cur)
  <2> SUFFICES ASSUME NEW i \in 1..Len(new)
      PROVE  /\ i >= cur => new[i] = Blank \/ (i = cur /\ new[i] = Unfinished)
             /\ i < cur => ~Leftover(new[i])
    BY DEF NothingLeft
  <2>1. CASE i = cur
    <3>1. new[i] = Unfinished
      BY <1>5, <2>1
    <3> QED
      BY <2>1, <3>1, RowKinds
  <2>2. CASE i # cur
    <3>1. i \in 1..Len(rows) /\ new[i] = rows[i]
      BY <1>5, <2>2
    <3> QED
      BY <1>7, <1>10, <2>2, <3>1 DEF NothingLeft
  <2> QED
    BY <2>1, <2>2
<1>11. Sound(u)
  <2>1. u.cur <= Len(u.rows)
    BY <1>2, <1>5, <1>6 DEF rows, cur
  <2> QED
    BY <1>6, <2>1 DEF Sound
<1>12. EditorTypeOK'
  <2>1. Sound(term)'
    BY <1>1, <1>11 DEF Sound, Top
  <2> QED
    BY <1>1, <1>2, <2>1 DEF EditorTypeOK, lineVars, widgetVars
<1>13. ScreenInv'
  <2>1. term' = u /\ phase' = "running" /\ session' = session /\ resized' = resized
    BY <1>1
  <2>2. resized => session = MaxSessions
    BY DEF EditorInv, ScreenInv
  <2>3. OutputAbove(term.rows, Top(term))'
    BY <1>6, <1>8, <2>1 DEF OutputAbove, Output, Top
  <2>4. (~resized => NothingLeft(term.rows, Top(term), Top(term) + term.total))'
    BY <1>6, <1>10, <2>1 DEF NothingLeft, Leftover, Top
  <2> QED
    BY <1>6, <2>1, <2>2, <2>3, <2>4 DEF ScreenInv
<1>14. OutputKept'
  BY <1>1, <1>6, <1>9 DEF OutputKept, Kept
<1> QED
  BY <1>12, <1>13, <1>14 DEF EditorInv

LEMMA CommandWritesKeeps == EditorInv /\ CommandWrites => EditorInv'
<1> SUFFICES ASSUME EditorInv, CommandWrites PROVE EditorInv'
  OBVIOUS
<1>1. \/ output' = output + 1 /\ term' = WriteLines(term, << <<"output", output'>> >>)
      \/ output' = output /\ term' = Write(term, Unfinished)
  BY DEF CommandWrites
<1> QED
  BY <1>1, RowWrittenKeeps, UnfinishedKeeps

LEMMA InitKeeps == Init => EditorInv
<1> SUFFICES ASSUME Init PROVE EditorInv
  OBVIOUS
<1>1. /\ phase = "starting" /\ session = 1 /\ editing = TRUE /\ continued = FALSE /\ resized = FALSE
      /\ loading = <<"prompt", "header", "footer">> /\ state = NoState
      /\ frozen = <<>> /\ pendingFreeze = <<>> /\ lastInput = <<>>
      /\ cache = [w \in Widget |-> IF w = "prompt" THEN 1 ELSE 0]
      /\ pending = [w \in Widget |-> {}]
      /\ term = [rows |-> <<Blank>>, cur |-> 1, total |-> 0, at |-> 0]
      /\ output = 0
  BY DEF Init
<1>2. /\ term.rows = <<Blank>> /\ term.cur = 1 /\ term.total = 0 /\ term.at = 0
  BY <1>1
<1> DEFINE rows == <<Blank>>
<1>3. rows \in Seq(Row) /\ Len(rows) = 1 /\ rows[1] = Blank
  <2>1. Blank \in Row
    BY RowKinds
  <2> DEFINE b == Blank
  <2>2. <<b>> \in Seq(Row) /\ Len(<<b>>) = 1 /\ <<b>>[1] = b
    <3>1. b \in Row
      BY <2>1
    <3> HIDE DEF b
    <3> QED
      BY <3>1
  <2> QED
    BY <2>2 DEF b
<1>4. term.rows = rows
  BY <1>2
<1> HIDE DEF rows
<1>5. term \in TermRecord /\ Top(term) = 1
  <2>1. term = [rows |-> rows, cur |-> 1, total |-> 0, at |-> 0]
    BY <1>1 DEF rows
  <2> QED
    BY <1>3, <2>1 DEF TermRecord, Top
<1>6. Sound(term)
  BY <1>2, <1>3, <1>4, <1>5 DEF Sound
<1>7. EditorTypeOK
  <2>1. loading \in Seq(Widget)
    BY <1>1 DEF Widget
  <2>2. cache \in Caches
    BY <1>1 DEF Caches, Widget
  <2>3. state \in StateRecord /\ state.at <= state.lines
    BY <1>1 DEF NoState, StateRecord
  <2>4. frozen \in Seq(InputRow) /\ pendingFreeze \in Seq(InputRow) /\ lastInput \in Seq(InputRow)
    BY <1>1, EmptySeq
  <2>5. pending \in [Widget -> SUBSET Nat] /\ \A w \in Widget : pending[w] \subseteq Rows[w]
    BY <1>1
  <2>6. phase \in {"starting", "on", "running"} /\ phase # "on" /\ phase # "running"
    BY <1>1
  <2>7. /\ session \in Nat \ {0} /\ editing = (phase # "running") /\ continued \in BOOLEAN
        /\ output \in Nat /\ resized \in BOOLEAN
    <3>1. session \in Nat \ {0} /\ output \in Nat
      BY <1>1
    <3>2. continued \in BOOLEAN /\ resized \in BOOLEAN /\ editing = TRUE
      BY <1>1
    <3>3. (phase # "running") = TRUE
      BY <2>6, Zenon
    <3> QED
      BY <3>1, <3>2, <3>3, Zenon
  <2> QED
    BY <1>6, <2>1, <2>2, <2>3, <2>4, <2>5, <2>6, <2>7 DEF EditorTypeOK
<1>8. \A i \in 1..Len(rows) : rows[i] = Blank /\ ~Output(rows[i]) /\ ~Leftover(rows[i])
  BY <1>3, RowKinds
<1>9. ScreenInv
  <2>1. OutputAbove(term.rows, Top(term))
    BY <1>4, <1>8 DEF OutputAbove
  <2>2. NothingLeft(term.rows, Top(term), Top(term) + term.total)
    BY <1>4, <1>8 DEF NothingLeft
  <2> QED
    BY <1>1, <2>1, <2>2 DEF ScreenInv
<1>10. OutputKept
  <2>1. \A i \in DOMAIN rows : ~Output(rows[i])
    BY <1>3, <1>8
  <2> QED
    BY <1>1, <1>4, <2>1 DEF OutputKept
<1> QED
  BY <1>7, <1>9, <1>10 DEF EditorInv

LEMMA NextKeeps == EditorInv /\ [Next]_vars => EditorInv'
<1> SUFFICES ASSUME EditorInv, [Next]_vars PROVE EditorInv'
  OBVIOUS
<1>1. CASE Refreshed
  BY <1>1, RefreshedKeeps
<1>2. CASE FirstRender
  BY <1>2, FirstRenderKeeps
<1>3. CASE KeyRender
  BY <1>3, KeyRenderKeeps
<1>4. CASE Resize
  BY <1>4, ResizeKeeps
<1>5. CASE LineOver
  BY <1>5, LineOverKeeps
<1>6. CASE LineIncomplete
  BY <1>6, LineIncompleteKeeps
<1>7. CASE LineRuns
  BY <1>7, LineRunsKeeps
<1>8. CASE CommandWrites
  BY <1>8, CommandWritesKeeps
<1>9. CASE CommandEnds
  BY <1>9, CommandEndsKeeps
<1>10. ASSUME NEW w \in Widget, UpdateWidget(w) PROVE EditorInv'
  BY <1>10, UpdateWidgetKeeps
<1>11. ASSUME NEW w \in Widget, UpdateArrives(w) PROVE EditorInv'
  BY <1>11, UpdateArrivesKeeps
<1>12. CASE UNCHANGED vars
  BY <1>12 DEF vars, EditorInv, EditorTypeOK, ScreenInv, OutputKept, Sound, Top
<1> QED
  BY <1>1, <1>2, <1>3, <1>4, <1>5, <1>6, <1>7, <1>8, <1>9, <1>10, <1>11, <1>12 DEF Next

-----------------------------------------------------------------------------
(* The theorems.                                                           *)

\* Everything the renderer believes of the screen is so: the frame it counts from is where
\* it thinks, no output is below its top, and until the window changes its size no row of a
\* widget or a menu is above it and nothing below it.
THEOREM EditorInvariant == Spec => []EditorInv
BY InitKeeps, NextKeeps, PTL DEF Spec

\* While a line is edited the screen shows the frame of the buffer and of what the widgets
\* have last delivered, whatever was drawn, cleared, delivered or written before.
THEOREM ScreenShowsFrame == Spec => []ScreenIsFrame
<1>1. EditorInv => ScreenIsFrame
  <2> SUFFICES ASSUME EditorInv, phase = "on" PROVE ScreenIsFrame
    BY DEF ScreenIsFrame
  <2> DEFINE frame == Frame(state, cache, continued, frozen)
             row == CursorRow(state, cache, continued, frozen)
             rows == term.rows
             top == term.cur - row
             bottom == top + Len(frame) - 1
  <2>1. /\ term.total = Len(frame) /\ Shows(term, frame) /\ term.at = row
        /\ ~resized => NothingLeft(rows, Top(term), Top(term) + term.total)
    BY DEF EditorInv, ScreenInv
  <2>2. /\ frame \in Seq(Row) /\ Len(frame) \in Nat \ {0} /\ row \in 0..(Len(frame) - 1)
    BY FrameType DEF EditorInv, EditorTypeOK
  <2>3. Sound(term) /\ Top(term) = top
    BY <2>1 DEF EditorInv, EditorTypeOK, Top
  <2>4. /\ rows \in Seq(Row) /\ Len(rows) \in Nat /\ term.cur \in Nat \ {0} /\ term.at < term.cur
        /\ Top(term) + term.total - 1 <= Len(rows)
    BY <2>1, <2>2, <2>3 DEF Sound, TermRecord
  <2> HIDE DEF frame, row, rows
  <2>5. top \in Nat \ {0}
    BY <2>1, <2>2, <2>4
  <2> HIDE DEF top
  <2>6. top >= 1 /\ bottom <= Len(rows) /\ bottom \in Nat /\ bottom - top + 1 = Len(frame) /\ top <= bottom + 1
    <3>1. top + Len(frame) - 1 <= Len(rows)
      BY <2>1, <2>3, <2>4
    <3> QED
      BY <2>2, <2>4, <2>5, <3>1
  <2>7. SubSeq(rows, top, bottom) = frame
    <3> DEFINE shown == SubSeq(rows, top, bottom)
    <3>1. /\ shown \in Seq(Row) /\ Len(shown) = Len(frame)
          /\ \A i \in 1..Len(frame) : shown[i] = rows[top + i - 1]
      <4> HIDE DEF bottom
      <4>1. top \in 1..(Len(rows) + 1) /\ bottom \in (top - 1)..Len(rows)
        BY <2>4, <2>5, <2>6
      <4> QED
        BY <2>4, <2>6, <4>1, SubSeqProperties
    <3> HIDE DEF shown
    <3>2. \A i \in 1..Len(frame) : shown[i] = frame[i]
      BY <2>1, <2>3, <3>1 DEF Shows, rows
    <3>3. shown = frame
      BY <2>2, <3>1, <3>2, SeqEqual
    <3> QED
      BY <3>3 DEF shown
  <2>8. ASSUME ~resized
        PROVE  /\ \A i \in (bottom + 1)..Len(rows) : rows[i] = Blank
               /\ \A i \in 1..(top - 1) : ~Leftover(rows[i])
    <3>1. NothingLeft(rows, top, top + Len(frame))
      BY <2>1, <2>3, <2>8
    <3>2. \A i \in (bottom + 1)..Len(rows) : i \in 1..Len(rows) /\ i >= top + Len(frame) /\ i # top
      BY <2>2, <2>4, <2>5
    <3>3. \A i \in 1..(top - 1) : i \in 1..Len(rows) /\ i < top
      <4> HIDE DEF bottom
      <4>1. top <= Len(rows) + 1
        BY <2>4, <2>5, <2>6
      <4> QED
        BY <2>4, <2>5, <4>1
    <3> QED
      BY <3>1, <3>2, <3>3 DEF NothingLeft
  <2> QED
    BY <2>6, <2>7, <2>8 DEF ScreenIsFrame, frame, row, rows, top
<1> QED
  BY <1>1, EditorInvariant, PTL

\* Every row a command has ended with a newline stays on the screen, in the order written;
\* a row left without its newline may be drawn over or erased, but takes none of the others
\* with it.
THEOREM OutputStaysOnScreen == Spec => []OutputKept
<1>1. EditorInv => OutputKept
  BY DEF EditorInv
<1> QED
  BY <1>1, EditorInvariant, PTL

=============================================================================
