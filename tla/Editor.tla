-------------------------------- MODULE Editor --------------------------------
(***************************************************************************)
(* The screen of the line editor: the frames of src/src/terminal/index.ts, *)
(* the escape sequences src/src/terminal/renderer.ts writes for them, the  *)
(* widgets of src/src/terminal/widgets.ts whose content arrives when it    *)
(* likes, and the prompt of src/src/repl/index.ts that starts a session    *)
(* per line and prints commands' output in between.                        *)
(*                                                                         *)
(* The engine that reads the keys is external: it calls onRender after     *)
(* every key and onLine at the end.  A row of the screen is one value, a   *)
(* frame is assumed to fit on the screen, and rows that have scrolled out  *)
(* are kept, so that it can be seen whether they are what they should be.  *)
(* A widget's content is its number of rows.                               *)
(***************************************************************************)
EXTENDS Integers, FiniteSets, Functions, SequencesExt

CONSTANTS
    Rows,        \* widget -> the numbers of rows it may have
    MaxBuf,      \* bound on the lines of the edit buffer
    MaxSessions, \* bound on the edit sessions; the window changes its size in the last one
    MaxOutput,   \* bound on the rows commands end
    MaxUpdates   \* bound on the updates of widgets that have not arrived

Widget == {"header", "prompt", "footer"}
ASSUME EditorAssumption ==
    /\ Rows \in [Widget -> SUBSET Nat] /\ 0 \notin Rows["prompt"]
    /\ MaxBuf \in Nat \ {0} /\ MaxSessions \in Nat /\ MaxOutput \in Nat
    /\ MaxUpdates \in Nat

VARIABLES
    phase,     \* "starting" a session, "on" or "running" a command
    session,   \* the number of the session
    editing,   \* editing
    continued, \* isContinuation
    loading,   \* the zones start has still to refresh, the first one awaited
    state,     \* lastState, with the session it comes from
    frozen, pendingFreeze, lastInput,   \* the rendered lines Terminal keeps
    cache,     \* widget -> its content
    pending,   \* widget -> the contents of updates that have not arrived
    term,      \* the screen, its cursor, and the renderer's total and cursor row
    output,    \* number of rows commands have written to their end
    resized    \* the window has changed its size, once

vars == <<phase, session, editing, continued, loading, state, frozen, pendingFreeze,
          lastInput, cache, pending, term, output, resized>>
widgetVars == <<cache, pending>>
lineVars == <<frozen, pendingFreeze>>

Blank == <<"blank">>
Unfinished == <<"unfinished">>   \* a row of output without its newline
NoState == [from |-> 0, lines |-> 1, at |-> 1, menu |-> 0]

-----------------------------------------------------------------------------
(* The terminal: what the escape sequences do.                             *)

Up(t, n) == [t EXCEPT !.cur = Max({1, t.cur - n})]
Down(t, n) == [t EXCEPT !.cur = Min({t.cur + n, Len(t.rows)})]

\* A newline on the last row adds a row.
Grown(rows, n) == [i \in 1..Max({n, Len(rows)}) |-> IF i <= Len(rows) THEN rows[i] ELSE Blank]
NewLines(t, n) == [t EXCEPT !.rows = Grown(t.rows, t.cur + n), !.cur = t.cur + n]
NewLine(t) == NewLines(t, 1)
Write(t, row) == [t EXCEPT !.rows = [t.rows EXCEPT ![t.cur] = row]]

\* Rows over what is there, each with a newline.
Over(rows, top, lines) ==
    [i \in DOMAIN rows |-> IF i \in top..(top + Len(lines) - 1) THEN lines[i - top + 1] ELSE rows[i]]
WriteLines(t, lines) ==
    LET u == NewLines(t, Len(lines)) IN [u EXCEPT !.rows = Over(u.rows, t.cur, lines)]
Erased(rows, first, last) == [i \in DOMAIN rows |-> IF i \in first..last THEN Blank ELSE rows[i]]
EraseBelow(t) == [t EXCEPT !.rows = Erased(t.rows, t.cur, Len(t.rows))]

-----------------------------------------------------------------------------
(* renderer.ts                                                             *)

Reset(t) == [t EXCEPT !.total = 0, !.at = 0]

\* Room for a first frame, or for a frame that grew.
Reserve(t, n) ==
    LET extra == n - t.total
        toBottom == t.total - 1 - t.at
    IN  IF t.total = 0 THEN Up(NewLines(t, n - 1), n - 1)
        ELSE IF extra > 0 THEN Up(NewLines(Down(t, toBottom), extra), extra + toBottom)
        ELSE t

\* Every line of the frame over what is there, from its top on.
Draw(t, lines) ==
    LET top == Up(t, t.at)
        front == WriteLines(top, Front(lines))
    IN  Write(front, Last(lines))

\* The rows a taller frame left below.
EraseRest(t, n) ==
    LET extra == t.total - n
    IN  IF extra <= 0 THEN t
        ELSE LET u == NewLines(t, extra)
             IN  Up([u EXCEPT !.rows = Erased(u.rows, t.cur + 1, t.cur + extra)], extra)

Render(t, lines, at) ==
    LET n == Len(lines)
    IN  [Up(EraseRest(Draw(Reserve(t, n), lines), n), n - 1 - at) EXCEPT !.total = n, !.at = at]

-----------------------------------------------------------------------------
(* Terminal: frames.                                                       *)

\* The rows of the prompt above its last line; the continuation prompt has one line.
PromptRows(c, cont) == IF cont THEN <<>> ELSE [i \in 1..(c["prompt"] - 1) |-> <<"prompt", c["prompt"]>>]
InputLines(s, c, cont) == PromptRows(c, cont) \o [i \in 1..s.lines |-> <<"input", s.from, i>>]
Zone(c, w) == [i \in 1..c[w] |-> <<w, c[w]>>]

Frame(s, c, cont, old) ==
    Zone(c, "header") \o old \o InputLines(s, c, cont)
        \o [i \in 1..s.menu |-> <<"menu">>] \o Zone(c, "footer")
CursorRow(s, c, cont, old) ==
    c["header"] + Len(old) + Len(PromptRows(c, cont)) + s.at - 1

RenderFrame(t, s, c) ==
    /\ term' = Render(t, Frame(s, c, continued, frozen), CursorRow(s, c, continued, frozen))
    /\ lastInput' = InputLines(s, c, continued)

\* Fault: the renderer goes on counting from the frame that was cleared.
ClearFrameCounts(t, content) ==
    IF t.total > 1 \/ Len(content) > 1
    THEN WriteLines(EraseBelow(Up(t, t.at)), content)
    ELSE NewLine(t)

\* clearFrame: only the lines of the input stay, and the cursor is below them.
ClearFrame(t, content) ==
    Reset(IF t.total > 1 \/ Len(content) > 1
          THEN WriteLines(EraseBelow(Up(t, t.at)), content)
          ELSE NewLine(t))

\* Fault: the renderer forgets the frame a continuation is to be drawn over.
BeginForgets(cont, t, freeze) ==
    /\ phase' = "starting" /\ session' = session + 1 /\ editing' = TRUE
    /\ continued' = cont
    /\ frozen' = IF cont THEN frozen \o freeze ELSE <<>>
    /\ pendingFreeze' = <<>>
    /\ loading' = IF cont THEN <<"header", "footer">> ELSE <<"prompt", "header", "footer">>
    /\ term' = Reset(t)

\* start, up to its first await; a continuation is drawn over the frame before it.
Begin(cont, t, freeze) ==
    /\ phase' = "starting" /\ session' = session + 1 /\ editing' = TRUE
    /\ continued' = cont
    /\ frozen' = IF cont THEN frozen \o freeze ELSE <<>>
    /\ pendingFreeze' = <<>>
    /\ loading' = IF cont THEN <<"header", "footer">> ELSE <<"prompt", "header", "footer">>
    /\ term' = IF cont THEN t ELSE Reset(t)

\* refreshZone of the zone that is awaited; after the last one the engine is started.
Refreshed ==
    /\ phase = "starting" /\ loading # <<>>
    /\ \E v \in Rows[Head(loading)] : cache' = [cache EXCEPT ![Head(loading)] = v]
    /\ loading' = Tail(loading)
    /\ UNCHANGED <<phase, session, editing, continued, state, lineVars, lastInput, pending, term,
                   output, resized>>

States == {s \in [from : {session}, lines : 1..MaxBuf, at : 1..MaxBuf, menu : 0..1] : s.at <= s.lines}

\* onRender for the first time: the empty buffer.
FirstRender ==
    /\ phase = "starting" /\ loading = <<>>
    /\ phase' = "on"
    /\ state' = [NoState EXCEPT !.from = session]
    /\ RenderFrame(term, state', cache)
    /\ UNCHANGED <<session, editing, continued, loading, lineVars, widgetVars, output, resized>>

\* onRender after a key.
KeyRender ==
    /\ phase = "on"
    /\ state' \in States \ {state}
    /\ RenderFrame(term, state', cache)
    /\ UNCHANGED <<phase, session, editing, continued, loading, lineVars, widgetVars, output, resized>>

\* WidgetHandle.update: nothing unless a session is being edited.
UpdateWidget(w) ==
    /\ editing /\ SumFunction([x \in Widget |-> Cardinality(pending[x])]) < MaxUpdates
    /\ \E v \in Rows[w] \ pending[w] : pending' = [pending EXCEPT ![w] = @ \cup {v}]
    /\ UNCHANGED <<phase, session, editing, continued, loading, state, lineVars, lastInput, cache,
                   term, output, resized>>

\* Its content arrives, in any order: repaint if it changed.
UpdateArrives(w) ==
    /\ \E v \in pending[w] :
           /\ pending' = [pending EXCEPT ![w] = @ \ {v}]
           /\ cache' = [cache EXCEPT ![w] = v]
    /\ IF cache' # cache /\ editing /\ state # NoState THEN RenderFrame(term, state, cache')
       ELSE UNCHANGED <<term, lastInput>>
    /\ UNCHANGED <<phase, session, editing, continued, loading, state, lineVars, output, resized>>

\* onWindowResize: the renderer starts anew where the cursor is.
Resize ==
    /\ editing /\ state # NoState /\ ~resized /\ session = MaxSessions
    /\ resized' = TRUE
    /\ RenderFrame(Reset(term), state, cache)
    /\ UNCHANGED <<phase, session, editing, continued, loading, state, lineVars, widgetVars, output>>

-----------------------------------------------------------------------------
(* onLine, and what promptLoop does with the line.                         *)

Content == frozen \o lastInput

\* An empty line, an interrupt, a line that is wrong: the next prompt.
LineOver ==
    /\ phase = "on" /\ session < MaxSessions
    /\ Begin(FALSE, ClearFrame(term, Content), <<>>)
    /\ UNCHANGED <<state, lastInput, widgetVars, output, resized>>

\* The command is not complete: its lines are frozen.
LineIncomplete ==
    /\ phase = "on" /\ session < MaxSessions
    /\ Begin(TRUE, term, lastInput)
    /\ UNCHANGED <<state, lastInput, widgetVars, output, resized>>

LineRuns ==
    /\ phase = "on"
    /\ phase' = "running" /\ editing' = FALSE
    /\ pendingFreeze' = lastInput
    /\ term' = ClearFrame(term, Content)
    /\ UNCHANGED <<session, continued, loading, state, frozen, lastInput, widgetVars, output, resized>>

\* The command ends the row the cursor is on, or leaves it without a newline.
CommandWrites ==
    /\ phase = "running" /\ output < MaxOutput
    /\ \/ /\ output' = output + 1
          /\ term' = WriteLines(term, << <<"output", output'>> >>)
       \/ /\ output' = output
          /\ term' = Write(term, Unfinished)
    /\ UNCHANGED <<phase, session, editing, continued, loading, state, lineVars, lastInput, widgetVars,
                   resized>>

\* execute returned, threw (the frame is cleared once more), or threw IncompleteInputError.
CommandEnds ==
    /\ phase = "running" /\ session < MaxSessions
    /\ \/ Begin(FALSE, term, <<>>)
       \/ Begin(FALSE, ClearFrame(term, frozen \o pendingFreeze), <<>>)
       \/ Begin(TRUE, term, pendingFreeze)
    /\ UNCHANGED <<state, lastInput, widgetVars, output, resized>>

-----------------------------------------------------------------------------
Init ==
    /\ phase = "starting" /\ session = 1 /\ editing = TRUE /\ continued = FALSE /\ resized = FALSE
    /\ loading = <<"prompt", "header", "footer">>
    /\ state = NoState
    /\ frozen = <<>> /\ pendingFreeze = <<>> /\ lastInput = <<>>
    /\ cache = [w \in Widget |-> IF w = "prompt" THEN 1 ELSE 0]
    /\ pending = [w \in Widget |-> {}]
    /\ term = [rows |-> <<Blank>>, cur |-> 1, total |-> 0, at |-> 0]
    /\ output = 0

Next ==
    \/ Refreshed \/ FirstRender \/ KeyRender \/ Resize
    \/ LineOver \/ LineIncomplete \/ LineRuns \/ CommandWrites \/ CommandEnds
    \/ \E w \in Widget : UpdateWidget(w) \/ UpdateArrives(w)

Spec == Init /\ [][Next]_vars

-----------------------------------------------------------------------------
(* While a line is edited the screen shows the frame of the buffer and of   *)
(* what the widgets have last delivered, the cursor on its line; and, as    *)
(* long as the window keeps its size, nothing of an earlier frame is left   *)
(* below it, nor anything but prompts, input and output above it.           *)
Leftover(row) == row[1] \in {"header", "footer", "menu"}
ScreenIsFrame ==
    phase = "on" =>
        LET frame == Frame(state, cache, continued, frozen)
            top == term.cur - CursorRow(state, cache, continued, frozen)
            bottom == top + Len(frame) - 1
        IN  /\ top >= 1 /\ bottom <= Len(term.rows)
            /\ SubSeq(term.rows, top, bottom) = frame
            /\ ~resized => /\ \A i \in (bottom + 1)..Len(term.rows) : term.rows[i] = Blank
                           /\ \A i \in 1..(top - 1) : ~Leftover(term.rows[i])

(* Every row a command has ended with a newline stays on the screen, in the *)
(* order written: no frame that grows, shrinks, is cleared or drawn again   *)
(* goes over it.  A row left without its newline is lost: the next prompt   *)
(* is drawn over it (renderer.ts:59-64), and a command that throws has it   *)
(* erased (terminal/index.ts:341).  What a job in the background writes     *)
(* while a line is edited is not in the model.                              *)
Output(row) == row[1] = "output"
OutputKept ==
    LET rows == term.rows
        kept == {i \in DOMAIN rows : Output(rows[i])}
    IN  /\ \A i \in kept : \E k \in 1..output : rows[i] = <<"output", k>>
        /\ \A k \in 1..output : \E i \in kept : rows[i] = <<"output", k>>
        /\ \A i, j \in kept : i < j => rows[i][2] < rows[j][2]

=============================================================================
