------------------------------- MODULE Bridge -------------------------------
(***************************************************************************)
(* The bridge to the MasterBandit terminal: the handshake over the tty     *)
(* (src/src/mb/handshake.ts, wired in src/src/repl/index.ts and flushed by *)
(* src/src/terminal/index.ts), the WebSocket client (src/src/mb/client.ts) *)
(* and the applet at its other end (src/mb-applet/src/applet.ts).          *)
(*                                                                         *)
(* Queries leave and answers arrive only in an edit session; an answer     *)
(* that comes while a command runs is read by the command.  The applet may *)
(* be reloaded or unloaded, the terminal may go, a nonce may expire and a  *)
(* connection may break: MaxFaults of these.  Timers may fire at any time, *)
(* except that of the handshake, which the terminal beats when it was      *)
(* asked and can answer.                                                   *)
(*                                                                         *)
(* A call is one of the API's promises; its request id is the call itself, *)
(* since nextReqId is never reset.  An applet's port and token are the     *)
(* number of its load.                                                     *)
(***************************************************************************)
EXTENDS Integers, SequencesExt

CONSTANTS
    Call,       \* the calls of the API that are made
    CanLoad,    \* appletPath: the shell has an applet to load
    MaxFaults   \* bound on what goes wrong

ASSUME BridgeAssumption == IsFiniteSet(Call) /\ CanLoad \in BOOLEAN /\ MaxFaults \in Nat

VARIABLES
    session,   \* "editing" or "running" a command
    rawQueue,  \* pendingRawWrite
    asked,     \* queries the terminal has not looked at yet
    answers,   \* its answers, not read yet
    hs,        \* the listener of startHandshake
    first,     \* firstHandshake
    applet,    \* the number of the loaded applet, 0 when there is none
    loads,     \* applets loaded so far
    terminal,  \* "mb", "other" or "gone"
    nonces,    \* pendingPanes of the applet
    faults,
    link,      \* where the client is
    creds,     \* what it connects with
    ready,     \* its ready
    attempts,  \* reconnectAttempts, up to 2
    api,       \* mbApi: "pending" until connectMb settles, then "live" or "null"
    conn,      \* the connection at the applet's end, with the nonce of its hello
    toApplet, toShell,   \* the frames on the way
    call,      \* the promises of the API
    handle     \* the PopupHandles

ttyVars    == <<session, rawQueue, asked, answers>>
hsVars     == <<hs, first>>
appletVars == <<applet, loads, terminal, nonces>>
clientVars == <<link, creds, ready, attempts, api>>
connVars   == <<conn, toApplet, toShell>>
userVars   == <<call, handle>>
vars == <<ttyVars, hsVars, appletVars, faults, clientVars, connVars, userVars>>

None == [load |-> 0, nonce |-> 0]
Op == {"createPopup", "ask"}     \* "ask": every request that only wants an answer
NoConn == [number |-> 0, nonce |-> 0, open |-> FALSE, pane |-> FALSE, popups |-> {}, counter |-> 0]
NoHandle == [id |-> 0, conn |-> 0, open |-> FALSE]

-----------------------------------------------------------------------------
(* The edit session.                                                       *)

\* start: raw mode, then the flush of what was queued.
StartEdit ==
    /\ session = "running"
    /\ session' = "editing"
    /\ asked' = asked \o rawQueue
    /\ rawQueue' = <<>>
    /\ UNCHANGED <<answers, hsVars, appletVars, faults, clientVars, connVars, userVars>>

\* onLine, and the command runs.
SubmitLine ==
    /\ session = "editing"
    /\ session' = "running"
    /\ UNCHANGED <<rawQueue, asked, answers, hsVars, appletVars, faults, clientVars, connVars, userVars>>

-----------------------------------------------------------------------------
(* getCreds and startHandshake.                                            *)

NextNonce == hs.nonce + 1

\* A fresh nonce and listener, and the first queries; only the first one loads the applet.
GetCreds ==
    LET load == first /\ CanLoad
    IN  /\ hs' = [open |-> TRUE, stage |-> IF load THEN "load" ELSE "handshake", nonce |-> NextNonce]
        /\ first' = FALSE
        /\ rawQueue' = Append(rawQueue, [kind |-> IF load THEN "load" ELSE "probe", nonce |-> NextNonce])

\* Fault: a handshake without an answer is forgotten.
ResolveForgets(result) ==
    /\ hs' = [hs EXCEPT !.open = FALSE]
    /\ creds' = result
    /\ link' = IF result # None THEN "connecting" ELSE link
    /\ api' = IF link = "absent" /\ result = None THEN "null" ELSE api
    /\ UNCHANGED <<ready, attempts>>

\* resolveOnce, and what runs when the promise does: the first result creates the client.
Resolve(result) ==
    /\ hs' = [hs EXCEPT !.open = FALSE]
    /\ creds' = result
    /\ link' = IF result # None THEN "connecting"
               ELSE IF link = "absent" THEN "absent" ELSE "givenUp"
    /\ api' = IF link = "absent" /\ result = None THEN "null" ELSE api
    /\ UNCHANGED <<ready, attempts>>

\* No answer in time: none was asked for yet, or none is on the way.
HandshakeTimeout ==
    /\ hs.open
    /\ asked = <<>> /\ answers = <<>>
    /\ Resolve(None)
    /\ UNCHANGED <<first, ttyVars, appletVars, faults, connVars, userVars>>

\* The listener's handle, in an edit session.
Hear(answer) ==
    CASE ~hs.open -> UNCHANGED <<hs, clientVars, asked>>
      [] hs.open /\ hs.stage = "load" /\ answer.kind = "loaded" ->
             /\ hs' = [hs EXCEPT !.stage = "handshake"]
             /\ asked' = Append(asked, [kind |-> "probe", nonce |-> hs.nonce])
             /\ UNCHANGED clientVars
      [] hs.open /\ answer.kind \in (IF hs.stage = "load" THEN {"refused", "notMb"} ELSE {"notMb"}) ->
             Resolve(None) /\ UNCHANGED asked
      [] hs.open /\ answer.kind = "announce" ->
             Resolve([load |-> answer.load, nonce |-> hs.nonce]) /\ UNCHANGED asked
      [] OTHER -> UNCHANGED <<hs, clientVars, asked>>

HearAnswer ==
    /\ session = "editing" /\ answers # <<>>
    /\ answers' = Tail(answers)
    /\ Hear(Head(answers))
    /\ UNCHANGED <<session, rawQueue, first, appletVars, faults, connVars, userVars>>

\* A command that runs reads the answer instead.
AnswerStolen ==
    /\ session = "running" /\ answers # <<>>
    /\ answers' = Tail(answers)
    /\ UNCHANGED <<session, rawQueue, asked, hsVars, appletVars, faults, clientVars, connVars, userVars>>

-----------------------------------------------------------------------------
(* The terminal (external) and the applet's osc:58300 handler.             *)

Load == /\ applet' = IF applet = 0 THEN loads + 1 ELSE applet
        /\ loads' = IF applet = 0 THEN loads + 1 ELSE loads

TerminalAnswers ==
    /\ asked # <<>>
    /\ asked' = Tail(asked)
    /\ LET query == Head(asked)
       IN  \/ /\ query.kind = "load" /\ terminal = "mb"
              /\ \/ Load /\ answers' = Append(answers, [kind |-> "loaded", load |-> 0])
                 \/ answers' = Append(answers, [kind |-> "refused", load |-> 0]) /\ UNCHANGED <<applet, loads>>
              /\ UNCHANGED nonces
           \/ /\ query.kind = "probe" /\ terminal = "mb" /\ applet # 0
              /\ nonces' = nonces \cup {query.nonce}
              /\ answers' = answers \o <<[kind |-> "isMb", load |-> 0], [kind |-> "announce", load |-> applet]>>
              /\ UNCHANGED <<applet, loads>>
           \/ /\ query.kind = "probe" /\ terminal = "mb" /\ applet = 0
              /\ answers' = Append(answers, [kind |-> "isMb", load |-> 0])
              /\ UNCHANGED <<applet, loads, nonces>>
           \/ /\ query.kind = "probe" /\ terminal = "other"
              /\ answers' = Append(answers, [kind |-> "notMb", load |-> 0])
              /\ UNCHANGED <<applet, loads, nonces>>
           \/ /\ terminal = "gone" \/ (query.kind = "load" /\ terminal = "other")
              /\ UNCHANGED <<answers, applet, loads, nonces>>
    /\ UNCHANGED <<session, rawQueue, hsVars, terminal, faults, clientVars, connVars, userVars>>

Fault == faults < MaxFaults /\ faults' = faults + 1

\* The connection's "close" at the applet: its popups are closed.
Broken == [conn EXCEPT !.open = FALSE, !.popups = {}]

\* The applet is reloaded (new port, no nonces), unloaded, or gone with the terminal.
AppletLost ==
    /\ Fault /\ applet # 0
    /\ \/ applet' = loads + 1 /\ loads' = loads + 1 /\ UNCHANGED terminal
       \/ applet' = 0 /\ terminal' \in {terminal, "gone"} /\ UNCHANGED loads
    /\ nonces' = {}
    /\ conn' = Broken
    /\ UNCHANGED <<ttyVars, hsVars, clientVars, toApplet, toShell, userVars>>

NonceExpires(n) ==
    /\ Fault /\ n \in nonces
    /\ nonces' = nonces \ {n}
    /\ UNCHANGED <<ttyVars, hsVars, applet, loads, terminal, clientVars, connVars, userVars>>

ConnectionBreaks ==
    /\ Fault /\ conn.open
    /\ conn' = Broken
    /\ UNCHANGED <<ttyVars, hsVars, appletVars, clientVars, toApplet, toShell, userVars>>

-----------------------------------------------------------------------------
(* The applet's end of the connection.                                     *)

AppletHello(frame) ==
    IF frame.nonce \in nonces
    THEN /\ nonces' = nonces \ {frame.nonce}
         /\ conn' = [conn EXCEPT !.pane = TRUE]
         /\ toShell' = Append(toShell, [type |-> "ready"])
    ELSE /\ conn' = Broken
         /\ UNCHANGED <<nonces, toShell>>

\* createPopup may be refused; the other requests are answered or fail.
AppletRequest(frame) ==
    /\ UNCHANGED nonces
    /\ \/ /\ frame.op = "createPopup"
          /\ conn' = [conn EXCEPT !.counter = @ + 1, !.popups = @ \cup {conn.counter + 1}]
          /\ toShell' = Append(toShell, [type |-> "result", call |-> frame.call, id |-> conn.counter + 1])
       \/ /\ frame.op = "ask"
          /\ toShell' = Append(toShell, [type |-> "result", call |-> frame.call, id |-> 0])
          /\ UNCHANGED conn
       \/ /\ toShell' = Append(toShell, [type |-> "error", call |-> frame.call])
          /\ conn' = IF frame.op = "createPopup" THEN [conn EXCEPT !.counter = @ + 1] ELSE conn

Destroy(id) ==
    /\ conn' = [conn EXCEPT !.popups = @ \ {id}]
    /\ toShell' = Append(toShell, [type |-> "popupClosed", id |-> id])

AppletHandles ==
    /\ conn.open /\ toApplet # <<>>
    /\ toApplet' = Tail(toApplet)
    /\ LET frame == Head(toApplet)
       IN  \/ frame.type = "hello" /\ AppletHello(frame)
           \/ frame.type = "request" /\ conn.pane /\ AppletRequest(frame)
           \/ /\ frame.type = "closePopup" /\ UNCHANGED nonces
              /\ IF frame.id \in conn.popups THEN Destroy(frame.id) ELSE UNCHANGED <<conn, toShell>>
    /\ UNCHANGED <<ttyVars, hsVars, applet, loads, terminal, faults, clientVars, userVars>>

\* The user of the terminal closes a popup.
PopupDestroyed(id) ==
    /\ conn.open /\ id \in conn.popups
    /\ Destroy(id)
    /\ UNCHANGED <<ttyVars, hsVars, appletVars, faults, clientVars, toApplet, userVars>>

-----------------------------------------------------------------------------
(* The client.                                                             *)

\* Fault: the credentials of the connection that closed are used again.
BackoffKeepsCreds ==
    /\ link = "backoff"
    /\ link' = "connecting"
    /\ UNCHANGED <<ttyVars, hsVars, appletVars, faults, creds, ready, attempts, api, connVars, userVars>>

\* The first handshake is started by startRepl.
BackoffOver ==
    /\ link = "backoff"
    /\ link' = "handshaking"
    /\ IF hs.open THEN UNCHANGED <<hs, first, rawQueue>> ELSE GetCreds
    /\ UNCHANGED <<session, asked, answers, appletVars, faults, creds, ready, attempts, api, connVars, userVars>>

\* "open": the first frame is hello.
Connected ==
    /\ link = "connecting" /\ creds.load = applet
    /\ link' = "open"
    /\ conn' = [NoConn EXCEPT !.number = conn.number + 1, !.nonce = creds.nonce, !.open = TRUE]
    /\ toApplet' = <<[type |-> "hello", nonce |-> creds.nonce]>>
    /\ toShell' = <<>>
    /\ UNCHANGED <<ttyVars, hsVars, appletVars, faults, creds, ready, attempts, api, userVars>>

\* Fault: a connection that is refused is not tried again.
ConnectFailsStays ==
    /\ link = "connecting" /\ creds.load # applet
    /\ api' = IF attempts = 0 /\ api = "pending" THEN "null" ELSE api
    /\ attempts' = Min({2, attempts + 1})
    /\ UNCHANGED <<ttyVars, hsVars, appletVars, faults, link, creds, ready, connVars, userVars>>

\* "error" and "close": the promise of connectMb is rejected by the first attempt only.
ConnectFails ==
    /\ link = "connecting" /\ creds.load # applet
    /\ api' = IF attempts = 0 /\ api = "pending" THEN "null" ELSE api
    /\ link' = "backoff"
    /\ attempts' = Min({2, attempts + 1})
    /\ UNCHANGED <<ttyVars, hsVars, appletVars, faults, creds, ready, connVars, userVars>>

\* Promises that are settled run on before the next event of the loop; the frames of one
\* chunk are one event.
Microtasks == \E c \in Call : call[c].state \in {"answered"} \cup (IF ready THEN {"waiting"} ELSE {})

ShellHears ==
    /\ link = "open" /\ toShell # <<>>
    /\ toShell' = Tail(toShell)
    /\ LET frame == Head(toShell)
       IN  \/ /\ frame.type = "ready"
              /\ ready' = TRUE /\ attempts' = 0
              /\ api' = IF api = "pending" THEN "live" ELSE api
              /\ UNCHANGED userVars
           \/ /\ frame.type = "result"
              /\ call' = [call EXCEPT ![frame.call] =
                              IF @.state # "sent" THEN @
                              ELSE IF @.op = "createPopup" THEN [@ EXCEPT !.state = "answered", !.id = frame.id]
                              ELSE [@ EXCEPT !.state = "done"]]
              /\ UNCHANGED <<ready, attempts, api, handle>>
           \/ /\ frame.type = "error"
              /\ call' = [call EXCEPT ![frame.call].state = IF @ = "sent" THEN "failed" ELSE @]
              /\ UNCHANGED <<ready, attempts, api, handle>>
           \/ /\ frame.type = "popupClosed"
              /\ handle' = [c \in Call |-> IF handle[c].open /\ handle[c].id = frame.id
                                           THEN [handle[c] EXCEPT !.open = FALSE] ELSE handle[c]]
              /\ UNCHANGED <<ready, attempts, api, call>>
    /\ UNCHANGED <<ttyVars, hsVars, appletVars, faults, link, creds, conn, toApplet>>

\* Fault: the popups of the connection are kept.
LinkClosesKeepsPopups ==
    /\ link = "open" /\ ~conn.open /\ ~Microtasks
    /\ ready' = FALSE
    /\ call' = [c \in Call |-> IF call[c].state = "sent" THEN [call[c] EXCEPT !.state = "failed"] ELSE call[c]]
    /\ link' = "backoff"
    /\ attempts' = Min({2, attempts + 1})
    /\ toApplet' = <<>> /\ toShell' = <<>>
    /\ UNCHANGED <<ttyVars, hsVars, appletVars, faults, creds, api, conn, handle>>

\* Fault: the calls under way are not rejected.
LinkClosesKeepsCalls ==
    /\ link = "open" /\ ~conn.open /\ ~Microtasks
    /\ ready' = FALSE
    /\ handle' = [c \in Call |-> [handle[c] EXCEPT !.open = FALSE]]
    /\ link' = "backoff"
    /\ attempts' = Min({2, attempts + 1})
    /\ toApplet' = <<>> /\ toShell' = <<>>
    /\ UNCHANGED <<ttyVars, hsVars, appletVars, faults, creds, api, conn, call>>

\* The "close" handler: calls fail, popups close, and the reconnection is scheduled.
LinkCloses ==
    /\ link = "open" /\ ~conn.open /\ ~Microtasks
    /\ ready' = FALSE
    /\ call' = [c \in Call |-> IF call[c].state = "sent" THEN [call[c] EXCEPT !.state = "failed"] ELSE call[c]]
    /\ handle' = [c \in Call |-> [handle[c] EXCEPT !.open = FALSE]]
    /\ link' = "backoff"
    /\ attempts' = Min({2, attempts + 1})
    /\ toApplet' = <<>> /\ toShell' = <<>>
    /\ UNCHANGED <<ttyVars, hsVars, appletVars, faults, creds, api, conn>>

-----------------------------------------------------------------------------
(* The API, once jsh.mb is there.                                          *)

Request(c, op) ==
    /\ call' = [call EXCEPT ![c] = [state |-> "sent", op |-> op, id |-> 0]]
    /\ toApplet' = Append(toApplet, [type |-> "request", call |-> c, op |-> op])

\* awaitReady: at once, or not at all, or wait for the connection.
Make(c) ==
    /\ api = "live" /\ call[c].state = "idle"
    /\ \E op \in Op :
           IF ready THEN Request(c, op)
           ELSE /\ call' = [call EXCEPT ![c] = [state |-> IF link = "givenUp" THEN "failed" ELSE "waiting",
                                                op |-> op, id |-> 0]]
                /\ UNCHANGED toApplet
    /\ UNCHANGED <<ttyVars, hsVars, appletVars, faults, clientVars, conn, toShell, handle>>

\* The listener for stateChanged woke the call.
Proceed(c) ==
    /\ call[c].state = "waiting" /\ ready
    /\ Request(c, call[c].op)
    /\ UNCHANGED <<ttyVars, hsVars, appletVars, faults, clientVars, conn, toShell, handle>>

AwaitTimeout(c) ==
    /\ call[c].state = "waiting" /\ ~Microtasks
    /\ call' = [call EXCEPT ![c].state = "failed"]
    /\ UNCHANGED <<ttyVars, hsVars, appletVars, faults, clientVars, connVars, handle>>

\* createPopup goes on after its await.
PopupResumes(c) ==
    /\ call[c].state = "answered"
    /\ call' = [call EXCEPT ![c].state = "done"]
    /\ handle' = [handle EXCEPT ![c] = [id |-> call[c].id, conn |-> conn.number, open |-> TRUE]]
    /\ UNCHANGED <<ttyVars, hsVars, appletVars, faults, clientVars, connVars>>

\* PopupHandle.close; write is the same with a frame the applet passes on.
ClosePopup(c) ==
    /\ handle[c].open /\ ready
    /\ ~\E i \in DOMAIN toApplet : toApplet[i].type = "closePopup"
    /\ toApplet' = Append(toApplet, [type |-> "closePopup", id |-> handle[c].id])
    /\ UNCHANGED <<ttyVars, hsVars, appletVars, faults, clientVars, conn, toShell, userVars>>

-----------------------------------------------------------------------------
\* startRepl has called getCreds; the first session is about to start.
Init ==
    /\ session = "running"
    /\ asked = <<>> /\ answers = <<>>
    /\ hs = [open |-> TRUE, stage |-> IF CanLoad THEN "load" ELSE "handshake", nonce |-> 1]
    /\ rawQueue = <<[kind |-> IF CanLoad THEN "load" ELSE "probe", nonce |-> 1]>>
    /\ first = FALSE
    /\ terminal \in {"mb", "other"}
    /\ applet \in IF terminal = "mb" THEN {0, 1} ELSE {0}
    /\ loads = applet
    /\ nonces = {} /\ faults = 0
    /\ link = "absent" /\ creds = None /\ ready = FALSE /\ attempts = 0 /\ api = "pending"
    /\ conn = NoConn /\ toApplet = <<>> /\ toShell = <<>>
    /\ call = [c \in Call |-> [state |-> "idle", op |-> "ask", id |-> 0]]
    /\ handle = [c \in Call |-> NoHandle]

CallStep(c) == Make(c) \/ Proceed(c) \/ AwaitTimeout(c) \/ PopupResumes(c) \/ ClosePopup(c)

Next ==
    \/ StartEdit \/ SubmitLine \/ HandshakeTimeout \/ HearAnswer \/ AnswerStolen
    \/ TerminalAnswers \/ AppletLost \/ ConnectionBreaks \/ AppletHandles
    \/ BackoffOver \/ Connected \/ ConnectFails \/ ShellHears \/ LinkCloses
    \/ \E n \in nonces : NonceExpires(n)
    \/ \E id \in conn.popups : PopupDestroyed(id)
    \/ \E c \in Call : CallStep(c)

\* Timers fire, frames and answers arrive, and what is settled runs on; commands end.
Fairness ==
    /\ WF_vars(StartEdit) /\ WF_vars(HandshakeTimeout) /\ WF_vars(HearAnswer \/ AnswerStolen)
    /\ WF_vars(TerminalAnswers) /\ WF_vars(AppletHandles)
    /\ WF_vars(BackoffOver) /\ WF_vars(Connected) /\ WF_vars(ConnectFails)
    /\ WF_vars(ShellHears) /\ WF_vars(LinkCloses)
    /\ \A c \in Call : WF_vars(Proceed(c)) /\ WF_vars(AwaitTimeout(c)) /\ WF_vars(PopupResumes(c))

Spec == Init /\ [][Next]_vars /\ Fairness

-----------------------------------------------------------------------------
Links == {"absent", "connecting", "open", "backoff", "handshaking", "givenUp"}
Query == [kind : {"load", "probe"}, nonce : Nat]
Answer == [kind : {"loaded", "refused", "isMb", "announce", "notMb"}, load : Nat]
AppletFrame == [type : {"hello"}, nonce : Nat] \cup [type : {"request"}, call : Call, op : Op]
                   \cup [type : {"closePopup"}, id : Nat]
ShellFrame == [type : {"ready"}] \cup [type : {"result"}, call : Call, id : Nat]
                   \cup [type : {"error"}, call : Call] \cup [type : {"popupClosed"}, id : Nat]

BridgeTypeOK ==
    /\ session \in {"editing", "running"}
    /\ rawQueue \in Seq(Query) /\ asked \in Seq(Query) /\ answers \in Seq(Answer)
    /\ hs \in [open : BOOLEAN, stage : {"load", "handshake"}, nonce : Nat] /\ first \in BOOLEAN
    /\ loads \in Nat /\ applet \in 0..loads /\ terminal \in {"mb", "other", "gone"}
    /\ nonces \subseteq Nat /\ faults \in 0..MaxFaults
    /\ link \in Links /\ creds \in [load : Nat, nonce : Nat] /\ ready \in BOOLEAN
    /\ attempts \in 0..2 /\ api \in {"pending", "live", "null"}
    /\ conn \in [number : Nat, nonce : Nat, open : BOOLEAN, pane : BOOLEAN,
                 popups : SUBSET Nat, counter : Nat]
    /\ toApplet \in Seq(AppletFrame) /\ toShell \in Seq(ShellFrame)
    /\ call \in [Call -> [state : {"idle", "waiting", "sent", "answered", "done", "failed"},
                          op : Op, id : Nat]]
    /\ handle \in [Call -> [id : Nat, conn : Nat, open : BOOLEAN]]

\* A handle that is open belongs to the connection that is open: popup ids start again
\* with every connection, so an older handle would write to somebody else's popup.
HandlesOfThisConnection ==
    \A c \in Call : handle[c].open => link = "open" /\ ready /\ handle[c].conn = conn.number

\* The credentials are the client's own and new: a handshake is under way exactly while the
\* client, or the shell before it has one, waits for its result, and every connection says
\* hello with a nonce that no connection has used before, since the applet forgets a nonce
\* with the first hello (getCreds, scheduleReconnect).
FreshHandshake ==
    /\ hs.open <=> link = "handshaking" \/ (link = "absent" /\ api = "pending")
    /\ hs.open => hs.nonce > conn.nonce
    /\ link = "connecting" => creds.nonce > conn.nonce

\* Every promise of the API settles, whatever becomes of the connection.
CallsSettle ==
    \A c \in Call : call[c].state \in {"waiting", "sent", "answered"} ~> call[c].state \in {"done", "failed"}

\* The client does not get stuck half way: it is connected again or has given up.
Reconnects == link \in {"connecting", "backoff", "handshaking"} ~> (ready \/ link = "givenUp")

=============================================================================
