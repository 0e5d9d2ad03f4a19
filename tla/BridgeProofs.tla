---------------------------- MODULE BridgeProofs ----------------------------
(***************************************************************************)
(* What Bridge promises for any set of calls and any number of faults.     *)
(***************************************************************************)
EXTENDS Bridge, TLAPS, FiniteSetTheorems, SequenceTheorems

\* The listener of a handshake only lives while no connection does.
ListensUnlinked == hs.open => link \in {"absent", "handshaking"}

\* The applet's end is closed before the client's is.
ConnOfLink == conn.open => link = "open"

\* The popups of a connection are made after its "ready" was sent.
PopupsNeedPane == conn.popups # {} => conn.pane

\* The first frame the shell hears is "ready": until then nothing else was sent.
ReadyFirst ==
    /\ ready => link = "open" /\ conn.pane
    /\ link = "open" /\ ~conn.pane => toShell = <<>>
    /\ link = "open" /\ conn.pane /\ ~ready => toShell # <<>> /\ Head(toShell).type = "ready"

\* A call that has its answer resumes before the connection can close.
AnsweredIsReady == \A c \in Call : call[c].state = "answered" => link = "open" /\ ready

IInv == /\ BridgeTypeOK /\ ListensUnlinked /\ ConnOfLink /\ PopupsNeedPane /\ ReadyFirst
        /\ AnsweredIsReady /\ HandlesOfThisConnection

CallRecord == [state : {"idle", "waiting", "sent", "answered", "done", "failed"},
               op : Op, id : Nat]
HandleRecord == [id : Nat, conn : Nat, open : BOOLEAN]
ConnRecord == [number : Nat, nonce : Nat, open : BOOLEAN, pane : BOOLEAN,
               popups : SUBSET Nat, counter : Nat]

-----------------------------------------------------------------------------
(* Lemmas about the data.                                                  *)

LEMMA HeadTail ==
    ASSUME NEW S, NEW q \in Seq(S), q # <<>>
    PROVE  Head(q) \in S /\ Tail(q) \in Seq(S)
  OBVIOUS

\* What is said first stays first when more is said.
LEMMA AppendKeepsHead ==
    ASSUME NEW S, NEW q \in Seq(S), NEW e \in S
    PROVE  /\ Append(q, e) \in Seq(S) /\ Append(q, e) # <<>>
           /\ q # <<>> => Head(Append(q, e)) = Head(q)
           /\ q = <<>> => Head(Append(q, e)) = e
  OBVIOUS

\* reconnectAttempts is counted up to 2.
LEMMA AttemptsBound ==
    ASSUME NEW n \in 0..2
    PROVE  Min({2, n + 1}) \in 0..2
<1>1. PICK x \in {2, n + 1} : \A y \in {2, n + 1} : x =< y
  BY SMT
<1>2. Min({2, n + 1}) \in {2, n + 1}
  BY <1>1 DEF Min
<1>3. \A y \in {2, n + 1} : Min({2, n + 1}) =< y
  BY <1>1 DEF Min
<1> QED BY <1>2, <1>3

\* Which fields a frame has follows from its type.
LEMMA AppletFrameFields ==
    ASSUME NEW f \in AppletFrame
    PROVE  /\ f.type = "hello" => f.nonce \in Nat
           /\ f.type = "request" => f.call \in Call /\ f.op \in Op
           /\ f.type = "closePopup" => f.id \in Nat
  BY DEF AppletFrame

LEMMA ShellFrameFields ==
    ASSUME NEW f \in ShellFrame
    PROVE  /\ f.type = "result" => f.call \in Call /\ f.id \in Nat
           /\ f.type = "error" => f.call \in Call
           /\ f.type = "popupClosed" => f.id \in Nat
  BY DEF ShellFrame

LEMMA ShellFramesMade ==
    /\ [type |-> "ready"] \in ShellFrame
    /\ \A c \in Call, n \in Nat : [type |-> "result", call |-> c, id |-> n] \in ShellFrame
    /\ \A c \in Call : [type |-> "error", call |-> c] \in ShellFrame
    /\ \A n \in Nat : [type |-> "popupClosed", id |-> n] \in ShellFrame
  BY DEF ShellFrame

LEMMA AppletFramesMade ==
    /\ \A n \in Nat : [type |-> "hello", nonce |-> n] \in AppletFrame
    /\ \A c \in Call, op \in Op : [type |-> "request", call |-> c, op |-> op] \in AppletFrame
    /\ \A n \in Nat : [type |-> "closePopup", id |-> n] \in AppletFrame
  BY DEF AppletFrame

-----------------------------------------------------------------------------
(* Type correctness.                                                       *)

LEMMA InitType == Init => BridgeTypeOK
<1> SUFFICES ASSUME Init PROVE BridgeTypeOK
  OBVIOUS
<1>1. rawQueue \in Seq(Query)
  BY DEF Init, Query
<1>2. /\ asked \in Seq(Query) /\ answers \in Seq(Answer)
      /\ toApplet \in Seq(AppletFrame) /\ toShell \in Seq(ShellFrame)
  BY EmptySeq DEF Init
<1>3. conn \in [number : Nat, nonce : Nat, open : BOOLEAN, pane : BOOLEAN,
                popups : SUBSET Nat, counter : Nat]
  BY DEF Init, NoConn
<1>4. loads \in Nat /\ applet \in 0..loads /\ terminal \in {"mb", "other", "gone"}
  BY DEF Init
<1>5. /\ call \in [Call -> [state : {"idle", "waiting", "sent", "answered", "done", "failed"},
                           op : Op, id : Nat]]
      /\ handle \in [Call -> [id : Nat, conn : Nat, open : BOOLEAN]]
  BY DEF Init, Op, NoHandle
<1>6. /\ hs \in [open : BOOLEAN, stage : {"load", "handshake"}, nonce : Nat]
      /\ creds \in [load : Nat, nonce : Nat]
  BY DEF Init, None
<1>7. /\ session \in {"editing", "running"} /\ link \in Links /\ api \in {"pending", "live", "null"}
      /\ nonces \subseteq Nat
  BY DEF Init, Links
<1>8. first = FALSE /\ ready = FALSE
  BY DEF Init
<1>9. faults \in 0..MaxFaults /\ attempts \in 0..2
  <2>1. faults = 0 /\ attempts = 0
    BY DEF Init
  <2> QED BY <2>1, BridgeAssumption
<1> QED BY <1>1, <1>2, <1>3, <1>4, <1>5, <1>6, <1>7, <1>8, <1>9 DEF BridgeTypeOK

LEMMA StartEditType ==
    ASSUME BridgeTypeOK, StartEdit PROVE BridgeTypeOK'
<1>1. asked \o rawQueue \in Seq(Query) /\ <<>> \in Seq(Query)
  BY ConcatProperties, EmptySeq DEF BridgeTypeOK
<1> QED
  BY <1>1 DEF StartEdit, BridgeTypeOK, hsVars, appletVars, clientVars, connVars, userVars

LEMMA SubmitLineType ==
    ASSUME BridgeTypeOK, SubmitLine PROVE BridgeTypeOK'
  BY DEF SubmitLine, BridgeTypeOK, hsVars, appletVars, clientVars, connVars, userVars

\* A result of a handshake, whatever it is, leaves the client well formed.
LEMMA ResolveType ==
    ASSUME BridgeTypeOK, NEW result \in [load : Nat, nonce : Nat], Resolve(result)
    PROVE  /\ hs' \in [open : BOOLEAN, stage : {"load", "handshake"}, nonce : Nat]
           /\ link' \in Links /\ creds' \in [load : Nat, nonce : Nat] /\ ready' \in BOOLEAN
           /\ attempts' \in 0..2 /\ api' \in {"pending", "live", "null"}
           /\ ~hs'.open
  BY DEF Resolve, BridgeTypeOK, Links

LEMMA HandshakeTimeoutType ==
    ASSUME BridgeTypeOK, HandshakeTimeout PROVE BridgeTypeOK'
<1>1. None \in [load : Nat, nonce : Nat]
  BY DEF None
<1>2. Resolve(None)
  BY DEF HandshakeTimeout
<1> QED
  BY <1>1, <1>2, ResolveType DEF HandshakeTimeout, BridgeTypeOK, ttyVars, appletVars, connVars, userVars

\* An answer resolves the handshake, or sends the next query, or is none of its business.
LEMMA HearCases ==
    ASSUME BridgeTypeOK, NEW answer \in Answer, Hear(answer)
    PROVE  \/ UNCHANGED <<hs, clientVars, asked>>
           \/ /\ hs.open /\ hs' = [hs EXCEPT !.stage = "handshake"]
              /\ asked' = Append(asked, [kind |-> "probe", nonce |-> hs.nonce])
              /\ UNCHANGED clientVars
           \/ /\ hs.open /\ UNCHANGED asked
              /\ \E result \in [load : Nat, nonce : Nat] : Resolve(result)
<1>1. None \in [load : Nat, nonce : Nat]
  BY DEF None
<1>2. [load |-> answer.load, nonce |-> hs.nonce] \in [load : Nat, nonce : Nat]
  BY DEF Answer, BridgeTypeOK
<1>3. hs.open \in BOOLEAN
  BY DEF BridgeTypeOK
<1> QED BY <1>1, <1>2, <1>3 DEF Hear

LEMMA HearAnswerType ==
    ASSUME BridgeTypeOK, HearAnswer PROVE BridgeTypeOK'
<1>1. Head(answers) \in Answer /\ answers' \in Seq(Answer)
  BY HeadTail DEF HearAnswer, BridgeTypeOK
<1>2. Hear(Head(answers))
  BY DEF HearAnswer
<1>3. CASE UNCHANGED <<hs, clientVars, asked>>
  BY SMTT(30), <1>1, <1>3 DEF HearAnswer, BridgeTypeOK, appletVars, clientVars, connVars, userVars
<1>4. CASE /\ hs.open /\ hs' = [hs EXCEPT !.stage = "handshake"]
           /\ asked' = Append(asked, [kind |-> "probe", nonce |-> hs.nonce])
           /\ UNCHANGED clientVars
  <2>1. [kind |-> "probe", nonce |-> hs.nonce] \in Query
    BY DEF Query, BridgeTypeOK
  <2>2. asked' \in Seq(Query)
    BY <1>4, <2>1, AppendKeepsHead DEF BridgeTypeOK
  <2>3. hs' \in [open : BOOLEAN, stage : {"load", "handshake"}, nonce : Nat]
    BY <1>4 DEF BridgeTypeOK
  <2> QED
    BY <1>1, <1>4, <2>2, <2>3
    DEF HearAnswer, BridgeTypeOK, appletVars, clientVars, connVars, userVars
<1>5. ASSUME UNCHANGED asked, NEW result \in [load : Nat, nonce : Nat], Resolve(result)
      PROVE  BridgeTypeOK'
  BY <1>1, <1>5, ResolveType
  DEF HearAnswer, BridgeTypeOK, appletVars, clientVars, connVars, userVars
<1> QED BY <1>1, <1>2, <1>3, <1>4, <1>5, HearCases

LEMMA AnswerStolenType ==
    ASSUME BridgeTypeOK, AnswerStolen PROVE BridgeTypeOK'
  BY HeadTail
  DEF AnswerStolen, BridgeTypeOK, hsVars, appletVars, clientVars, connVars, userVars

LEMMA TerminalAnswersType ==
    ASSUME BridgeTypeOK, TerminalAnswers PROVE BridgeTypeOK'
<1>1. Head(asked) \in Query /\ asked' \in Seq(Query)
  BY HeadTail DEF TerminalAnswers, BridgeTypeOK
<1>2. Head(asked).nonce \in Nat
  BY <1>1 DEF Query
<1>3. ASSUME NEW kind \in {"loaded", "refused", "isMb", "announce", "notMb"}, NEW n \in Nat
      PROVE  [kind |-> kind, load |-> n] \in Answer
  BY DEF Answer
<1>4. loads \in Nat /\ applet \in 0..loads /\ answers \in Seq(Answer)
  BY DEF BridgeTypeOK
<1>5. answers' \in Seq(Answer)
  <2>1. \A kind \in {"loaded", "refused", "isMb", "notMb"} :
            Append(answers, [kind |-> kind, load |-> 0]) \in Seq(Answer)
    BY <1>3, <1>4, AppendKeepsHead
  <2>2. <<[kind |-> "isMb", load |-> 0], [kind |-> "announce", load |-> applet]>> \in Seq(Answer)
    BY <1>3, <1>4
  <2>3. answers \o <<[kind |-> "isMb", load |-> 0], [kind |-> "announce", load |-> applet]>>
            \in Seq(Answer)
    BY <1>4, <2>2, ConcatProperties
  <2> QED BY <1>4, <2>1, <2>3 DEF TerminalAnswers
<1>6. loads' \in Nat /\ applet' \in 0..loads'
  BY <1>4 DEF TerminalAnswers, Load
<1>7. nonces' \subseteq Nat
  BY <1>2 DEF TerminalAnswers, BridgeTypeOK
<1>8. UNCHANGED <<session, rawQueue, hsVars, terminal, faults, clientVars, connVars, userVars>>
  BY DEF TerminalAnswers
<1> QED
  BY SMTT(30), <1>1, <1>5, <1>6, <1>7, <1>8
  DEF BridgeTypeOK, hsVars, clientVars, connVars, userVars

LEMMA BrokenType ==
    ASSUME BridgeTypeOK
    PROVE  /\ Broken \in ConnRecord /\ Broken.number = conn.number /\ Broken.nonce = conn.nonce
           /\ ~Broken.open /\ Broken.pane = conn.pane /\ Broken.popups = {}
  BY DEF Broken, BridgeTypeOK, ConnRecord

LEMMA AppletLostType ==
    ASSUME BridgeTypeOK, AppletLost PROVE BridgeTypeOK'
<1>1. conn' \in ConnRecord
  BY BrokenType DEF AppletLost
<1>2. /\ loads' \in Nat /\ applet' \in 0..loads' /\ terminal' \in {"mb", "other", "gone"}
      /\ nonces' = {}
  BY SMTT(30) DEF AppletLost, BridgeTypeOK
<1>3. faults' \in 0..MaxFaults
  BY BridgeAssumption DEF AppletLost, Fault, BridgeTypeOK
<1> QED
  BY <1>1, <1>2, <1>3
  DEF AppletLost, BridgeTypeOK, ttyVars, hsVars, clientVars, userVars, ConnRecord

LEMMA NonceExpiresType ==
    ASSUME BridgeTypeOK, NEW n \in nonces, NonceExpires(n) PROVE BridgeTypeOK'
<1>1. faults' \in 0..MaxFaults
  BY BridgeAssumption DEF NonceExpires, Fault, BridgeTypeOK
<1> QED
  BY SMTT(30), <1>1 DEF NonceExpires, BridgeTypeOK, ttyVars, hsVars, clientVars, connVars, userVars

LEMMA ConnectionBreaksType ==
    ASSUME BridgeTypeOK, ConnectionBreaks PROVE BridgeTypeOK'
<1>1. conn' \in ConnRecord
  BY BrokenType DEF ConnectionBreaks
<1>2. faults' \in 0..MaxFaults
  BY BridgeAssumption DEF ConnectionBreaks, Fault, BridgeTypeOK
<1> QED
  BY <1>1, <1>2
  DEF ConnectionBreaks, BridgeTypeOK, ttyVars, hsVars, appletVars, clientVars, userVars, ConnRecord

\* What the applet may do with a frame: its connection stays well formed, keeps its number,
\* has popups only with a pane, and says "ready" before anything else.
LEMMA AppletStep ==
    ASSUME BridgeTypeOK, AppletHandles
    PROVE  /\ conn' \in ConnRecord /\ conn'.number = conn.number /\ conn'.nonce = conn.nonce
           /\ conn'.open => conn.open
           /\ toApplet' \in Seq(AppletFrame) /\ toShell' \in Seq(ShellFrame)
           /\ nonces' \subseteq Nat
           /\ \/ conn'.pane = conn.pane /\ toShell' = toShell /\ conn'.popups \subseteq conn.popups
              \/ /\ conn'.pane /\ toShell' = Append(toShell, [type |-> "ready"])
                 /\ conn'.popups = conn.popups
              \/ /\ conn.pane /\ conn'.pane
                 /\ \E f \in ShellFrame : toShell' = Append(toShell, f)
              \/ /\ conn.popups # {} /\ conn'.pane = conn.pane /\ conn'.popups \subseteq conn.popups
                 /\ \E f \in ShellFrame : toShell' = Append(toShell, f)
<1> DEFINE frame == Head(toApplet)
<1>1. conn \in ConnRecord /\ toShell \in Seq(ShellFrame) /\ nonces \subseteq Nat
  BY DEF BridgeTypeOK, ConnRecord
<1>2. frame \in AppletFrame /\ toApplet' \in Seq(AppletFrame)
  BY HeadTail DEF AppletHandles, BridgeTypeOK
<1>3. \A f \in ShellFrame : Append(toShell, f) \in Seq(ShellFrame)
  BY <1>1, AppendKeepsHead
<1>4. CASE frame.type = "hello" /\ AppletHello(frame)
  <2>1. CASE frame.nonce \in nonces
    <3>1. conn' = [conn EXCEPT !.pane = TRUE] /\ toShell' = Append(toShell, [type |-> "ready"])
          /\ nonces' \subseteq nonces
      BY <1>4, <2>1 DEF AppletHello
    <3>2. conn' \in ConnRecord /\ conn'.number = conn.number /\ conn'.nonce = conn.nonce /\ conn'.open = conn.open
          /\ conn'.pane /\ conn'.popups = conn.popups
      BY <1>1, <3>1 DEF ConnRecord
    <3> QED BY <1>1, <1>2, <1>3, <3>1, <3>2, ShellFramesMade
  <2>2. CASE frame.nonce \notin nonces
    BY <1>1, <1>2, <1>4, <2>2, BrokenType DEF AppletHello
  <2> QED BY <2>1, <2>2
<1>5. CASE frame.type = "request" /\ conn.pane /\ AppletRequest(frame)
  <2>1. frame.call \in Call /\ conn.counter + 1 \in Nat
    BY <1>1, <1>2, <1>5, AppletFrameFields DEF ConnRecord
  <2>2. nonces' = nonces /\ \E f \in ShellFrame : toShell' = Append(toShell, f)
    BY <1>5, <2>1, ShellFramesMade DEF AppletRequest
  <2>3. \/ conn' = [conn EXCEPT !.counter = @ + 1, !.popups = @ \cup {conn.counter + 1}]
        \/ conn' = conn
        \/ conn' = [conn EXCEPT !.counter = @ + 1]
    BY <1>5 DEF AppletRequest
  <2>4. conn' \in ConnRecord /\ conn'.number = conn.number /\ conn'.nonce = conn.nonce /\ conn'.open = conn.open
        /\ conn'.pane = conn.pane
    <3>1. conn \in ConnRecord
      BY <1>1
    <3>2. CASE conn' = [conn EXCEPT !.counter = @ + 1, !.popups = @ \cup {conn.counter + 1}]
      BY <2>1, <3>1, <3>2 DEF ConnRecord
    <3>3. CASE conn' = [conn EXCEPT !.counter = @ + 1]
      BY <2>1, <3>1, <3>3 DEF ConnRecord
    <3> QED
      BY <2>3, <3>1, <3>2, <3>3
  <2> QED BY <1>1, <1>2, <1>3, <1>5, <2>2, <2>4
<1>6. CASE frame.type = "closePopup" /\ UNCHANGED nonces
           /\ IF frame.id \in conn.popups THEN Destroy(frame.id) ELSE UNCHANGED <<conn, toShell>>
  <2>1. CASE frame.id \in conn.popups
    <3>1. conn' = [conn EXCEPT !.popups = @ \ {frame.id}]
          /\ toShell' = Append(toShell, [type |-> "popupClosed", id |-> frame.id])
      BY <1>6, <2>1 DEF Destroy
    <3>2. frame.id \in Nat
      BY <1>2, <1>6, AppletFrameFields
    <3>3. conn' \in ConnRecord /\ conn'.number = conn.number /\ conn'.nonce = conn.nonce /\ conn'.open = conn.open
          /\ conn'.pane = conn.pane /\ conn'.popups \subseteq conn.popups
      BY <1>1, <3>1 DEF ConnRecord
    <3> QED BY <1>1, <1>2, <1>3, <1>6, <2>1, <3>1, <3>2, <3>3, ShellFramesMade
  <2>2. CASE frame.id \notin conn.popups
    BY <1>1, <1>2, <1>6, <2>2
  <2> QED BY <2>1, <2>2
<1> QED BY <1>4, <1>5, <1>6 DEF AppletHandles

LEMMA AppletHandlesType ==
    ASSUME BridgeTypeOK, AppletHandles PROVE BridgeTypeOK'
<1>1. /\ conn' \in ConnRecord /\ toApplet' \in Seq(AppletFrame) /\ toShell' \in Seq(ShellFrame)
      /\ nonces' \subseteq Nat
  BY AppletStep
<1> QED
  BY <1>1 DEF AppletHandles, BridgeTypeOK, ttyVars, hsVars, clientVars, userVars, ConnRecord

LEMMA PopupDestroyedStep ==
    ASSUME BridgeTypeOK, NEW id \in conn.popups, PopupDestroyed(id)
    PROVE  /\ conn' \in ConnRecord /\ conn'.number = conn.number /\ conn'.nonce = conn.nonce /\ conn'.open = conn.open
           /\ conn'.pane = conn.pane /\ conn'.popups \subseteq conn.popups
           /\ toShell' \in Seq(ShellFrame)
           /\ \E f \in ShellFrame : toShell' = Append(toShell, f)
<1>1. conn \in ConnRecord /\ id \in Nat /\ toShell \in Seq(ShellFrame)
  BY DEF BridgeTypeOK, ConnRecord
<1>2. conn' = [conn EXCEPT !.popups = @ \ {id}]
      /\ toShell' = Append(toShell, [type |-> "popupClosed", id |-> id])
  BY DEF PopupDestroyed, Destroy
<1>3. [type |-> "popupClosed", id |-> id] \in ShellFrame
  BY <1>1, ShellFramesMade
<1>4. toShell' \in Seq(ShellFrame)
  BY <1>1, <1>2, <1>3, AppendKeepsHead
<1> QED BY <1>1, <1>2, <1>3, <1>4 DEF ConnRecord

LEMMA PopupDestroyedType ==
    ASSUME BridgeTypeOK, NEW id \in conn.popups, PopupDestroyed(id) PROVE BridgeTypeOK'
<1>1. conn' \in ConnRecord /\ toShell' \in Seq(ShellFrame)
  BY PopupDestroyedStep
<1> QED
  BY <1>1
  DEF PopupDestroyed, BridgeTypeOK, ttyVars, hsVars, appletVars, clientVars, userVars, ConnRecord

LEMMA BackoffOverType ==
    ASSUME BridgeTypeOK, BackoffOver PROVE BridgeTypeOK'
<1>1. CASE UNCHANGED <<hs, first, rawQueue>>
  BY <1>1 DEF BackoffOver, BridgeTypeOK, Links, appletVars, connVars, userVars
<1>2. CASE GetCreds
  <2> DEFINE load == first /\ CanLoad
             query == [kind |-> IF load THEN "load" ELSE "probe", nonce |-> NextNonce]
  <2>1. NextNonce \in Nat
    BY DEF NextNonce, BridgeTypeOK
  <2>2. query \in Query
    BY <2>1 DEF Query
  <2>3. rawQueue' \in Seq(Query)
    BY <1>2, <2>2, AppendKeepsHead DEF GetCreds, BridgeTypeOK
  <2>4. hs' \in [open : BOOLEAN, stage : {"load", "handshake"}, nonce : Nat] /\ first' = FALSE
    BY <1>2, <2>1 DEF GetCreds
  <2> QED
    BY <2>3, <2>4 DEF BackoffOver, BridgeTypeOK, Links, appletVars, connVars, userVars
<1> QED BY <1>1, <1>2 DEF BackoffOver

LEMMA ConnectedStep ==
    ASSUME BridgeTypeOK, Connected
    PROVE  /\ conn' \in ConnRecord /\ conn'.open /\ ~conn'.pane /\ conn'.popups = {}
           /\ conn'.nonce = creds.nonce
           /\ toApplet' \in Seq(AppletFrame) /\ toShell' = <<>> /\ toShell' \in Seq(ShellFrame)
<1>1. NoConn \in ConnRecord /\ conn.number + 1 \in Nat /\ creds.nonce \in Nat
  BY DEF NoConn, ConnRecord, BridgeTypeOK
<1>2. conn' = [NoConn EXCEPT !.number = conn.number + 1, !.nonce = creds.nonce, !.open = TRUE]
  BY DEF Connected
<1>3. /\ conn' \in ConnRecord /\ conn'.open /\ ~conn'.pane /\ conn'.popups = {}
      /\ conn'.nonce = creds.nonce
  BY <1>1, <1>2 DEF NoConn, ConnRecord
<1>4. creds.nonce \in Nat
  BY DEF BridgeTypeOK
<1>5. [type |-> "hello", nonce |-> creds.nonce] \in AppletFrame
  BY <1>4, AppletFramesMade
<1>6. toApplet' = <<[type |-> "hello", nonce |-> creds.nonce]>> /\ toShell' = <<>>
  BY DEF Connected
<1> QED BY <1>3, <1>5, <1>6, EmptySeq

LEMMA ConnectedType ==
    ASSUME BridgeTypeOK, Connected PROVE BridgeTypeOK'
<1>1. /\ conn' \in ConnRecord /\ toApplet' \in Seq(AppletFrame) /\ toShell' \in Seq(ShellFrame)
  BY ConnectedStep
<1>2. link' \in Links
  BY DEF Connected, Links
<1> QED
  BY SMTT(30), <1>1, <1>2
  DEF Connected, BridgeTypeOK, ttyVars, hsVars, appletVars, userVars, ConnRecord

LEMMA ConnectFailsType ==
    ASSUME BridgeTypeOK, ConnectFails PROVE BridgeTypeOK'
<1>1. attempts' \in 0..2
  BY AttemptsBound DEF ConnectFails, BridgeTypeOK
<1>2. api' \in {"pending", "live", "null"}
  BY DEF ConnectFails, BridgeTypeOK
<1> QED
  BY <1>1, <1>2
  DEF ConnectFails, BridgeTypeOK, Links, ttyVars, hsVars, appletVars, connVars, userVars

\* What a frame does to the client, by its type.
LEMMA ShellStep ==
    ASSUME BridgeTypeOK, ShellHears
    PROVE  /\ call' \in [Call -> CallRecord] /\ handle' \in [Call -> HandleRecord]
           /\ ready' \in BOOLEAN /\ attempts' \in 0..2 /\ api' \in {"pending", "live", "null"}
           /\ toShell' \in Seq(ShellFrame)
           /\ \/ Head(toShell).type = "ready" /\ ready' = TRUE /\ UNCHANGED <<call, handle>>
              \/ Head(toShell).type # "ready" /\ ready' = ready
           /\ \A c \in Call : handle'[c].open => handle'[c] = handle[c]
<1> DEFINE frame == Head(toShell)
<1>1. frame \in ShellFrame /\ toShell' \in Seq(ShellFrame)
  BY HeadTail DEF ShellHears, BridgeTypeOK
<1>2. /\ call \in [Call -> CallRecord] /\ handle \in [Call -> HandleRecord]
      /\ ready \in BOOLEAN /\ attempts \in 0..2 /\ api \in {"pending", "live", "null"}
  BY DEF BridgeTypeOK, CallRecord, HandleRecord
<1>3. CASE /\ frame.type = "ready"
           /\ ready' = TRUE /\ attempts' = 0
           /\ api' = IF api = "pending" THEN "live" ELSE api
           /\ UNCHANGED userVars
  <2>1. call' = call /\ handle' = handle
    BY <1>3 DEF userVars
  <2>2. attempts' \in 0..2 /\ api' \in {"pending", "live", "null"}
    BY <1>2, <1>3
  <2> QED BY <1>1, <1>2, <1>3, <2>1, <2>2
<1>4. CASE /\ frame.type = "result"
           /\ call' = [call EXCEPT ![frame.call] =
                           IF @.state # "sent" THEN @
                           ELSE IF @.op = "createPopup" THEN [@ EXCEPT !.state = "answered", !.id = frame.id]
                           ELSE [@ EXCEPT !.state = "done"]]
           /\ UNCHANGED <<ready, attempts, api, handle>>
  <2>1. frame.call \in Call /\ frame.id \in Nat
    BY <1>1, <1>4, ShellFrameFields
  <2>2. [call[frame.call] EXCEPT !.state = "answered", !.id = frame.id] \in CallRecord
        /\ [call[frame.call] EXCEPT !.state = "done"] \in CallRecord
    BY <1>2, <2>1 DEF CallRecord
  <2>3. call' \in [Call -> CallRecord]
    BY <1>2, <1>4, <2>1, <2>2
  <2> QED BY <1>1, <1>2, <1>4, <2>3
<1>5. CASE /\ frame.type = "error"
           /\ call' = [call EXCEPT ![frame.call].state = IF @ = "sent" THEN "failed" ELSE @]
           /\ UNCHANGED <<ready, attempts, api, handle>>
  <2>1. call' \in [Call -> CallRecord]
    <3>1. frame.call \in Call
      BY <1>1, <1>5, ShellFrameFields
    <3>2. [call[frame.call] EXCEPT !.state = "failed"] \in CallRecord
      BY <1>2, <3>1 DEF CallRecord
    <3>3. call' = [call EXCEPT ![frame.call] =
                       IF call[frame.call].state = "sent" THEN [call[frame.call] EXCEPT !.state = "failed"]
                       ELSE call[frame.call]]
      BY <1>2, <1>5, <3>1 DEF CallRecord
    <3> QED
      BY <1>2, <3>1, <3>2, <3>3
  <2> QED BY <1>1, <1>2, <1>5, <2>1
<1>6. CASE /\ frame.type = "popupClosed"
           /\ handle' = [c \in Call |-> IF handle[c].open /\ handle[c].id = frame.id
                                        THEN [handle[c] EXCEPT !.open = FALSE] ELSE handle[c]]
           /\ UNCHANGED <<ready, attempts, api, call>>
  <2>1. handle' \in [Call -> HandleRecord] /\ \A c \in Call : handle'[c].open => handle'[c] = handle[c]
    BY <1>2, <1>6 DEF HandleRecord
  <2> QED BY <1>1, <1>2, <1>6, <2>1
<1> QED BY <1>3, <1>4, <1>5, <1>6 DEF ShellHears

LEMMA ShellHearsType ==
    ASSUME BridgeTypeOK, ShellHears PROVE BridgeTypeOK'
<1>1. /\ call' \in [Call -> CallRecord] /\ handle' \in [Call -> HandleRecord]
      /\ ready' \in BOOLEAN /\ attempts' \in 0..2 /\ api' \in {"pending", "live", "null"}
      /\ toShell' \in Seq(ShellFrame)
  BY ShellStep
<1> QED
  BY <1>1
  DEF ShellHears, BridgeTypeOK, ttyVars, hsVars, appletVars, CallRecord, HandleRecord

LEMMA LinkClosesType ==
    ASSUME BridgeTypeOK, LinkCloses PROVE BridgeTypeOK'
<1>1. attempts' \in 0..2
  BY AttemptsBound DEF LinkCloses, BridgeTypeOK
<1>2. call \in [Call -> CallRecord] /\ handle \in [Call -> HandleRecord]
  BY DEF BridgeTypeOK, CallRecord, HandleRecord
<1>3. call' \in [Call -> CallRecord]
  <2>1. \A c \in Call : [call[c] EXCEPT !.state = "failed"] \in CallRecord
    BY <1>2 DEF CallRecord
  <2> QED BY <1>2, <2>1 DEF LinkCloses
<1>4. handle' \in [Call -> HandleRecord]
  <2>1. \A c \in Call : [handle[c] EXCEPT !.open = FALSE] \in HandleRecord
    BY <1>2 DEF HandleRecord
  <2> QED BY <1>2, <2>1 DEF LinkCloses
<1> QED
  BY <1>1, <1>3, <1>4, EmptySeq
  DEF LinkCloses, BridgeTypeOK, Links, ttyVars, hsVars, appletVars, CallRecord, HandleRecord

LEMMA RequestType ==
    ASSUME BridgeTypeOK, NEW c \in Call, NEW op \in Op, Request(c, op)
    PROVE  call' \in [Call -> CallRecord] /\ toApplet' \in Seq(AppletFrame)
<1>1. [type |-> "request", call |-> c, op |-> op] \in AppletFrame
  BY AppletFramesMade
<1>2. toApplet' \in Seq(AppletFrame)
  BY <1>1, AppendKeepsHead DEF Request, BridgeTypeOK
<1> QED BY <1>2 DEF Request, BridgeTypeOK, CallRecord

LEMMA CallStepType ==
    ASSUME BridgeTypeOK, NEW c \in Call, CallStep(c) PROVE BridgeTypeOK'
<1>1. CASE Make(c)
  <2>1. PICK op \in Op :
           IF ready THEN Request(c, op)
           ELSE /\ call' = [call EXCEPT ![c] = [state |-> IF link = "givenUp" THEN "failed" ELSE "waiting",
                                                op |-> op, id |-> 0]]
                /\ UNCHANGED toApplet
    BY <1>1 DEF Make
  <2>2. call' \in [Call -> CallRecord] /\ toApplet' \in Seq(AppletFrame)
    <3>1. CASE ready
      BY <2>1, <3>1, RequestType
    <3>2. CASE ~ready
      <4>1. [state |-> IF link = "givenUp" THEN "failed" ELSE "waiting", op |-> op, id |-> 0] \in CallRecord
        BY DEF CallRecord
      <4>2. call \in [Call -> CallRecord] /\ toApplet \in Seq(AppletFrame)
        BY DEF BridgeTypeOK, CallRecord
      <4> QED BY <2>1, <3>2, <4>1, <4>2
    <3> QED BY <3>1, <3>2
  <2> QED
    BY <1>1, <2>2 DEF Make, BridgeTypeOK, ttyVars, hsVars, appletVars, clientVars, CallRecord
<1>2. CASE Proceed(c)
  <2>1. call[c].op \in Op
    BY DEF BridgeTypeOK
  <2>2. call' \in [Call -> CallRecord] /\ toApplet' \in Seq(AppletFrame)
    BY <1>2, <2>1, RequestType DEF Proceed
  <2> QED
    BY SMTT(30), <1>2, <2>2 DEF Proceed, BridgeTypeOK, ttyVars, hsVars, appletVars, clientVars, CallRecord
<1>3. CASE AwaitTimeout(c)
  <2>1. call \in [Call -> CallRecord]
    BY DEF BridgeTypeOK, CallRecord
  <2>2. call' \in [Call -> CallRecord]
    BY <1>3, <2>1 DEF AwaitTimeout, CallRecord
  <2> QED
    BY SMTT(30), <1>3, <2>2
    DEF AwaitTimeout, BridgeTypeOK, ttyVars, hsVars, appletVars, clientVars, connVars, CallRecord
<1>4. CASE PopupResumes(c)
  <2>1. /\ call' = [call EXCEPT ![c].state = "done"]
        /\ handle' = [handle EXCEPT ![c] = [id |-> call[c].id, conn |-> conn.number, open |-> TRUE]]
    BY <1>4 DEF PopupResumes
  <2>2. call' \in [Call -> CallRecord] /\ handle' \in [Call -> HandleRecord]
    <3>1. call[c] \in CallRecord /\ conn.number \in Nat
      BY DEF BridgeTypeOK, CallRecord, ConnRecord
    <3>2. [call[c] EXCEPT !.state = "done"] \in CallRecord
          /\ [id |-> call[c].id, conn |-> conn.number, open |-> TRUE] \in HandleRecord
      BY <3>1 DEF CallRecord, HandleRecord
    <3>3. call \in [Call -> CallRecord] /\ handle \in [Call -> HandleRecord]
      BY DEF BridgeTypeOK, CallRecord, HandleRecord
    <3> QED
      BY <2>1, <3>2, <3>3
  <2> QED
    BY SMTT(30), <1>4, <2>2
    DEF PopupResumes, BridgeTypeOK, ttyVars, hsVars, appletVars, clientVars, connVars, CallRecord,
        HandleRecord
<1>5. CASE ClosePopup(c)
  <2>1. handle[c].id \in Nat
    BY DEF BridgeTypeOK
  <2>2. [type |-> "closePopup", id |-> handle[c].id] \in AppletFrame
    BY <2>1, AppletFramesMade
  <2>3. toApplet' \in Seq(AppletFrame)
    BY <1>5, <2>2, AppendKeepsHead DEF ClosePopup, BridgeTypeOK
  <2> QED
    BY SMTT(30), <1>5, <2>3 DEF ClosePopup, BridgeTypeOK, ttyVars, hsVars, appletVars, clientVars, userVars
<1> QED BY <1>1, <1>2, <1>3, <1>4, <1>5 DEF CallStep

LEMMA StepType == BridgeTypeOK /\ [Next]_vars => BridgeTypeOK'
<1> SUFFICES ASSUME BridgeTypeOK, [Next]_vars PROVE BridgeTypeOK'
  OBVIOUS
<1>1. CASE Next
  BY <1>1, StartEditType, SubmitLineType, HandshakeTimeoutType, HearAnswerType, AnswerStolenType,
     TerminalAnswersType, AppletLostType, ConnectionBreaksType, AppletHandlesType, BackoffOverType,
     ConnectedType, ConnectFailsType, ShellHearsType, LinkClosesType, NonceExpiresType,
     PopupDestroyedType, CallStepType
  DEF Next
<1>2. CASE UNCHANGED vars
  BY <1>2
  DEF vars, ttyVars, hsVars, appletVars, clientVars, connVars, userVars, BridgeTypeOK
<1> QED BY <1>1, <1>2

-----------------------------------------------------------------------------
(* The connection.                                                         *)

LEMMA InitInv == Init => IInv
<1> SUFFICES ASSUME Init PROVE IInv
  OBVIOUS
<1>1. BridgeTypeOK
  BY InitType
<1>2. /\ hs.open /\ link = "absent" /\ ready = FALSE
      /\ conn.open = FALSE /\ conn.popups = {}
  BY DEF Init, NoConn
<1>3. \A c \in Call : call[c].state = "idle" /\ handle[c].open = FALSE
  BY DEF Init, NoHandle
<1>4. ListensUnlinked /\ ConnOfLink /\ PopupsNeedPane /\ ReadyFirst
  BY <1>2 DEF ListensUnlinked, ConnOfLink, PopupsNeedPane, ReadyFirst
<1>5. AnsweredIsReady /\ HandlesOfThisConnection
  BY <1>3 DEF AnsweredIsReady, HandlesOfThisConnection
<1> QED BY <1>1, <1>4, <1>5 DEF IInv

\* A step that leaves the connection and the promises alone, and the client unless it is
\* not connected and does not become so.
LEMMA LinkFrame ==
    ASSUME IInv, BridgeTypeOK', ListensUnlinked',
           UNCHANGED <<ready, conn, toShell, call, handle>>,
           link' = link \/ (link # "open" /\ link' # "open")
    PROVE  IInv'
  BY DEF IInv, ListensUnlinked, ConnOfLink, PopupsNeedPane, ReadyFirst, AnsweredIsReady,
         HandlesOfThisConnection

\* A step of the applet's end that neither opens a connection nor renames it, and says
\* "ready" before anything else.
LEMMA AppletFrameStep ==
    ASSUME IInv, BridgeTypeOK', UNCHANGED <<hs, link, ready, call, handle>>,
           conn'.open => conn.open, conn'.number = conn.number,
           \/ conn'.pane = conn.pane /\ toShell' = toShell /\ conn'.popups \subseteq conn.popups
           \/ /\ conn'.pane /\ toShell' = Append(toShell, [type |-> "ready"])
              /\ conn'.popups = conn.popups
           \/ /\ conn.pane /\ conn'.pane
              /\ \E f \in ShellFrame : toShell' = Append(toShell, f)
           \/ /\ conn.popups # {} /\ conn'.pane = conn.pane /\ conn'.popups \subseteq conn.popups
              /\ \E f \in ShellFrame : toShell' = Append(toShell, f)
    PROVE  IInv'
<1>1. toShell \in Seq(ShellFrame) /\ [type |-> "ready"] \in ShellFrame
  BY ShellFramesMade DEF IInv, BridgeTypeOK
<1>2. \A f \in ShellFrame :
          /\ Append(toShell, f) # <<>>
          /\ toShell # <<>> => Head(Append(toShell, f)) = Head(toShell)
          /\ toShell = <<>> => Head(Append(toShell, f)) = f
  BY <1>1, AppendKeepsHead
<1>3. ListensUnlinked' /\ ConnOfLink' /\ PopupsNeedPane'
  BY DEF IInv, ListensUnlinked, ConnOfLink, PopupsNeedPane
<1>4. AnsweredIsReady' /\ HandlesOfThisConnection'
  BY DEF IInv, AnsweredIsReady, HandlesOfThisConnection
<1>5. ReadyFirst'
  <2>1. CASE conn'.pane = conn.pane /\ toShell' = toShell
    BY <2>1 DEF IInv, ReadyFirst
  <2>2. CASE conn'.pane /\ toShell' = Append(toShell, [type |-> "ready"])
    <3>1. [type |-> "ready"].type = "ready"
      OBVIOUS
    <3> QED BY <1>1, <1>2, <2>2, <3>1 DEF IInv, ReadyFirst
  <2>3. ASSUME conn.pane, conn'.pane, NEW f \in ShellFrame, toShell' = Append(toShell, f)
        PROVE  ReadyFirst'
    BY <1>2, <2>3 DEF IInv, ReadyFirst
  <2>4. ASSUME conn.popups # {}, conn'.pane = conn.pane,
               NEW f \in ShellFrame, toShell' = Append(toShell, f)
        PROVE  ReadyFirst'
    BY <1>2, <2>4 DEF IInv, ReadyFirst, PopupsNeedPane
  <2> QED BY <2>1, <2>2, <2>3, <2>4
<1> QED BY <1>3, <1>4, <1>5 DEF IInv

\* The promise of a handshake resolves: the client was not connected and is not.
LEMMA ResolveUnlinked ==
    ASSUME IInv, NEW result \in [load : Nat, nonce : Nat], Resolve(result), hs.open
    PROVE  ListensUnlinked' /\ link # "open" /\ link' # "open" /\ ready' = ready
<1>1. ~hs'.open
  BY ResolveType DEF IInv
<1> QED BY <1>1 DEF IInv, ListensUnlinked, Resolve

LEMMA HandshakeTimeoutInv ==
    ASSUME IInv, HandshakeTimeout, BridgeTypeOK' PROVE IInv'
<1>1. None \in [load : Nat, nonce : Nat] /\ Resolve(None) /\ hs.open
  BY DEF None, HandshakeTimeout
<1>2. UNCHANGED <<conn, toShell, call, handle>>
  BY DEF HandshakeTimeout, connVars, userVars
<1> QED BY <1>1, <1>2, ResolveUnlinked, LinkFrame

LEMMA HearAnswerInv ==
    ASSUME IInv, HearAnswer, BridgeTypeOK' PROVE IInv'
<1>1. Head(answers) \in Answer /\ Hear(Head(answers))
  BY HeadTail DEF HearAnswer, IInv, BridgeTypeOK
<1>2. UNCHANGED <<conn, toShell, call, handle>>
  BY DEF HearAnswer, connVars, userVars
<1>3. CASE UNCHANGED <<hs, clientVars, asked>>
  <2>1. ListensUnlinked' /\ link' = link /\ ready' = ready
    BY <1>3 DEF IInv, ListensUnlinked, clientVars
  <2> QED BY <1>2, <2>1, LinkFrame
<1>4. CASE hs.open /\ hs' = [hs EXCEPT !.stage = "handshake"] /\ UNCHANGED clientVars
  <2>1. ListensUnlinked' /\ link' = link /\ ready' = ready
    BY <1>4 DEF IInv, ListensUnlinked, clientVars
  <2> QED BY <1>2, <2>1, LinkFrame
<1>5. ASSUME hs.open, NEW result \in [load : Nat, nonce : Nat], Resolve(result)
      PROVE  IInv'
  BY <1>2, <1>5, ResolveUnlinked, LinkFrame
<1> QED BY <1>1, <1>3, <1>4, <1>5, HearCases DEF IInv

LEMMA BackoffOverInv ==
    ASSUME IInv, BackoffOver, BridgeTypeOK' PROVE IInv'
<1>1. link = "backoff" /\ link' = "handshaking" /\ ready' = ready
      /\ UNCHANGED <<conn, toShell, call, handle>>
  BY DEF BackoffOver, connVars, userVars
<1>2. ListensUnlinked'
  BY <1>1 DEF ListensUnlinked
<1> QED BY <1>1, <1>2, LinkFrame

LEMMA ConnectFailsInv ==
    ASSUME IInv, ConnectFails, BridgeTypeOK' PROVE IInv'
<1>1. link = "connecting" /\ link' = "backoff" /\ UNCHANGED <<hs, ready, conn, toShell, call, handle>>
  BY DEF ConnectFails, hsVars, connVars, userVars
<1>2. ListensUnlinked'
  BY <1>1 DEF IInv, ListensUnlinked
<1> QED BY <1>1, <1>2, LinkFrame

LEMMA ConnectedInv ==
    ASSUME IInv, Connected, BridgeTypeOK' PROVE IInv'
<1>1. link = "connecting" /\ link' = "open" /\ UNCHANGED <<hs, ready, call, handle>>
  BY DEF Connected, hsVars, userVars
<1>2. conn'.open /\ ~conn'.pane /\ conn'.popups = {} /\ toShell' = <<>>
  BY ConnectedStep DEF IInv
<1>3. ready # TRUE
  BY <1>1 DEF IInv, ReadyFirst
<1>4. ListensUnlinked' /\ ConnOfLink' /\ PopupsNeedPane' /\ ReadyFirst'
  BY <1>1, <1>2, <1>3 DEF IInv, ListensUnlinked, ConnOfLink, PopupsNeedPane, ReadyFirst
<1>5. AnsweredIsReady' /\ HandlesOfThisConnection'
  BY <1>1 DEF IInv, AnsweredIsReady, HandlesOfThisConnection
<1> QED BY <1>4, <1>5 DEF IInv

\* What the shell hears: "ready" first, and then a call is only answered when it was sent.
LEMMA ShellHearsInv ==
    ASSUME IInv, ShellHears, BridgeTypeOK' PROVE IInv'
<1>1. link = "open" /\ link' = "open" /\ toShell # <<>> /\ UNCHANGED <<hs, conn>>
  BY DEF ShellHears, hsVars
<1>2. BridgeTypeOK /\ ready \in BOOLEAN
  BY DEF IInv, BridgeTypeOK
<1>3. conn.pane
  BY <1>1 DEF IInv, ReadyFirst
<1>4. ready'
  BY <1>1, <1>2, <1>3, ShellStep DEF IInv, ReadyFirst
<1>5. ListensUnlinked' /\ ConnOfLink' /\ PopupsNeedPane' /\ ReadyFirst' /\ AnsweredIsReady'
  BY <1>1, <1>3, <1>4
  DEF IInv, ListensUnlinked, ConnOfLink, PopupsNeedPane, ReadyFirst, AnsweredIsReady
<1>6. HandlesOfThisConnection'
  BY <1>1, <1>2, <1>4, ShellStep DEF IInv, HandlesOfThisConnection
<1> QED BY <1>5, <1>6 DEF IInv

LEMMA LinkClosesInv ==
    ASSUME IInv, LinkCloses, BridgeTypeOK' PROVE IInv'
<1>1. /\ link = "open" /\ link' = "backoff" /\ ~conn.open /\ ready' = FALSE /\ UNCHANGED <<hs, conn>>
      /\ \A c \in Call : call[c].state # "answered"
  BY DEF LinkCloses, hsVars, Microtasks
<1>2. \A c \in Call : call'[c].state # "answered" /\ handle'[c].open = FALSE
  <2> SUFFICES ASSUME NEW c \in Call PROVE call'[c].state # "answered" /\ handle'[c].open = FALSE
    OBVIOUS
  <2>1. call[c] \in CallRecord /\ handle[c] \in HandleRecord
    BY DEF IInv, BridgeTypeOK, CallRecord, HandleRecord
  <2>2. /\ call'[c] = IF call[c].state = "sent" THEN [call[c] EXCEPT !.state = "failed"] ELSE call[c]
        /\ handle'[c] = [handle[c] EXCEPT !.open = FALSE]
    BY DEF LinkCloses
  <2> QED BY <1>1, <2>1, <2>2 DEF CallRecord, HandleRecord
<1>3. ListensUnlinked' /\ ConnOfLink' /\ PopupsNeedPane' /\ ReadyFirst'
  BY <1>1 DEF IInv, ListensUnlinked, ConnOfLink, PopupsNeedPane, ReadyFirst
<1>4. AnsweredIsReady' /\ HandlesOfThisConnection'
  BY <1>2 DEF AnsweredIsReady, HandlesOfThisConnection
<1> QED BY <1>3, <1>4 DEF IInv

\* The steps of a call open a handle only when the call was answered.
LEMMA CallStepInv ==
    ASSUME IInv, NEW c \in Call, CallStep(c), BridgeTypeOK' PROVE IInv'
<1>1. UNCHANGED <<hs, link, ready, conn, toShell>>
  BY DEF CallStep, Make, Proceed, AwaitTimeout, PopupResumes, ClosePopup, hsVars, clientVars, connVars
<1>2. ListensUnlinked' /\ ConnOfLink' /\ PopupsNeedPane' /\ ReadyFirst'
  BY <1>1 DEF IInv, ListensUnlinked, ConnOfLink, PopupsNeedPane, ReadyFirst
<1>3. call \in [Call -> CallRecord] /\ handle \in [Call -> HandleRecord]
  BY DEF IInv, BridgeTypeOK, CallRecord, HandleRecord
<1>4. \A d \in Call : call'[d].state = "answered" => call[d].state = "answered"
  <2>1. CASE Make(c)
    BY <1>3, <2>1 DEF Make, Request
  <2>2. CASE Proceed(c)
    BY <1>3, <2>2 DEF Proceed, Request
  <2>3. CASE AwaitTimeout(c)
    BY <1>3, <2>3 DEF AwaitTimeout, CallRecord
  <2>4. CASE PopupResumes(c)
    BY <1>3, <2>4 DEF PopupResumes, CallRecord
  <2>5. CASE ClosePopup(c)
    BY <2>5 DEF ClosePopup, userVars
  <2> QED BY <2>1, <2>2, <2>3, <2>4, <2>5 DEF CallStep
<1>5. AnsweredIsReady'
  BY <1>1, <1>4 DEF IInv, AnsweredIsReady
<1>6. HandlesOfThisConnection'
  <2>1. CASE PopupResumes(c)
    <3>1. link = "open" /\ ready
      BY <2>1 DEF PopupResumes, IInv, AnsweredIsReady
    <3>2. handle' = [handle EXCEPT ![c] = [id |-> call[c].id, conn |-> conn.number, open |-> TRUE]]
      BY <2>1 DEF PopupResumes
    <3> QED BY <1>1, <1>3, <3>1, <3>2 DEF IInv, HandlesOfThisConnection
  <2>2. CASE ~PopupResumes(c)
    <3>1. handle' = handle
      BY <2>2 DEF CallStep, Make, Proceed, AwaitTimeout, ClosePopup, userVars
    <3> QED BY <1>1, <3>1 DEF IInv, HandlesOfThisConnection
  <2> QED BY <2>1, <2>2
<1> QED BY <1>2, <1>5, <1>6 DEF IInv

\* The steps of the tty and of the terminal do not touch the client at all.
LEMMA OutsideInv ==
    ASSUME IInv, BridgeTypeOK', UNCHANGED <<hs, link, ready, conn, toShell, call, handle>>
    PROVE  IInv'
<1>1. ListensUnlinked'
  BY DEF IInv, ListensUnlinked
<1> QED BY <1>1, LinkFrame

LEMMA StepInv == IInv /\ [Next]_vars => IInv'
<1> SUFFICES ASSUME IInv, [Next]_vars PROVE IInv'
  OBVIOUS
<1>1. BridgeTypeOK /\ BridgeTypeOK'
  BY StepType DEF IInv
<1>2. CASE StartEdit \/ SubmitLine \/ AnswerStolen \/ TerminalAnswers \/ \E n \in nonces : NonceExpires(n)
  <2>1. UNCHANGED <<hs, link, ready, conn, toShell, call, handle>>
    BY <1>2
    DEF StartEdit, SubmitLine, AnswerStolen, TerminalAnswers, NonceExpires, hsVars, clientVars,
        connVars, userVars
  <2> QED BY <1>1, <2>1, OutsideInv
<1>3. CASE AppletLost \/ ConnectionBreaks
  <2>1. UNCHANGED <<hs, link, ready, toShell, call, handle>> /\ conn' = Broken
    BY <1>3 DEF AppletLost, ConnectionBreaks, hsVars, clientVars, userVars
  <2>2. ~conn'.open /\ conn'.number = conn.number /\ conn'.pane = conn.pane /\ conn'.popups = {}
    BY <1>1, <2>1, BrokenType
  <2> QED BY <1>1, <2>1, <2>2, AppletFrameStep
<1>4. CASE AppletHandles
  <2>1. UNCHANGED <<hs, link, ready, call, handle>>
    BY <1>4 DEF AppletHandles, hsVars, clientVars, userVars
  <2> QED BY <1>1, <1>4, <2>1, AppletStep, AppletFrameStep
<1>5. CASE \E id \in conn.popups : PopupDestroyed(id)
  <2>1. PICK id \in conn.popups : PopupDestroyed(id)
    BY <1>5
  <2>2. UNCHANGED <<hs, link, ready, call, handle>>
    BY <2>1 DEF PopupDestroyed, hsVars, clientVars, userVars
  <2>3. /\ conn'.number = conn.number /\ conn'.open = conn.open
        /\ conn'.pane = conn.pane /\ conn'.popups \subseteq conn.popups /\ conn.popups # {}
        /\ \E f \in ShellFrame : toShell' = Append(toShell, f)
    BY <1>1, <2>1, PopupDestroyedStep
  <2> QED BY <1>1, <2>2, <2>3, AppletFrameStep
<1>6. CASE UNCHANGED vars
  BY <1>1, <1>6, OutsideInv DEF vars, hsVars, clientVars, connVars, userVars
<1> QED
  BY <1>1, <1>2, <1>3, <1>4, <1>5, <1>6, HandshakeTimeoutInv, HearAnswerInv, BackoffOverInv,
     ConnectedInv, ConnectFailsInv, ShellHearsInv, LinkClosesInv, CallStepInv
  DEF Next

\* Nonces only grow: that of the connection is behind that of the handshake, and what the
\* client connects with is not.
NoncesGrow ==
    /\ conn.nonce =< hs.nonce
    /\ link = "connecting" => creds.nonce =< hs.nonce

HandshakeInv == BridgeTypeOK /\ FreshHandshake /\ NoncesGrow

\* A handshake that resolves leaves its own nonce, or none.
LEMMA ResolveFresh ==
    ASSUME HandshakeInv, NEW result \in {None} \cup [load : Nat, nonce : {hs.nonce}],
           Resolve(result), hs.open, conn' = conn
    PROVE  FreshHandshake' /\ NoncesGrow'
<1>1. /\ hs \in [open : BOOLEAN, stage : {"load", "handshake"}, nonce : Nat]
      /\ conn.nonce \in Nat /\ hs.nonce > conn.nonce
      /\ link = "handshaking" \/ (link = "absent" /\ api = "pending")
  BY DEF HandshakeInv, BridgeTypeOK, FreshHandshake
<1>2. ~hs'.open /\ hs'.nonce = hs.nonce /\ creds' = result
  BY <1>1 DEF Resolve
<1>3. CASE result = None
  <2>1. link' = (IF link = "absent" THEN "absent" ELSE "givenUp")
        /\ api' = (IF link = "absent" THEN "null" ELSE api)
    BY <1>3 DEF Resolve
  <2> QED BY <1>1, <1>2, <2>1 DEF FreshHandshake, NoncesGrow
<1>4. CASE result # None
  <2>1. link' = "connecting" /\ creds'.nonce = hs.nonce
    BY <1>2, <1>4 DEF Resolve
  <2> QED BY <1>1, <1>2, <2>1 DEF FreshHandshake, NoncesGrow
<1> QED BY <1>3, <1>4

\* What the listener hears resolves the handshake with its own nonce, or not at all.
LEMMA HearFresh ==
    ASSUME BridgeTypeOK, NEW answer \in Answer, Hear(answer)
    PROVE  \/ UNCHANGED <<hs, clientVars>>
           \/ hs.open /\ hs' = [hs EXCEPT !.stage = "handshake"] /\ UNCHANGED clientVars
           \/ hs.open /\ \E result \in {None} \cup [load : Nat, nonce : {hs.nonce}] : Resolve(result)
<1>1. [load |-> answer.load, nonce |-> hs.nonce] \in [load : Nat, nonce : {hs.nonce}]
  BY DEF Answer
<1>2. hs.open \in BOOLEAN
  BY DEF BridgeTypeOK
<1> QED BY <1>1, <1>2 DEF Hear

\* The credentials are fresh after every step.
LEMMA StepFresh == HandshakeInv /\ [Next]_vars => FreshHandshake' /\ NoncesGrow'
<1> SUFFICES ASSUME HandshakeInv, [Next]_vars PROVE FreshHandshake' /\ NoncesGrow'
  OBVIOUS
<1>1. /\ BridgeTypeOK /\ FreshHandshake /\ NoncesGrow /\ conn.nonce \in Nat /\ creds.nonce \in Nat
      /\ hs \in [open : BOOLEAN, stage : {"load", "handshake"}, nonce : Nat]
  BY DEF HandshakeInv, BridgeTypeOK
<1>2. ASSUME UNCHANGED <<hs, link, creds, api>>, conn'.nonce = conn.nonce
      PROVE  FreshHandshake' /\ NoncesGrow'
  BY <1>1, <1>2 DEF FreshHandshake, NoncesGrow
<1>3. CASE HandshakeTimeout
  <2>1. conn' = conn /\ hs.open /\ Resolve(None)
    BY <1>3 DEF HandshakeTimeout, connVars
  <2> QED BY <2>1, ResolveFresh
<1>4. CASE HearAnswer
  <2>1. Head(answers) \in Answer /\ Hear(Head(answers)) /\ conn' = conn
    BY <1>1, <1>4, HeadTail DEF HearAnswer, BridgeTypeOK, connVars
  <2>2. CASE hs' = [hs EXCEPT !.stage = "handshake"] /\ UNCHANGED clientVars
    BY <1>1, <2>1, <2>2 DEF FreshHandshake, NoncesGrow, clientVars
  <2>3. CASE UNCHANGED <<hs, clientVars>>
    BY <1>2, <2>1, <2>3 DEF clientVars
  <2> QED BY <1>1, <2>1, <2>2, <2>3, HearFresh, ResolveFresh
<1>5. CASE BackoffOver
  <2>1. link = "backoff" /\ link' = "handshaking" /\ conn' = conn
    BY <1>5 DEF BackoffOver, connVars
  <2>2. ~hs.open
    BY <1>1, <2>1 DEF FreshHandshake
  <2>3. hs'.open /\ hs'.nonce = hs.nonce + 1
    BY <1>5, <2>2 DEF BackoffOver, GetCreds, NextNonce
  <2> QED BY <1>1, <2>1, <2>3 DEF FreshHandshake, NoncesGrow
<1>6. CASE Connected
  <2>1. link = "connecting" /\ link' = "open" /\ hs' = hs /\ conn'.nonce = creds.nonce
    BY <1>1, <1>6, ConnectedStep DEF Connected, hsVars
  <2>2. ~hs.open
    BY <1>1, <2>1 DEF FreshHandshake
  <2> QED BY <1>1, <2>1, <2>2 DEF FreshHandshake, NoncesGrow
<1>7. CASE ConnectFails \/ LinkCloses
  <2>1. link \in {"connecting", "open"} /\ link' = "backoff" /\ hs' = hs /\ conn' = conn
    BY <1>7 DEF ConnectFails, LinkCloses, hsVars, connVars
  <2> QED BY <1>1, <2>1 DEF FreshHandshake, NoncesGrow
<1>8. CASE ShellHears
  <2>1. link = "open" /\ UNCHANGED <<link, hs, conn, creds>>
    BY <1>8 DEF ShellHears, hsVars
  <2> QED BY <1>1, <2>1 DEF FreshHandshake, NoncesGrow
<1>9. CASE AppletLost \/ ConnectionBreaks \/ AppletHandles \/ \E id \in conn.popups : PopupDestroyed(id)
  <2>1. UNCHANGED <<hs, link, creds, api>>
    BY <1>9 DEF AppletLost, ConnectionBreaks, AppletHandles, PopupDestroyed, hsVars, clientVars
  <2>2. conn'.nonce = conn.nonce
    BY <1>1, <1>9, BrokenType, AppletStep, PopupDestroyedStep DEF AppletLost, ConnectionBreaks
  <2> QED BY <1>2, <2>1, <2>2
<1>10. CASE \/ StartEdit \/ SubmitLine \/ AnswerStolen \/ TerminalAnswers
            \/ \E n \in nonces : NonceExpires(n)
            \/ \E c \in Call : CallStep(c)
            \/ UNCHANGED vars
  <2>1. UNCHANGED <<hs, link, creds, api, conn>>
    BY <1>10
    DEF StartEdit, SubmitLine, AnswerStolen, TerminalAnswers, NonceExpires, CallStep, Make,
        Proceed, AwaitTimeout, PopupResumes, ClosePopup, vars, hsVars, clientVars, connVars
  <2> QED BY <1>2, <2>1
<1> QED BY <1>3, <1>4, <1>5, <1>6, <1>7, <1>8, <1>9, <1>10 DEF Next

-----------------------------------------------------------------------------
(* The theorems.                                                           *)

\* Every variable keeps its type, whatever goes wrong on the way.
THEOREM TypeCorrect == Spec => []BridgeTypeOK
<1> QED BY InitType, StepType, PTL DEF Spec

\* The connection's invariant: see IInv.
THEOREM ConnectionInvariant == Spec => []IInv
<1>1. Init => IInv
  BY InitInv
<1> QED BY <1>1, StepInv, PTL DEF Spec

\* A popup handle that can still be written to belongs to the connection that is open
\* (PopupHandle and the "close" handler of src/mb/client.ts).
THEOREM HandlesAreCurrent == Spec => []HandlesOfThisConnection
<1>1. IInv => HandlesOfThisConnection
  BY DEF IInv
<1> QED BY <1>1, ConnectionInvariant, PTL

\* A handshake is under way exactly while somebody waits for it, and no connection says
\* hello with a nonce that was used before (getCreds, scheduleReconnect).
THEOREM CredentialsAreFresh == Spec => []FreshHandshake
<1>1. Init => HandshakeInv
  <2> SUFFICES ASSUME Init PROVE HandshakeInv
    OBVIOUS
  <2>1. hs.open /\ hs.nonce = 1 /\ conn.nonce = 0 /\ link = "absent" /\ api = "pending"
    BY DEF Init, NoConn
  <2> QED BY <2>1, InitType DEF HandshakeInv, FreshHandshake, NoncesGrow
<1>2. HandshakeInv /\ [Next]_vars => HandshakeInv'
  BY StepType, StepFresh DEF HandshakeInv
<1>3. HandshakeInv => FreshHandshake
  BY DEF HandshakeInv
<1> QED BY <1>1, <1>2, <1>3, PTL DEF Spec

=============================================================================
