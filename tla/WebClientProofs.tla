-------------------------- MODULE WebClientProofs --------------------------
(* Proofs about the page and its lines to the server. *)
EXTENDS WebClient, SequenceTheorems, FiniteSetTheorems, TLAPS

(***************************************************************************)
(* The page never loses its way to the server: OneWayForward is inductive  *)
(* by itself.  It rests on two facts of the code: whatever forgets the     *)
(* socket sets the timer, and connect, which clears the timer, leaves with *)
(* a socket.  For the latter it matters that scheduleReconnect is called   *)
(* only where state.ws is null.                                            *)
(***************************************************************************)
LEMMA InitWay == Init => OneWayForward
BY DEF Init, OneWayForward

\* connect leaves with a socket; when the constructor throws, the timer stays.
LEMMA ConnectWay ==
    ASSUME OneWayForward, Connect \/ ConnectThrows PROVE OneWayForward'
<1>1. CASE Connect
  <2>1. ws = None
    BY <1>1 DEF Connect, OneWayForward
  <2>2. PICK s \in Socket : ws' = s
    BY <1>1, <2>1 DEF Connect
  <2>3. ws' # None /\ timer' = FALSE
    BY <1>1, <2>2, ClientAssumption DEF Connect
  <2> QED
    BY <2>3 DEF OneWayForward
<1>2. CASE ConnectThrows
  BY <1>2 DEF ConnectThrows, netVars, OneWayForward
<1> QED
  BY <1>1, <1>2

\* Whatever forgets the socket sets the timer.
LEMMA LossWay ==
    ASSUME PongOverdue \/ \E s \in Socket : Refused(s) \/ Unreachable(s) \/ OnClose(s)
    PROVE  OneWayForward'
<1>1. CASE PongOverdue
  BY <1>1 DEF PongOverdue, Disconnect, ScheduleReconnect, OneWayForward
<1>2. CASE \E s \in Socket : Refused(s) \/ Unreachable(s) \/ OnClose(s)
  BY <1>2 DEF Refused, Unreachable, OnClose, CloseHandler, ScheduleReconnect, OneWayForward
<1> QED
  BY <1>1, <1>2

\* Nothing else touches either.
LEMMA OtherSteps ==
    ASSUME [Next]_vars
    PROVE  \/ Connect \/ ConnectThrows \/ PongOverdue
           \/ \E s \in Socket : Refused(s) \/ Unreachable(s) \/ OnClose(s)
           \/ UNCHANGED <<ws, timer>>
<1>1. CASE Tick \/ ShowDialog \/ GameLoop \/ Submit("right") \/ Submit("wrong") \/ Forgotten
  BY <1>1 DEF Tick, ShowDialog, GameLoop, Submit, Forgotten, pageVars
<1>2. CASE \/ \E s \in Socket : OnOpen(s) \/ Serve(s) \/ ServerEnds(s) \/ LinkLost(s)
           \/ \E k \in EndKinds : OrphanEnds(k)
  BY <1>2 DEF OnOpen, Serve, ServerEnds, LinkLost, OrphanEnds, pageVars
<1>3. CASE \E s \in Socket : OnMessage(s)
  BY <1>3 DEF OnMessage, OnAuthSuccess, OnAuthFailure, OnPong
<1>4. CASE UNCHANGED vars
  BY <1>4 DEF vars, pageVars
<1> QED
  BY <1>1, <1>2, <1>3, <1>4 DEF Next

LEMMA StepWay == OneWayForward /\ [Next]_vars => OneWayForward'
<1> SUFFICES ASSUME OneWayForward, [Next]_vars PROVE OneWayForward'
  OBVIOUS
<1>1. CASE UNCHANGED <<ws, timer>>
  BY <1>1 DEF OneWayForward
<1> QED
  BY <1>1, ConnectWay, LossWay, OtherSteps

\* The page always has exactly one way forward: a socket of its own, or the
\* reconnect timer - for any number of sockets and whatever gets lost.
THEOREM PageKeepsItsWay == Spec => []OneWayForward
BY InitWay, StepWay, PTL DEF Spec
----------------------------------------------------------------------------
(* Messages under way.                                                     *)

Has(q, m) == \E i \in 1..Len(q) : q[i] = m

LEMMA AppendHas ==
    ASSUME NEW S, NEW q \in Seq(S), NEW m \in S
    PROVE  /\ Append(q, m) \in Seq(S)
           /\ \A x : Has(Append(q, m), x) => Has(q, x) \/ x = m
<1>1. /\ Append(q, m) \in Seq(S) /\ Len(q) \in Nat
      /\ Len(Append(q, m)) = Len(q) + 1
      /\ \A i \in 1..Len(q) : Append(q, m)[i] = q[i]
      /\ Append(q, m)[Len(q) + 1] = m
  BY AppendProperties, LenProperties
<1>2. ASSUME NEW x, NEW i \in 1..Len(Append(q, m)), Append(q, m)[i] = x
      PROVE  Has(q, x) \/ x = m
  <2>1. i \in 1..Len(q) \/ i = Len(q) + 1
    BY <1>1
  <2> QED
    BY <1>1, <1>2, <2>1 DEF Has
<1> QED
  BY <1>1, <1>2 DEF Has

LEMMA TailHas ==
    ASSUME NEW S, NEW q \in Seq(S), q # <<>>
    PROVE  /\ Tail(q) \in Seq(S) /\ Head(q) \in S /\ Has(q, Head(q))
           /\ \A x : Has(Tail(q), x) => Has(q, x)
<1>1. /\ Tail(q) \in Seq(S) /\ Head(q) \in S /\ Len(q) \in Nat \ {0}
      /\ Len(Tail(q)) = Len(q) - 1
      /\ \A i \in 1..Len(Tail(q)) : Tail(q)[i] = q[i + 1]
  BY HeadTailProperties, EmptySeq
<1>2. Has(q, Head(q))
  BY <1>1 DEF Has
<1>3. ASSUME NEW x, NEW i \in 1..Len(Tail(q)), Tail(q)[i] = x PROVE Has(q, x)
  <2>1. i + 1 \in 1..Len(q)
    BY <1>1
  <2> QED
    BY <1>1, <1>3, <2>1 DEF Has
<1> QED
  BY <1>1, <1>2, <1>3 DEF Has

LEMMA FarewellHas ==
    ASSUME NEW q \in Seq(ClientMessage)
    PROVE  /\ Farewell(q) \in Seq(ClientMessage)
           /\ \A x : Has(Farewell(q), x) => Has(q, x) \/ x \in {"heartbeat", "disconnect"}
<1>1. PICK r : r = IF Len(q) < MaxQueue THEN Append(q, "heartbeat") ELSE q
  OBVIOUS
<1>2. r \in Seq(ClientMessage) /\ \A x : Has(r, x) => Has(q, x) \/ x = "heartbeat"
  BY <1>1, AppendHas DEF ClientMessage
<1>3. Farewell(q) = Append(r, "disconnect") /\ "disconnect" \in ClientMessage
  BY <1>1 DEF Farewell, ClientMessage
<1> QED
  BY <1>2, <1>3, AppendHas

LEMMA EmptyHas == ASSUME NEW m PROVE ~Has(<<>>, m)
BY DEF Has
----------------------------------------------------------------------------
(* Types.                                                                  *)

LEMMA Null == /\ None \notin Socket /\ None \notin 0..MaxMissed /\ MaxMissed \in Nat
              /\ 0 \in 0..MaxMissed /\ 0 # None /\ MaxLosses \in Nat /\ MaxFailures \in Nat
BY ClientAssumption

LEMMA InitTyped == Init => TypeOK
<1>1. <<>> \in Seq(ClientMessage) /\ <<>> \in Seq(ServerMessage)
  BY EmptySeq
<1> SUFFICES ASSUME Init PROVE TypeOK
  OBVIOUS
<1>2. toServer \in [Socket -> Seq(ClientMessage)] /\ toClient \in [Socket -> Seq(ServerMessage)]
  BY <1>1 DEF Init
<1>3. losses \in 0..MaxLosses /\ failures \in 0..(MaxFailures + 1)
  BY Null DEF Init
<1>4. orphans \in [EndKinds -> Nat]
  BY DEF Init
<1> QED
  BY <1>2, <1>3, <1>4 DEF Init, TypeOK

\* sendWs appends to the line of the page's own open socket, or does nothing.
LEMMA SendTyped ==
    ASSUME TypeOK, NEW m \in ClientMessage, SendWs(m)
    PROVE  /\ toServer' \in [Socket -> Seq(ClientMessage)]
           /\ \A s \in Socket :
                \/ toServer'[s] = toServer[s]
                \/ s = ws /\ sock[s] = "open" /\ toServer'[s] = Append(toServer[s], m)
<1>1. CASE toServer' = toServer
  BY <1>1 DEF TypeOK
<1>2. CASE /\ ws # None /\ sock[ws] = "open"
           /\ toServer' = [toServer EXCEPT ![ws] = Append(@, m)]
  <2>1. ws \in Socket /\ toServer[ws] \in Seq(ClientMessage)
    BY <1>2 DEF TypeOK
  <2>2. Append(toServer[ws], m) \in Seq(ClientMessage)
    BY <2>1, AppendHas
  <2> QED
    BY <1>2, <2>1, <2>2 DEF TypeOK
<1> QED
  BY <1>1, <1>2 DEF SendWs

LEMMA DiscardTyped ==
    ASSUME TypeOK, NEW s \in Socket, Discard(s)
    PROVE  /\ sock' \in [Socket -> {"free", "connecting", "open", "closing"}]
           /\ srv' \in [Socket -> {"none", "stranger", "authed", "gone"}]
           /\ toServer' \in [Socket -> Seq(ClientMessage)]
           /\ toClient' \in [Socket -> Seq(ServerMessage)]
           /\ cut' \subseteq Socket /\ orphans' \in [EndKinds -> Nat]
           /\ UNCHANGED <<secret, failures>>
<1>1. <<>> \in Seq(ClientMessage) /\ <<>> \in Seq(ServerMessage)
  BY EmptySeq
<1>2. orphans' \in [EndKinds -> Nat]
  BY DEF Discard, TypeOK
<1> QED
  BY <1>1, <1>2 DEF Discard, TypeOK

LEMMA DisconnectTyped ==
    ASSUME TypeOK, Disconnect
    PROVE  /\ sock' \in [Socket -> {"free", "connecting", "open", "closing"}]
           /\ toServer' \in [Socket -> Seq(ClientMessage)]
<1>1. CASE ws = None
  BY <1>1 DEF Disconnect, TypeOK
<1>2. CASE ws # None
  <2>1. ws \in Socket /\ toServer[ws] \in Seq(ClientMessage)
    BY <1>2 DEF TypeOK
  <2>2. Farewell(toServer[ws]) \in Seq(ClientMessage)
    BY <2>1, FarewellHas
  <2> QED
    BY <1>2, <2>1, <2>2 DEF Disconnect, TypeOK
<1> QED
  BY <1>1, <1>2

\* What the server does with a message of s.
LEMMA ServeTyped ==
    ASSUME TypeOK, NEW s \in Socket, Serve(s)
    PROVE  /\ srv' \in [Socket -> {"none", "stranger", "authed", "gone"}]
           /\ toServer' \in [Socket -> Seq(ClientMessage)]
           /\ toClient' \in [Socket -> Seq(ServerMessage)]
           /\ failures' \in 0..(MaxFailures + 1)
<1>1. toServer[s] \in Seq(ClientMessage) /\ toServer[s] # <<>> /\ toClient[s] \in Seq(ServerMessage)
  BY DEF Serve, TypeOK
<1>2. Tail(toServer[s]) \in Seq(ClientMessage)
  BY <1>1, TailHas
<1>3. toServer' \in [Socket -> Seq(ClientMessage)]
  BY <1>2 DEF Serve, TypeOK
<1>4. \A m \in ServerMessage : Append(toClient[s], m) \in Seq(ServerMessage)
  BY <1>1, AppendHas
<1>5. /\ toClient' = toClient \/ \E m \in ServerMessage :
             toClient' = [toClient EXCEPT ![s] = Append(toClient[s], m)]
      /\ srv' = srv \/ srv' = [srv EXCEPT ![s] = "authed"] \/ srv' = [srv EXCEPT ![s] = "gone"]
  BY DEF Serve, Respond, RightPassword, WrongPassword, Reply, ServerMessage
<1>6. failures' \in 0..(MaxFailures + 1)
  BY Null DEF Serve, Respond, RightPassword, WrongPassword, TypeOK
<1> QED
  BY <1>3, <1>4, <1>5, <1>6 DEF TypeOK

LEMMA StepTyped == TypeOK /\ [Next]_vars => TypeOK'
<1> SUFFICES ASSUME TypeOK, [Next]_vars PROVE TypeOK'
  OBVIOUS
<1>m. {"good", "bad", "heartbeat", "gamepad_state"} \subseteq ClientMessage
  BY DEF ClientMessage
<1>l. Loss => losses' \in 0..MaxLosses
  BY Null DEF Loss, TypeOK
<1>1. CASE Connect \/ ConnectThrows \/ ShowDialog
  <2>1. CASE Connect
    <3>1. ws' \in Socket \cup {None} /\ connected' \in BOOLEAN
      BY <2>1 DEF Connect, TypeOK
    <3>2. sock' \in [Socket -> {"free", "connecting", "open", "closing"}]
      BY <2>1 DEF Connect, TypeOK
    <3> QED
      BY <2>1, <3>1, <3>2 DEF Connect, hostVars, TypeOK
  <2>2. CASE ConnectThrows
    BY <1>l, <2>2 DEF ConnectThrows, netVars, hostVars, TypeOK
  <2>3. CASE ShowDialog
    BY <2>3 DEF ShowDialog, netVars, hostVars, TypeOK
  <2> QED
    BY <1>1, <2>1, <2>2, <2>3
<1>2. CASE Tick
  <2>1. beat + 1 \in 0..MaxMissed
    BY <1>2, Null DEF Tick, TypeOK
  <2> QED
    BY <1>2, <1>m, <2>1, SendTyped DEF Tick, hostVars, TypeOK
<1>3. CASE PongOverdue
  <2>1. Disconnect /\ losses' \in 0..MaxLosses
    BY <1>3, <1>l DEF PongOverdue, TypeOK
  <2>2. /\ ws' = None /\ authenticated' = FALSE /\ connected' = FALSE
        /\ timer' = TRUE /\ beat' = None
        /\ UNCHANGED <<dialog, srv, cut, toClient, secret, failures, orphans>>
    BY <2>1 DEF Disconnect, StopHeartbeat, ScheduleReconnect, hostVars
  <2> QED
    BY <2>1, <2>2, DisconnectTyped DEF TypeOK
<1>4. CASE GameLoop \/ Submit("right") \/ Submit("wrong")
  <2>1. PICK m \in ClientMessage : SendWs(m)
    BY <1>4, <1>m DEF GameLoop, Submit
  <2>2. UNCHANGED <<pageVars, sock, srv, cut, toClient, hostVars, losses>>
    BY <1>4 DEF GameLoop, Submit
  <2> QED
    BY <2>1, <2>2, SendTyped DEF pageVars, hostVars, TypeOK
<1>5. ASSUME NEW s \in Socket, OnOpen(s) PROVE TypeOK'
  BY <1>5 DEF OnOpen, hostVars, TypeOK
<1>6. ASSUME NEW s \in Socket, Refused(s) \/ Unreachable(s) \/ OnClose(s) PROVE TypeOK'
  <2>1. Discard(s) /\ CloseHandler /\ losses' \in 0..MaxLosses
    BY <1>6, <1>l DEF Refused, Unreachable, OnClose, TypeOK
  <2>2. /\ ws' = None /\ authenticated' = FALSE /\ connected' = FALSE
        /\ timer' = TRUE /\ beat' = None /\ UNCHANGED dialog
    BY <2>1 DEF CloseHandler, StopHeartbeat, ScheduleReconnect
  <2> QED
    BY <2>1, <2>2, DiscardTyped DEF TypeOK
<1>7. ASSUME NEW s \in Socket, OnMessage(s) PROVE TypeOK'
  <2>1. Tail(toClient[s]) \in Seq(ServerMessage)
    BY <1>7, TailHas DEF OnMessage, TypeOK
  <2> QED
    BY <1>7, <2>1, Null DEF OnMessage, OnAuthSuccess, OnAuthFailure, OnPong, hostVars, TypeOK
<1>8. ASSUME NEW s \in Socket, Serve(s) PROVE TypeOK'
  BY <1>8, ServeTyped DEF Serve, pageVars, TypeOK
<1>9. ASSUME NEW s \in Socket, ServerEnds(s) PROVE TypeOK'
  BY <1>9, Null DEF ServerEnds, Loss, pageVars, hostVars, TypeOK
<1>10. CASE UNCHANGED vars
  BY <1>10 DEF vars, pageVars, netVars, hostVars, TypeOK
<1>11. ASSUME NEW s \in Socket, LinkLost(s) PROVE TypeOK'
  BY <1>11, <1>l DEF LinkLost, pageVars, hostVars, TypeOK
<1>12. ASSUME NEW k \in EndKinds, OrphanEnds(k) PROVE TypeOK'
  <2>1. orphans' \in [EndKinds -> Nat]
    BY <1>12 DEF OrphanEnds, TypeOK
  <2> QED
    BY <1>12, <2>1 DEF OrphanEnds, pageVars, netVars, TypeOK
<1>13. CASE Forgotten
  BY <1>13, Null DEF Forgotten, pageVars, netVars, TypeOK
<1> QED
  BY <1>1, <1>2, <1>3, <1>4, <1>5, <1>6, <1>7, <1>8, <1>9, <1>10, <1>11, <1>12, <1>13
     DEF Next

\* Every variable of the page and of its lines keeps its type.
THEOREM TypesHold == Spec => []TypeOK
BY InitTyped, StepTyped, PTL DEF Spec
----------------------------------------------------------------------------
(***************************************************************************)
(* The lines.  A line that carries the one login of a page is the page's   *)
(* only line, or is being closed: until the dialog is done nothing makes   *)
(* the page leave a socket that lives, and afterwards no password is sent  *)
(* any more.  So a login that arrives is about the socket in use, and what *)
(* is sent on it reaches a connection that is logged in.                   *)
(***************************************************************************)
Only(s) == ws = s /\ \A r \in Socket \ {s} : sock[r] = "free"

Accepts(s) == srv[s] \in {"authed", "gone"}

LineOk(s) ==
    /\ sock[s] \in {"free", "connecting"} => toServer[s] = <<>> /\ toClient[s] = <<>>
    /\ Has(toClient[s], "auth_success") => Accepts(s)
    /\ Has(toServer[s], "gamepad_state") => Accepts(s)
    /\ Has(toServer[s], "good") \/ Has(toClient[s], "auth_success")
         => sock[s] = "closing" \/ Only(s)

\* Of the sockets the page has lost sight of, one at most still lives.
OneStray ==
    \A r, s \in Socket : sock[r] # "free" /\ sock[s] # "free" /\ r # ws /\ s # ws => r = s

Alive == ws \in Socket => sock[ws] \in {"connecting", "open"}

BeforeLogin ==
    dialog # "done" => beat = None /\ \A s \in Socket : sock[s] # "free" => s = ws

\* Heartbeats run on the only line of the page.
AfterLogin ==
    /\ beat # None => ws \in Socket /\ sock[ws] = "open" /\ Only(ws)
    /\ authenticated => beat # None /\ Accepts(ws)

LinesInv ==
    /\ \A s \in Socket : LineOk(s)
    /\ OneStray /\ Alive /\ BeforeLogin /\ AfterLogin

LEMMA InitLines == Init => LinesInv
BY Null, EmptyHas DEF Init, LinesInv, LineOk, OneStray, Alive, BeforeLogin, AfterLogin

LEMMA ConnectLines == ASSUME TypeOK, LinesInv, Connect PROVE LinesInv'
<1>0. UNCHANGED <<authenticated, beat, dialog, srv, toServer, toClient>>
  BY DEF Connect
<1>1. CASE UNCHANGED <<ws, sock>>
  BY <1>0, <1>1
     DEF LinesInv, LineOk, OneStray, Alive, BeforeLogin, AfterLogin, Only, Accepts
<1>2. CASE ~UNCHANGED <<ws, sock>>
  <2>1. ws = None
    BY <1>2 DEF Connect, LinesInv, Alive, TypeOK
  <2>2. PICK s \in Socket : /\ sock[s] = "free" /\ ws' = s
                            /\ sock' = [sock EXCEPT ![s] = "connecting"]
    BY <1>2 DEF Connect
  <2>3. /\ sock'[s] = "connecting" /\ \A r \in Socket \ {s} : sock'[r] = sock[r]
    BY <2>2 DEF TypeOK
  <2>4. ASSUME NEW r \in Socket PROVE LineOk(r)'
    <3>1. LineOk(r) /\ LineOk(s)
      BY DEF LinesInv
    <3>2. ~Only(r)
      BY <2>1, Null DEF Only
    <3>3. CASE r = s
      BY <1>0, <2>2, <3>1, <3>3, EmptyHas DEF LineOk
    <3>4. CASE r # s
      BY <1>0, <2>3, <3>1, <3>2, <3>4 DEF LineOk, Accepts
    <3> QED
      BY <3>3, <3>4
  <2>5. OneStray'
    BY <2>1, <2>2, <2>3, Null DEF LinesInv, OneStray
  <2>6. Alive'
    BY <2>2, <2>3 DEF Alive
  <2>7. beat = None /\ authenticated = FALSE
    BY <2>1, Null DEF LinesInv, AfterLogin, TypeOK
  <2>8. BeforeLogin' /\ AfterLogin'
    BY <1>0, <2>1, <2>2, <2>3, <2>7, Null DEF LinesInv, BeforeLogin, AfterLogin
  <2> QED
    BY <2>4, <2>5, <2>6, <2>8 DEF LinesInv
<1> QED
  BY <1>1, <1>2

\* Whichever socket closes, the page forgets the one it uses: one of them was
\* the stray, if there were two.
LEMMA CloseLines ==
    ASSUME TypeOK, LinesInv, NEW s \in Socket, sock[s] # "free", Discard(s), CloseHandler
    PROVE  LinesInv'
<1>1. /\ ws' = None /\ authenticated' = FALSE /\ beat' = None /\ dialog' = dialog
  BY DEF CloseHandler, StopHeartbeat
<1>2. /\ sock'[s] = "free" /\ toServer'[s] = <<>> /\ toClient'[s] = <<>>
      /\ \A r \in Socket \ {s} : /\ sock'[r] = sock[r] /\ srv'[r] = srv[r]
                                 /\ toServer'[r] = toServer[r] /\ toClient'[r] = toClient[r]
  BY DEF Discard, TypeOK
<1>3. ASSUME NEW r \in Socket PROVE LineOk(r)'
  <2>1. LineOk(r)
    BY DEF LinesInv
  <2>2. CASE r = s
    BY <1>2, <2>2, EmptyHas DEF LineOk
  <2>3. CASE r # s
    <3>1. ~Only(r)
      BY <2>3 DEF Only
    <3> QED
      BY <1>2, <2>1, <2>3, <3>1 DEF LineOk, Accepts
  <2> QED
    BY <2>2, <2>3
<1>4. OneStray'
  BY <1>1, <1>2, Null DEF LinesInv, OneStray
<1>5. BeforeLogin' /\ AfterLogin' /\ Alive'
  BY <1>1, <1>2, Null DEF LinesInv, BeforeLogin, AfterLogin, Alive
<1> QED
  BY <1>3, <1>4, <1>5 DEF LinesInv

LEMMA OverdueLines == ASSUME TypeOK, LinesInv, PongOverdue PROVE LinesInv'
<1>1. /\ beat # None /\ ws \in Socket /\ sock[ws] = "open" /\ Only(ws) /\ dialog = "done"
  BY DEF PongOverdue, LinesInv, AfterLogin, BeforeLogin
<1>2. PICK w \in Socket : w = ws
  BY <1>1
<1>3. /\ sock' = [sock EXCEPT ![w] = "closing"]
      /\ toServer' = [toServer EXCEPT ![w] = Farewell(@)]
      /\ ws' = None /\ authenticated' = FALSE /\ beat' = None
      /\ UNCHANGED <<dialog, srv, toClient>>
  BY <1>1, <1>2, Null DEF PongOverdue, Disconnect, StopHeartbeat
<1>4. /\ sock'[w] = "closing" /\ toServer'[w] = Farewell(toServer[w])
      /\ \A r \in Socket \ {w} : sock'[r] = "free" /\ sock[r] = "free" /\ toServer'[r] = toServer[r]
  BY <1>1, <1>2, <1>3 DEF TypeOK, Only
<1>5. ASSUME NEW r \in Socket PROVE LineOk(r)'
  <2>1. LineOk(r)
    BY DEF LinesInv
  <2>2. CASE r = w
    <3>0. toServer[w] \in Seq(ClientMessage)
      BY DEF TypeOK
    <3>1. Has(toServer'[w], "gamepad_state") => Has(toServer[w], "gamepad_state")
      BY <1>4, <3>0, FarewellHas
    <3> QED
      BY <1>3, <1>4, <2>1, <2>2, <3>1 DEF LineOk, Accepts
  <2>3. CASE r # w
    BY <1>3, <1>4, <2>1, <2>3, EmptyHas DEF LineOk
  <2> QED
    BY <2>2, <2>3
<1>6. OneStray'
  BY <1>4 DEF OneStray
<1>7. BeforeLogin' /\ AfterLogin' /\ Alive'
  BY <1>1, <1>3, Null DEF BeforeLogin, AfterLogin, Alive
<1> QED
  BY <1>5, <1>6, <1>7 DEF LinesInv

\* The page sends: a password while the dialog is open, a frame after a login.
LEMMA SendLines ==
    ASSUME TypeOK, LinesInv, NEW m \in ClientMessage, SendWs(m),
           UNCHANGED <<ws, authenticated, dialog, sock, srv, toClient>>,
           beat' = beat \/ (beat # None /\ beat' # None),
           m = "good" => dialog = "shown",
           m = "gamepad_state" => authenticated
    PROVE  LinesInv'
<1>1. ASSUME NEW s \in Socket PROVE LineOk(s)'
  <2>1. LineOk(s)
    BY DEF LinesInv
  <2>2. CASE toServer'[s] = toServer[s]
    BY <2>1, <2>2 DEF LineOk, Accepts, Only
  <2>3. CASE s = ws /\ sock[s] = "open" /\ toServer'[s] = Append(toServer[s], m)
    <3>1. \A x : Has(toServer'[s], x) => Has(toServer[s], x) \/ x = m
      BY <2>3, AppendHas DEF TypeOK
    <3>2. m = "gamepad_state" => Accepts(s)
      BY <2>3 DEF LinesInv, AfterLogin
    <3>3. m = "good" => Only(s)
      BY <2>3 DEF LinesInv, BeforeLogin, Only
    <3> QED
      BY <2>1, <2>3, <3>1, <3>2, <3>3 DEF LineOk, Accepts, Only
  <2> QED
    BY <2>2, <2>3, SendTyped
<1>2. OneStray' /\ Alive' /\ BeforeLogin' /\ AfterLogin'
  BY DEF LinesInv, OneStray, Alive, BeforeLogin, AfterLogin, Only, Accepts
<1> QED
  BY <1>1, <1>2 DEF LinesInv

LEMMA OpenLines == ASSUME TypeOK, LinesInv, NEW s \in Socket, OnOpen(s) PROVE LinesInv'
<1>1. /\ sock[s] = "connecting" /\ UNCHANGED <<ws, authenticated, beat, dialog, toServer, toClient>>
      /\ sock'[s] = "open" /\ srv'[s] = "stranger"
      /\ \A r \in Socket \ {s} : sock'[r] = sock[r] /\ srv'[r] = srv[r]
  BY DEF OnOpen, TypeOK
<1>2. \A r \in Socket : sock'[r] = "free" <=> sock[r] = "free"
  BY <1>1
<1>3. \A r \in Socket : Only(r)' <=> Only(r)
  BY <1>1, <1>2 DEF Only
<1>4. ASSUME NEW r \in Socket PROVE LineOk(r)'
  <2>1. LineOk(r)
    BY DEF LinesInv
  <2>2. CASE r = s
    BY <1>1, <2>1, <2>2, EmptyHas DEF LineOk
  <2>3. CASE r # s
    BY <1>1, <1>3, <2>1, <2>3 DEF LineOk, Accepts
  <2> QED
    BY <2>2, <2>3
<1>5. OneStray' /\ Alive' /\ BeforeLogin'
  BY <1>1, <1>2 DEF LinesInv, OneStray, Alive, BeforeLogin
<1>6. AfterLogin'
  <2>1. beat # None => ws # s
    BY <1>1 DEF LinesInv, AfterLogin
  <2> QED
    BY <1>1, <1>3, <2>1 DEF LinesInv, AfterLogin, Accepts
<1> QED
  BY <1>4, <1>5, <1>6 DEF LinesInv

\* An auth_success that arrives came on the line the page uses.
LEMMA MessageLines == ASSUME TypeOK, LinesInv, NEW s \in Socket, OnMessage(s) PROVE LinesInv'
<1>1. /\ sock[s] = "open" /\ toClient[s] # <<>> /\ UNCHANGED <<ws, sock, srv, toServer>>
      /\ toClient'[s] = Tail(toClient[s])
      /\ \A r \in Socket \ {s} : toClient'[r] = toClient[r]
  BY DEF OnMessage, OnAuthSuccess, OnAuthFailure, OnPong, TypeOK
<1>2. /\ \A x : Has(toClient'[s], x) => Has(toClient[s], x)
      /\ Has(toClient[s], Head(toClient[s]))
  BY <1>1, TailHas DEF TypeOK
<1>3. ASSUME NEW r \in Socket PROVE LineOk(r)'
  <2>1. LineOk(r)
    BY DEF LinesInv
  <2>2. CASE r = s
    BY <1>1, <1>2, <2>1, <2>2 DEF LineOk, Accepts, Only
  <2>3. CASE r # s
    BY <1>1, <2>1, <2>3 DEF LineOk, Accepts, Only
  <2> QED
    BY <2>2, <2>3
<1>4. OneStray' /\ Alive'
  BY <1>1 DEF LinesInv, OneStray, Alive
<1>5. BeforeLogin' /\ AfterLogin'
  <2>1. CASE Head(toClient[s]) = "auth_success" /\ OnAuthSuccess
    <3>1. Only(s) /\ Accepts(s)
      BY <1>1, <1>2, <2>1 DEF LinesInv, LineOk
    <3>2. dialog' = "done" /\ beat' # None
      BY <2>1, Null DEF OnAuthSuccess
    <3> QED
      BY <1>1, <3>1, <3>2 DEF BeforeLogin, AfterLogin, Only, Accepts
  <2>2. CASE OnAuthFailure
    BY <1>1, <2>2 DEF OnAuthFailure, LinesInv, BeforeLogin, AfterLogin, Only, Accepts
  <2>3. CASE OnPong
    <3>1. (beat' = None <=> beat = None) /\ UNCHANGED <<authenticated, dialog>>
      BY <2>3, Null DEF OnPong
    <3> QED
      BY <1>1, <3>1 DEF LinesInv, BeforeLogin, AfterLogin, Only, Accepts
  <2> QED
    BY <2>1, <2>2, <2>3 DEF OnMessage
<1> QED
  BY <1>3, <1>4, <1>5 DEF LinesInv

\* The server answers a password on the line it came on.
LEMMA ServeLines == ASSUME TypeOK, LinesInv, NEW s \in Socket, Serve(s) PROVE LinesInv'
<1>1. /\ toServer[s] # <<>> /\ toServer'[s] = Tail(toServer[s])
      /\ \A r \in Socket \ {s} : toServer'[r] = toServer[r]
      /\ UNCHANGED <<ws, authenticated, beat, dialog, sock>>
  BY DEF Serve, pageVars, TypeOK
<1>2. /\ \A x : Has(toServer'[s], x) => Has(toServer[s], x)
      /\ Has(toServer[s], Head(toServer[s]))
  BY <1>1, TailHas DEF TypeOK
<1>3. /\ \A r \in Socket \ {s} : srv'[r] = srv[r] /\ toClient'[r] = toClient[r]
      /\ Accepts(s) => Accepts(s)'
      /\ \A x : Has(toClient'[s], x) =>
            \/ Has(toClient[s], x)
            \/ x # "auth_success"
            \/ Head(toServer[s]) = "good" /\ Accepts(s)'
  <2>0. toClient[s] \in Seq(ServerMessage)
    BY DEF TypeOK
  <2>1. \A m \in ServerMessage : \A x : Has(Append(toClient[s], m), x) => Has(toClient[s], x) \/ x = m
    BY <2>0, AppendHas
  <2>2. CASE Head(toServer[s]) = "good" /\ srv' = [srv EXCEPT ![s] = "authed"]
             /\ Reply(s, "auth_success")
    BY <2>1, <2>2 DEF Reply, TypeOK, Accepts, ServerMessage
  <2>3. CASE Reply(s, "auth_failure") /\ (UNCHANGED srv \/ srv' = [srv EXCEPT ![s] = "gone"])
    BY <2>1, <2>3 DEF Reply, TypeOK, Accepts, ServerMessage
  <2>4. CASE Reply(s, "pong") /\ UNCHANGED srv
    BY <2>1, <2>4 DEF Reply, TypeOK, Accepts, ServerMessage
  <2>5. CASE UNCHANGED <<srv, toClient>>
    BY <2>5 DEF Accepts
  <2>6. CASE srv' = [srv EXCEPT ![s] = "gone"] /\ UNCHANGED toClient
    BY <2>6 DEF TypeOK, Accepts
  <2> QED
    BY <2>2, <2>3, <2>4, <2>5, <2>6 DEF Serve, Respond, RightPassword, WrongPassword
<1>4. ASSUME NEW r \in Socket PROVE LineOk(r)'
  <2>1. LineOk(r)
    BY DEF LinesInv
  <2>2. CASE r = s
    <3>1. sock[s] \notin {"free", "connecting"}
      BY <1>1, <2>1, <2>2 DEF LineOk
    <3>2. /\ Has(toClient'[s], "auth_success") =>
                \/ Has(toClient[s], "auth_success")
                \/ Has(toServer[s], "good") /\ Accepts(s)'
      BY <1>2, <1>3
    <3> QED
      BY <1>1, <1>2, <1>3, <2>1, <2>2, <3>1, <3>2 DEF LineOk, Only
  <2>3. CASE r # s
    BY <1>1, <1>3, <2>1, <2>3 DEF LineOk, Accepts, Only
  <2> QED
    BY <2>2, <2>3
<1>5. \A r \in Socket : Accepts(r) => Accepts(r)'
  BY <1>3 DEF Accepts
<1>6. OneStray' /\ Alive' /\ BeforeLogin' /\ AfterLogin'
  BY <1>1, <1>5 DEF LinesInv, OneStray, Alive, BeforeLogin, AfterLogin, Only
<1> QED
  BY <1>4, <1>6 DEF LinesInv

LEMMA EndsLines == ASSUME TypeOK, LinesInv, NEW s \in Socket, ServerEnds(s) PROVE LinesInv'
<1>1. UNCHANGED <<ws, authenticated, beat, dialog, sock, toServer, toClient>>
  BY DEF ServerEnds, pageVars
<1>2. \A r \in Socket : Accepts(r) => Accepts(r)'
  BY DEF ServerEnds, Accepts, TypeOK
<1>3. ASSUME NEW r \in Socket PROVE LineOk(r)'
  BY <1>1, <1>2 DEF LinesInv, LineOk, Only
<1>4. OneStray' /\ Alive' /\ BeforeLogin' /\ AfterLogin'
  BY <1>1, <1>2 DEF LinesInv, OneStray, Alive, BeforeLogin, AfterLogin, Only
<1> QED
  BY <1>3, <1>4 DEF LinesInv

LEMMA QuietLines ==
    ASSUME LinesInv,
           \/ \E s \in Socket : LinkLost(s)
           \/ \E k \in EndKinds : OrphanEnds(k)
           \/ Forgotten
    PROVE  LinesInv'
<1>1. UNCHANGED <<pageVars, sock, srv, toServer, toClient>>
  BY DEF LinkLost, OrphanEnds, Forgotten, netVars
<1> QED
  BY <1>1 DEF pageVars, LinesInv, LineOk, OneStray, Alive, BeforeLogin, AfterLogin, Only, Accepts

LEMMA StepLines == TypeOK /\ LinesInv /\ [Next]_vars => LinesInv'
<1> SUFFICES ASSUME TypeOK, LinesInv, [Next]_vars PROVE LinesInv'
  OBVIOUS
<1>m. {"good", "bad", "heartbeat", "gamepad_state"} \subseteq ClientMessage
  BY DEF ClientMessage
<1>1. CASE UNCHANGED <<ws, authenticated, beat, sock, srv, toServer, toClient>>
           /\ (dialog' = dialog \/ (dialog # "done" /\ dialog' # "done"))
  BY <1>1 DEF LinesInv, LineOk, OneStray, Alive, BeforeLogin, AfterLogin, Only, Accepts
<1>2. CASE ConnectThrows \/ ShowDialog \/ UNCHANGED vars
  BY <1>1, <1>2 DEF ConnectThrows, ShowDialog, vars, pageVars, netVars
<1>3. CASE Tick
  <2>1. beat' # None
    BY <1>3, Null DEF Tick, TypeOK
  <2> QED
    BY <1>3, <1>m, <2>1, SendLines DEF Tick
<1>4. CASE GameLoop \/ Submit("right") \/ Submit("wrong")
  <2>1. PICK m \in ClientMessage : /\ SendWs(m)
                                   /\ m = "good" => dialog = "shown"
                                   /\ m = "gamepad_state" => authenticated
    BY <1>4, <1>m DEF GameLoop, Submit
  <2>2. UNCHANGED <<ws, authenticated, dialog, beat, sock, srv, toClient>>
    BY <1>4 DEF GameLoop, Submit, pageVars
  <2> QED
    BY <2>1, <2>2, SendLines
<1>5. CASE Connect \/ PongOverdue
  BY <1>5, ConnectLines, OverdueLines
<1>6. ASSUME NEW s \in Socket, Refused(s) \/ Unreachable(s) \/ OnClose(s) PROVE LinesInv'
  BY <1>6, CloseLines DEF Refused, Unreachable, OnClose
<1>7. ASSUME NEW s \in Socket, OnOpen(s) \/ OnMessage(s) \/ Serve(s) \/ ServerEnds(s)
      PROVE  LinesInv'
  BY <1>7, OpenLines, MessageLines, ServeLines, EndsLines
<1> QED
  BY <1>2, <1>3, <1>4, <1>5, <1>6, <1>7, QuietLines DEF Next

LEMMA LinesHold == Spec => []LinesInv
BY InitLines, StepLines, TypesHold, PTL DEF Spec

\* Every frame of the game reaches a connection that is logged in, or dead -
\* for any number of sockets, losses and messages under way.
THEOREM FramesReachLogins == Spec => []FramesAccepted
<1>1. TypeOK /\ LinesInv => FramesAccepted
  <2> SUFFICES ASSUME TypeOK, LinesInv, NEW s \in Socket, toServer[s] # <<>>,
                      Head(toServer[s]) = "gamepad_state"
               PROVE  srv[s] \in {"authed", "gone"}
    BY DEF FramesAccepted
  <2>1. Has(toServer[s], "gamepad_state")
    BY TailHas DEF TypeOK
  <2> QED
    BY <2>1 DEF LinesInv, LineOk, Accepts
<1> QED
  BY <1>1, LinesHold, TypesHold, PTL

\* The browser holds two sockets of a page at most, however often it loses them.
THEOREM PageHoldsTwoSockets == Spec => []TwoSocketsAtMost
<1>1. LinesInv => TwoSocketsAtMost
  <2> SUFFICES ASSUME LinesInv PROVE TwoSocketsAtMost
    OBVIOUS
  <2> DEFINE live == {s \in Socket : sock[s] # "free"}
  <2>1. ASSUME NEW a, NEW b, live \subseteq {a, b} PROVE Cardinality(live) <= 2
    <3>1. IsFiniteSet({a}) /\ Cardinality({a}) = 1
      BY FS_Singleton
    <3>2. IsFiniteSet({a} \cup {b}) /\ Cardinality({a} \cup {b}) \in {1, 2}
      BY <3>1, FS_AddElement
    <3>3. live \in SUBSET ({a} \cup {b})
      BY <2>1
    <3>4. IsFiniteSet(live) /\ Cardinality(live) <= Cardinality({a} \cup {b})
      BY <3>2, <3>3, FS_Subset
    <3>5. Cardinality(live) \in Nat
      BY <3>4, FS_CardinalityType
    <3> QED
      BY <3>2, <3>4, <3>5
  <2>2. CASE \E r \in live : r # ws
    <3>1. PICK r \in live : r # ws
      BY <2>2
    <3>2. live \subseteq {ws, r}
      BY <3>1 DEF LinesInv, OneStray
    <3> QED
      BY <2>1, <3>2 DEF TwoSocketsAtMost
  <2>3. CASE ~\E r \in live : r # ws
    <3>1. live \subseteq {ws, ws}
      BY <2>3
    <3> QED
      BY <2>1, <3>1 DEF TwoSocketsAtMost
  <2> QED
    BY <2>2, <2>3
<1> QED
  BY <1>1, LinesHold, PTL
=============================================================================
