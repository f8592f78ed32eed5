----------------------------- MODULE WebClient -----------------------------
(***************************************************************************)
(* The page that index serves, and the server's end of its sockets: one    *)
(* action per callback of the page (timers, socket events, the password    *)
(* dialog, the animation frame).  A callback runs to its end before the    *)
(* next one starts.  Socket names are used again once the page's end is    *)
(* closed.  A server end is "gone" when handle_socket has returned; one    *)
(* whose link is lost lives on, with its permits, until its heartbeat      *)
(* timeout.  The page learns of either from onclose only, or from pongs    *)
(* that do not come.  The page is the only client of its address.          *)
(***************************************************************************)
EXTENDS Naturals, Sequences, FiniteSets

CONSTANTS Socket, None,
          MaxTotal,    \* Config::max_connections
          MaxUnauth,   \* Config::max_unauth_connections
          MaxFailures, \* Config::max_auth_failures
          MaxQueue,    \* bound: messages under way in one direction
          MaxLosses,   \* bound: faults of the network, and unused connections
          MaxMissed    \* ticks without a pong before the page must give up: 4
ASSUME ClientAssumption ==
    /\ MaxQueue \in Nat \ {0} /\ MaxLosses \in Nat /\ MaxMissed \in Nat \ {0}
    /\ None \notin Socket \cup (0..MaxMissed)
    /\ IsFiniteSet(Socket) /\ MaxFailures \in Nat
    /\ MaxTotal \in Nat /\ MaxUnauth \in Nat

VARIABLES ws,             \* state.ws
          connected,      \* state.connected
          authenticated,  \* state.authenticated
          timer,          \* state.reconnectTimer is set
          beat,           \* heartbeatInterval: ticks since the last pong, or None
          dialog,         \* "polling": waitForWs runs; "shown"; "done"
          sock,           \* readyState of each socket, "free" if it does not exist
          srv,            \* the server's end of each socket
          cut,            \* sockets whose link is lost
          toServer, toClient,   \* messages under way
          secret,         \* the configured password; how it begins and ends
          failures,       \* failed logins of the page's address, up to limit + 1
          orphans,        \* server ends whose socket the page has forgotten
          losses

pageVars == <<ws, connected, authenticated, timer, beat, dialog>>
netVars  == <<sock, srv, cut, toServer, toClient>>
hostVars == <<secret, failures, orphans>>
vars     == <<pageVars, netVars, hostVars, losses>>

EndKinds == {"stranger", "authed"}   \* a server end without and with a login

Init ==
    /\ ws = None /\ connected = FALSE /\ authenticated = FALSE
    /\ timer = TRUE   \* init calls connect: as if a timer fired at once
    /\ beat = None /\ dialog = "polling"
    /\ sock = [s \in Socket |-> "free"] /\ srv = [s \in Socket |-> "none"] /\ cut = {}
    /\ toServer = [s \in Socket |-> <<>>] /\ toClient = [s \in Socket |-> <<>>]
    /\ secret \in {"plain", "padded", "blank"}
    /\ failures = 0 /\ orphans = [k \in EndKinds |-> 0]
    /\ losses = 0

Loss == losses < MaxLosses /\ losses' = losses + 1
----------------------------------------------------------------------------
(* Helpers of the page.                                                    *)

\* A timer that is set already stays.
ScheduleReconnect == timer' = TRUE

StopHeartbeat == beat' = None

\* sendWs: a message goes out only on a socket that is open, and otherwise
\* nowhere.  (In this model it also gets lost in a backlog of MaxQueue.)
SendWs(m) ==
    toServer' = IF /\ ws # None /\ sock[ws] = "open"
                   /\ Len(toServer[ws]) < MaxQueue
                THEN [toServer EXCEPT ![ws] = Append(@, m)] ELSE toServer

\* A closed socket.  The server's end stays where the link is lost.
Discard(s) ==
    /\ sock' = [sock EXCEPT ![s] = "free"] /\ srv' = [srv EXCEPT ![s] = "none"]
    /\ cut' = cut \ {s}
    /\ orphans' = [k \in EndKinds |-> IF k = srv[s] THEN orphans[k] + 1 ELSE orphans[k]]
    /\ UNCHANGED <<secret, failures>>
    /\ toServer' = [toServer EXCEPT ![s] = <<>>]
    /\ toClient' = [toClient EXCEPT ![s] = <<>>]
----------------------------------------------------------------------------
(* Connecting.                                                             *)

BugConnect ==
    /\ timer
    /\ \E s \in Socket :
        /\ sock[s] = "free"
        /\ sock' = [sock EXCEPT ![s] = "connecting"]
        /\ ws' = s
    /\ connected' = FALSE
    /\ UNCHANGED <<timer, authenticated, beat, dialog, srv, cut, toServer, toClient,
                   hostVars, losses>>

\* The timeout of scheduleReconnect calls connect.  A socket that is open or
\* connecting already is kept.
Connect ==
    /\ timer
    /\ timer' = FALSE
    /\ IF ws # None /\ sock[ws] \in {"open", "connecting"}
       THEN UNCHANGED <<ws, connected, sock>>
       ELSE \E s \in Socket :
            /\ sock[s] = "free"
            /\ sock' = [sock EXCEPT ![s] = "connecting"]
            /\ ws' = s /\ connected' = FALSE
    /\ UNCHANGED <<authenticated, beat, dialog, srv, cut, toServer, toClient, hostVars, losses>>

\* The constructor throws, and connect schedules the next attempt.
ConnectThrows ==
    /\ timer /\ Loss
    /\ connected' = FALSE
    /\ UNCHANGED <<ws, authenticated, timer, beat, dialog, netVars, hostVars>>

Locked == failures > 0 /\ failures >= MaxFailures

\* The server ends that hold a permit: those of the page, orphans included.
Ends(kinds) == Cardinality({s \in Socket : srv[s] \in kinds})
Orphans == orphans["stranger"] + orphans["authed"]

\* ws_upgrade of a request without a token.
Admitted ==
    /\ ~Locked
    /\ Ends(EndKinds) + Orphans < MaxTotal
    /\ Ends({"stranger"}) + orphans["stranger"] < MaxUnauth

\* The server accepts (handle_socket starts), and onopen runs.
OnOpen(s) ==
    /\ sock[s] = "connecting" /\ Admitted
    /\ sock' = [sock EXCEPT ![s] = "open"]
    /\ srv' = [srv EXCEPT ![s] = "stranger"]
    /\ connected' = TRUE
    /\ UNCHANGED <<ws, authenticated, timer, beat, dialog, cut, toServer, toClient,
                   hostVars, losses>>

\* What onclose does, whichever socket it belongs to.
CloseHandler ==
    /\ ws' = None /\ authenticated' = FALSE
    /\ connected' = FALSE
    /\ StopHeartbeat /\ ScheduleReconnect
    /\ UNCHANGED dialog

\* 403 to a locked address, 503 where ends of the page itself hold the permits:
\* as often as the page asks.
Refused(s) ==
    /\ sock[s] = "connecting" /\ ~Admitted
    /\ Discard(s)
    /\ CloseHandler
    /\ UNCHANGED losses

\* The server cannot be reached, or other clients hold its permits.
Unreachable(s) ==
    /\ sock[s] = "connecting" /\ Loss
    /\ Discard(s)
    /\ CloseHandler

OnClose(s) ==
    /\ sock[s] \in {"open", "closing"} /\ (srv[s] = "gone" \/ s \in cut)
    /\ Discard(s)
    /\ CloseHandler
    /\ UNCHANGED losses
----------------------------------------------------------------------------
(* Messages from the server.                                               *)

OnAuthSuccess ==
    /\ authenticated' = TRUE /\ connected' = TRUE
    /\ dialog' = "done"
    /\ beat' = 0
    /\ UNCHANGED <<ws, timer>>

OnAuthFailure ==
    /\ authenticated' = FALSE
    /\ UNCHANGED <<ws, connected, timer, beat, dialog>>

OnPong ==
    /\ beat' = IF beat = None THEN None ELSE 0
    /\ UNCHANGED <<ws, connected, authenticated, timer, dialog>>

OnMessage(s) ==
    /\ sock[s] = "open" /\ toClient[s] # <<>>
    /\ \/ Head(toClient[s]) = "auth_success" /\ OnAuthSuccess
       \/ Head(toClient[s]) = "auth_failure" /\ OnAuthFailure
       \/ Head(toClient[s]) = "pong" /\ OnPong
    /\ toClient' = [toClient EXCEPT ![s] = Tail(@)]
    /\ UNCHANGED <<sock, srv, cut, toServer, hostVars, losses>>
----------------------------------------------------------------------------
(* Timers, the dialog and the animation frame.                             *)

BugDisconnect ==
    /\ ws' = None /\ authenticated' = FALSE /\ connected' = FALSE
    /\ ScheduleReconnect
    /\ IF ws = None THEN UNCHANGED <<sock, toServer>>
       ELSE /\ sock' = [sock EXCEPT ![ws] = "closing"]
            /\ toServer' = [toServer EXCEPT ![ws] = Append(@, "disconnect")]
    /\ UNCHANGED <<dialog, srv, cut, toClient, hostVars, beat>>

\* The interval's heartbeat and the goodbye of disconnect().  (The heartbeat may
\* get lost in the backlog, the goodbye does not.)
Farewell(q) == Append(IF Len(q) < MaxQueue THEN Append(q, "heartbeat") ELSE q, "disconnect")

\* disconnect(): say goodbye, close, try again.
Disconnect ==
    /\ StopHeartbeat
    /\ IF ws = None THEN UNCHANGED <<sock, toServer>>
       ELSE /\ sock' = [sock EXCEPT ![ws] = "closing"]
            /\ toServer' = [toServer EXCEPT ![ws] =
                              IF sock[ws] = "open" THEN Farewell(@) ELSE @]
    /\ ws' = None /\ authenticated' = FALSE /\ connected' = FALSE
    /\ ScheduleReconnect
    /\ UNCHANGED <<dialog, srv, cut, toClient, hostVars>>

BugTick ==
    /\ beat # None
    /\ beat' = beat + 1
    /\ SendWs("heartbeat")
    /\ UNCHANGED <<ws, connected, authenticated, timer, dialog, sock, srv, cut, toClient,
                   hostVars, losses>>

\* A heartbeat every 5 s.  12 s without a pong are over at the third tick or,
\* if a pong came late in its interval, at the fourth.
Tick ==
    /\ beat # None /\ beat + 1 < MaxMissed
    /\ beat' = beat + 1
    /\ SendWs("heartbeat")
    /\ UNCHANGED <<ws, connected, authenticated, timer, dialog, sock, srv, cut, toClient,
                   hostVars, losses>>

PongOverdue ==
    /\ beat # None /\ beat + 2 >= MaxMissed
    /\ IF ws # None /\ (srv[ws] = "gone" \/ ws \in cut) THEN UNCHANGED losses ELSE Loss
    /\ Disconnect

BugShowDialog ==
    /\ dialog = "polling"
    /\ dialog' = IF ws # None /\ connected /\ ~authenticated THEN "shown" ELSE "done"
    /\ UNCHANGED <<ws, connected, authenticated, timer, beat, netVars, hostVars, losses>>

\* waitForWs, every 200 ms until the dialog was shown once.
ShowDialog ==
    /\ dialog = "polling"
    /\ ws # None /\ connected /\ ~authenticated
    /\ dialog' = "shown"
    /\ UNCHANGED <<ws, connected, authenticated, timer, beat, netVars, hostVars, losses>>

\* doAuth.  The button is disabled until an answer comes, but Enter is not.  The
\* page trims what was typed and sends nothing if nothing is left; the server
\* compares with the password as it is configured.
Submit(typed) ==
    /\ dialog = "shown"
    /\ typed = "right" => secret # "blank"
    /\ SendWs(IF typed = "right" /\ secret = "plain" THEN "good" ELSE "bad")
    /\ UNCHANGED <<pageVars, sock, srv, cut, toClient, hostVars, losses>>

BugGameLoop ==
    /\ connected
    /\ ws # None /\ toServer[ws] = <<>>
    /\ SendWs("gamepad_state")
    /\ UNCHANGED <<pageVars, sock, srv, cut, toClient, hostVars, losses>>

\* gameLoop: one frame.  (In this model a frame waits for the line to clear.)
GameLoop ==
    /\ connected /\ authenticated
    /\ ws # None /\ toServer[ws] = <<>>
    /\ SendWs("gamepad_state")
    /\ UNCHANGED <<pageVars, sock, srv, cut, toClient, hostVars, losses>>
----------------------------------------------------------------------------
(* The server's end: handle_socket as the page sees it.                    *)

Reply(s, m) == toClient' = [toClient EXCEPT ![s] = Append(@, m)]

\* handle_auth_request: the last failure the server takes ends the connection.
WrongPassword(s) ==
    /\ failures' = IF failures > MaxFailures THEN failures ELSE failures + 1
    /\ Reply(s, "auth_failure")
    /\ srv' = IF failures' >= MaxFailures THEN [srv EXCEPT ![s] = "gone"] ELSE srv

RightPassword(s) ==
    /\ failures' = 0
    /\ Reply(s, "auth_success")
    /\ srv' = [srv EXCEPT ![s] = "authed"]

Respond(s, m) ==
    \/ m = "good" /\ RightPassword(s)
    \/ m = "bad" /\ WrongPassword(s)
    \/ /\ UNCHANGED failures
       /\ \/ m = "heartbeat" /\ srv[s] = "authed" /\ Reply(s, "pong") /\ UNCHANGED srv
          \/ m = "heartbeat" /\ srv[s] = "stranger" /\ UNCHANGED <<srv, toClient>>
          \/ m = "gamepad_state" /\ UNCHANGED <<srv, toClient>>
          \/ m = "disconnect" /\ srv' = [srv EXCEPT ![s] = "gone"] /\ UNCHANGED toClient

Serve(s) ==
    /\ srv[s] \in EndKinds /\ s \notin cut /\ toServer[s] # <<>>
    /\ Len(toClient[s]) < MaxQueue \/ sock[s] = "closing"
    /\ Respond(s, Head(toServer[s]))
    /\ toServer' = [toServer EXCEPT ![s] = Tail(@)]
    /\ UNCHANGED <<pageVars, sock, cut, secret, orphans, losses>>

\* The heartbeat timeout.  A socket the page no longer uses, or cannot be heard
\* on, or has nothing to say on (no dialog, no login), times out in any case and
\* is not counted.
ServerEnds(s) ==
    /\ srv[s] \in EndKinds
    /\ IF s = ws /\ s \notin cut /\ (dialog # "done" \/ authenticated)
       THEN Loss ELSE UNCHANGED losses
    /\ srv' = [srv EXCEPT ![s] = "gone"]
    /\ UNCHANGED <<pageVars, sock, cut, toServer, toClient, hostVars>>

\* Nothing gets through any more, in either direction.
LinkLost(s) ==
    /\ srv[s] \in EndKinds /\ s \notin cut /\ Loss
    /\ cut' = cut \cup {s}
    /\ UNCHANGED <<pageVars, sock, srv, toServer, toClient, hostVars>>

\* The heartbeat timeout of an end the page knows nothing of.
OrphanEnds(k) ==
    /\ orphans[k] > 0
    /\ orphans' = [orphans EXCEPT ![k] = @ - 1]
    /\ UNCHANGED <<pageVars, netVars, secret, failures, losses>>

\* Another address fails when this one's entry has expired: retain drops it.
Forgotten ==
    /\ failures > 0
    /\ failures' = 0
    /\ UNCHANGED <<pageVars, netVars, secret, orphans, losses>>

Next ==
    \/ Connect \/ ConnectThrows \/ Tick \/ PongOverdue \/ ShowDialog \/ GameLoop
    \/ Submit("right") \/ Submit("wrong") \/ Forgotten
    \/ \E k \in EndKinds : OrphanEnds(k)
    \/ \E s \in Socket : \/ OnOpen(s) \/ Refused(s) \/ Unreachable(s) \/ OnClose(s)
                         \/ OnMessage(s) \/ Serve(s) \/ ServerEnds(s) \/ LinkLost(s)

Spec == Init /\ [][Next]_vars

(***************************************************************************)
(* Timers fire, also the heartbeat timeout of an end nobody can reach; the *)
(* browser reports what happens to a socket, the server answers requests   *)
(* and reads what it is sent, and a user in front of the dialog keeps      *)
(* trying until the right password gets through.                           *)
(***************************************************************************)
Fairness ==
    /\ WF_vars(Connect) /\ WF_vars(Tick \/ PongOverdue) /\ WF_vars(ShowDialog)
    /\ \A k \in EndKinds : WF_vars(OrphanEnds(k))
    /\ \A s \in Socket : /\ WF_vars(OnOpen(s) \/ Refused(s)) /\ WF_vars(OnClose(s))
                         /\ WF_vars(OnMessage(s)) /\ WF_vars(Serve(s))
    /\ SF_vars(Submit("right"))

FairSpec == Spec /\ Fairness
----------------------------------------------------------------------------
ClientMessage == {"good", "bad", "heartbeat", "gamepad_state", "disconnect"}
ServerMessage == {"auth_success", "auth_failure", "pong"}

TypeOK ==
    /\ ws \in Socket \cup {None}
    /\ connected \in BOOLEAN /\ authenticated \in BOOLEAN /\ timer \in BOOLEAN
    /\ beat \in (0..MaxMissed) \cup {None}
    /\ dialog \in {"polling", "shown", "done"}
    /\ sock \in [Socket -> {"free", "connecting", "open", "closing"}]
    /\ srv \in [Socket -> {"none", "stranger", "authed", "gone"}]
    /\ toServer \in [Socket -> Seq(ClientMessage)]
    /\ toClient \in [Socket -> Seq(ServerMessage)]
    /\ cut \subseteq Socket
    /\ secret \in {"plain", "padded", "blank"}
    /\ failures \in 0..(MaxFailures + 1)
    /\ orphans \in [EndKinds -> Nat]
    /\ losses \in 0..MaxLosses

(***************************************************************************)
(* The page always has exactly one way forward: a socket of its own, or    *)
(* the timer that will make one.  An onclose of an old socket that comes   *)
(* while a newer one is in use, a constructor that throws and a missed     *)
(* pong all keep to it.                                                    *)
(***************************************************************************)
OneWayForward == (ws = None) <=> timer

(***************************************************************************)
(* The browser holds two sockets of the page at most: the one it is        *)
(* closing or has lost sight of, and its successor - however the reconnect *)
(* timer, a missed pong and a stale onclose follow each other.  It says    *)
(* nothing of the server, where ends outlive their socket (orphans).       *)
(***************************************************************************)
TwoSocketsAtMost == Cardinality({s \in Socket : sock[s] # "free"}) <= 2

(***************************************************************************)
(* Every gamepad_state the page sends reaches a connection that is logged  *)
(* in (or dead): the server never has to refuse one (handler.rs:387).      *)
(***************************************************************************)
FramesAccepted ==
    \A s \in Socket : toServer[s] # <<>> /\ Head(toServer[s]) = "gamepad_state" =>
        srv[s] \in {"authed", "gone"}

(***************************************************************************)
(* A user who keeps entering the right password gets in, or has locked the *)
(* address by wrong ones: whatever happens to the first connections, the   *)
(* ends they leave behind in the server and whichever button the page has  *)
(* disabled.  Only a password without blanks at its ends can be entered:   *)
(* the page trims what is typed (handler.rs:1105), the server does not.    *)
(***************************************************************************)
FirstLogin == secret = "plain" => <>(authenticated \/ Locked)

(***************************************************************************)
(* "Automatic reconnection" (README.md:148), with session tokens "for      *)
(* reconnection" (README.md:163): a page that was logged in and lost its   *)
(* connection is logged in again some time.                                *)
(***************************************************************************)
LoginComesBack == (dialog = "done" /\ ~authenticated) ~> authenticated
=============================================================================
